---------------------- MODULE WaylandConnection_proofs ----------------------
(***************************************************************************)
(* Proofs about a connection, for any set of seats that come and go, any   *)
(* nesting of roundtrips, any delay of the compositor and any number of    *)
(* flushes that fail.                                                      *)
(***************************************************************************)
EXTENDS WaylandConnection, SequenceTheorems, FiniteSetTheorems, TLAPS

-----------------------------------------------------------------------------
(* The invariants                                                            *)

Frames == [for : Seats \cup {Start}, at : Places, done : BOOLEAN, named : BOOLEAN]
Waiting == {"drain", "pending"}

\* Only the innermost roundtrip can be preparing or polling, and there is one
\* only inside of the start and of the dispatching of the source.
Nested == /\ \A n \in 1..Len(stack) : n < Len(stack) => stack[n].at \in Waiting
          /\ stack # <<>> => phase \in {"starting", "dispatch"}
          /\ phase = "starting" => stack # <<>> /\ stack[1].for = Start
          /\ \A n \in 1..Len(stack) : stack[n].for = Start => n = 1 /\ phase = "starting"

\* After a failed read nothing is read any more: whatever is left ends.
Ending == broken => /\ \A n \in 1..Len(stack) : stack[n].at \in Waiting
                    /\ phase \in {"starting", "dispatch", "failed", "error", "stopped"}

ReadInv == TypeOK /\ Nested /\ Ending /\ ReadsBalanced

\* The removal of a seat is on its way.
Leaving(s) == \/ \E n \in 1..Len(queue) : queue[n] = Removed(s)
              \/ \E n \in 1..Len(wire) : wire[n] = Removed(s)

\* A seat that is in the table or being created is there, or its removal is to
\* come, or came too early.
Known == \A s \in Seats : s \in table \cup Running => s \in plugged \cup missed \/ Leaving(s)

\* A seat that is announced is there, or its removal comes after that.
Announced ==
    /\ \A s \in Seats, n \in 1..Len(queue) : queue[n] = Global(s) =>
          \/ s \in plugged
          \/ \E k \in 1..Len(queue) : n < k /\ queue[k] = Removed(s)
          \/ \E k \in 1..Len(wire) : wire[k] = Removed(s)
    /\ \A s \in Seats, n \in 1..Len(wire) : wire[n] = Global(s) =>
          s \in plugged \/ \E k \in 1..Len(wire) : n < k /\ wire[k] = Removed(s)

\* Before the registry is asked for, the program knows nothing.
Untold == ~told => /\ wire = <<>> /\ queue = <<>> /\ table = {}
                   /\ Running \subseteq {Start}
                   /\ requests \in {<<>>, <<GetRegistry, Sync(Start)>>}

TableInv == Known /\ Announced /\ Untold

-----------------------------------------------------------------------------
(* What a step does to the roundtrips                                        *)

LEMMA FrameChange ==
    ASSUME NEW r \in Frames, NEW b \in BOOLEAN
    PROVE  /\ [r EXCEPT !.named = b] \in Frames
           /\ [r EXCEPT !.named = b].for = r.for /\ [r EXCEPT !.named = b].at = r.at
           /\ [r EXCEPT !.done = b] \in Frames
           /\ [r EXCEPT !.done = b].for = r.for /\ [r EXCEPT !.done = b].at = r.at
BY DEF Frames

\* A roundtrip moves on ...
LEMMA MovesOn ==
    ASSUME stack \in Seq(Frames), stack # <<>>, NEW place \in Places, GoTo(place)
    PROVE  /\ stack' \in Seq(Frames) /\ stack' # <<>>
           /\ Len(stack') = Len(stack)
           /\ stack'[Len(stack)] = [stack[Len(stack)] EXCEPT !.at = place]
           /\ stack'[Len(stack)].at = place
           /\ \A n \in 1..Len(stack) : n < Len(stack) => stack'[n] = stack[n]
           /\ \A n \in 1..Len(stack) : stack'[n].for = stack[n].for
<1> DEFINE top == [stack[Len(stack)] EXCEPT !.at = place]
<1>1. Len(stack) \in Nat \ {0} /\ stack[Len(stack)] \in Frames
  BY EmptySeq, LenProperties, ElementOfSeq
<1>2. top \in Frames /\ top.at = place /\ top.for = stack[Len(stack)].for
  BY <1>1 DEF Frames
<1>3. stack' = [stack EXCEPT ![Len(stack)] = top]
  BY DEF GoTo
<1> HIDE DEF top
<1>4. stack' \in Seq(Frames) /\ Len(stack') = Len(stack)
  BY <1>1, <1>2, <1>3
<1>5. /\ stack'[Len(stack)] = top
      /\ \A n \in 1..Len(stack) : n < Len(stack) => stack'[n] = stack[n]
  BY <1>1, <1>3
<1>6. \A n \in 1..Len(stack) : stack'[n].for = stack[n].for
  BY <1>1, <1>2, <1>5
<1>7. stack' # <<>>
  BY <1>1, <1>4, EmptySeq
<1>8. stack'[Len(stack)] = [stack[Len(stack)] EXCEPT !.at = place]
  BY <1>5 DEF top
<1> QED BY <1>2, <1>4, <1>5, <1>6, <1>7, <1>8

\* ... or ends ...
LEMMA Ends ==
    ASSUME stack \in Seq(Frames), stack # <<>>, stack' = Front(stack)
    PROVE  /\ stack' \in Seq(Frames)
           /\ Len(stack') = Len(stack) - 1
           /\ \A n \in 1..Len(stack') : stack'[n] = stack[n]
<1> DEFINE k == Len(stack) - 1
           rest == SubSeq(stack, 1, k)
<1>1. k \in Nat /\ Len(stack) = k + 1
  BY EmptySeq, LenProperties
<1>2. stack' = rest
  BY DEF Front
<1>3. \A i \in 1..k : stack[i] \in Frames
  BY <1>1, ElementOfSeq
<1>4. /\ rest \in Seq(Frames)
      /\ Len(rest) = IF 1 <= k THEN k - 1 + 1 ELSE 0
      /\ \A i \in 1..(k - 1 + 1) : rest[i] = stack[1 + i - 1]
  BY <1>1, <1>3, SubSeqProperties
<1> HIDE DEF k, rest
<1>5. Len(rest) = k
  BY <1>1, <1>4
<1>6. ASSUME NEW i \in 1..k PROVE rest[i] = stack[i]
  <2>1. i \in 1..(k - 1 + 1) /\ 1 + i - 1 = i
    BY <1>1
  <2> QED BY <1>4, <2>1
<1> QED BY <1>1, <1>2, <1>4, <1>5, <1>6

\* ... or begins another one ...
LEMMA Begins ==
    ASSUME stack \in Seq(Frames), NEW s \in Seats \cup {Start},
           stack' = Append(stack, Roundtrip(s))
    PROVE  /\ stack' \in Seq(Frames) /\ stack' # <<>>
           /\ Len(stack') = Len(stack) + 1
           /\ stack'[Len(stack) + 1] = Roundtrip(s)
           /\ \A n \in 1..Len(stack) : stack'[n] = stack[n]
<1>1. Roundtrip(s) \in Frames
  BY DEF Roundtrip, Frames, Places
<1> QED BY <1>1

\* ... or gets its name or its done event.
LEMMA NamesOne ==
    ASSUME stack \in Seq(Frames), NEW s,
           stack' = [n \in DOMAIN stack |-> [stack[n] EXCEPT !.named = @ \/ stack[n].for = s]]
    PROVE  /\ stack' \in Seq(Frames) /\ Len(stack') = Len(stack)
           /\ \A n \in 1..Len(stack) : stack'[n].for = stack[n].for /\ stack'[n].at = stack[n].at
<1> DEFINE f(n) == [stack[n] EXCEPT !.named = @ \/ stack[n].for = s]
<1>1. ASSUME NEW n \in 1..Len(stack)
      PROVE  f(n) \in Frames /\ f(n).for = stack[n].for /\ f(n).at = stack[n].at
  <2> DEFINE b == stack[n].named \/ stack[n].for = s
  <2>1. stack[n] \in Frames /\ b \in BOOLEAN
    BY ElementOfSeq
  <2>2. f(n) = [stack[n] EXCEPT !.named = b]
    OBVIOUS
  <2> HIDE DEF b
  <2> QED BY <2>1, <2>2, FrameChange
<1>2. stack' = [n \in 1..Len(stack) |-> f(n)]
  BY LenProperties
<1> HIDE DEF f
<1> QED BY <1>1, <1>2, LenProperties

LEMMA EndsWait ==
    ASSUME stack \in Seq(Frames), NEW s,
           stack' = [n \in DOMAIN stack |-> [stack[n] EXCEPT !.done = @ \/ stack[n].for = s]]
    PROVE  /\ stack' \in Seq(Frames) /\ Len(stack') = Len(stack)
           /\ \A n \in 1..Len(stack) : stack'[n].for = stack[n].for /\ stack'[n].at = stack[n].at
<1> DEFINE f(n) == [stack[n] EXCEPT !.done = @ \/ stack[n].for = s]
<1>1. ASSUME NEW n \in 1..Len(stack)
      PROVE  f(n) \in Frames /\ f(n).for = stack[n].for /\ f(n).at = stack[n].at
  <2> DEFINE b == stack[n].done \/ stack[n].for = s
  <2>1. stack[n] \in Frames /\ b \in BOOLEAN
    BY ElementOfSeq
  <2>2. f(n) = [stack[n] EXCEPT !.done = b]
    OBVIOUS
  <2> HIDE DEF b
  <2> QED BY <2>1, <2>2, FrameChange
<1>2. stack' = [n \in 1..Len(stack) |-> f(n)]
  BY LenProperties
<1> HIDE DEF f
<1> QED BY <1>1, <1>2, LenProperties

-----------------------------------------------------------------------------
(* Types                                                                     *)

LEMMA TypeInit == Init => TypeOK
<1> SUFFICES ASSUME Init PROVE TypeOK
  OBVIOUS
<1>1. \A S : <<>> \in Seq(S)
  OBVIOUS
<1>2. 0 \in 0..MaxFails
  BY FailsBound
<1>3. /\ plugged \in SUBSET Seats /\ gone \in SUBSET Seats
      /\ table \in SUBSET Seats /\ missed \in SUBSET Seats
      /\ readers \in Int /\ leaks \in 0..MaxFails
  BY <1>2 DEF Init
<1>5. /\ told \in BOOLEAN /\ closed \in BOOLEAN /\ broken \in BOOLEAN
      /\ phase \in Phases
      /\ manager \in BOOLEAN
  BY DEF Init, Phases
<1>4. requests = <<>> /\ wire = <<>> /\ queue = <<>> /\ stack = <<>>
  BY DEF Init
<1> QED BY <1>1, <1>3, <1>4, <1>5 DEF TypeOK

\* A queue that loses its head, or gets more at its end, keeps its type.
LEMMA TailType ==
    ASSUME NEW S, NEW q \in Seq(S), q # <<>>
    PROVE  Tail(q) \in Seq(S) /\ Head(q) \in S
OBVIOUS

LEMMA TypeCompositor == TypeOK /\ Compositor => TypeOK'
<1> SUFFICES ASSUME TypeOK, Compositor PROVE TypeOK'
  OBVIOUS
<1> USE DEF TypeOK, library, program
<1>1. ASSUME NEW s \in Seats, Plug(s) PROVE TypeOK'
  BY <1>1 DEF Plug, Announce, Global, Events
<1>2. ASSUME NEW s \in Seats, Unplug(s) PROVE TypeOK'
  BY <1>2 DEF Unplug, Announce, Removed, Events
<1>3. ASSUME NEW s \in Seats, ServeBind(s) PROVE TypeOK'
  BY <1>3, TailType DEF ServeBind, Served, Name, Events
<1>4. ASSUME NEW f \in Seats \cup {Start}, ServeSync(f) PROVE TypeOK'
  BY <1>4, TailType DEF ServeSync, Served, Done, Events
<1>5. ASSUME ServeRegistry PROVE TypeOK'
  <2>1. PICK g \in SetToSeqs(plugged \cup {Manager}) :
           wire' = wire \o [n \in DOMAIN g |-> Global(g[n])]
    BY <1>5 DEF ServeRegistry
  <2>2. IsFiniteSet(plugged \cup {Manager})
    BY SeatsFinite, FS_Subset, FS_AddElement
  <2>3. g \in [1..Cardinality(plugged \cup {Manager}) -> plugged \cup {Manager}]
    BY <2>1 DEF SetToSeqs
  <2>4. [n \in DOMAIN g |-> Global(g[n])] \in Seq(Events)
    <3> DEFINE c == Cardinality(plugged \cup {Manager})
    <3>1. c \in Nat /\ DOMAIN g = 1..c
      BY <2>2, <2>3, FS_CardinalityType
    <3>2. \A n \in 1..c : Global(g[n]) \in Events
      BY <2>3 DEF Events, Global
    <3> HIDE DEF c
    <3> QED BY <3>1, <3>2
  <2>5. wire' \in Seq(Events)
    BY <2>1, <2>4
  <2> QED BY <1>5, <2>5, TailType DEF ServeRegistry, Served
<1>6. ASSUME Close PROVE TypeOK'
  BY <1>6 DEF Close
<1>7. ASSUME NEW s \in Seats, ServeDevice(s) PROVE TypeOK'
  BY <1>7, TailType DEF ServeDevice, Served, Selection, Events
<1> QED BY <1>1, <1>2, <1>3, <1>4, <1>5, <1>6, <1>7 DEF Compositor

\* TypeOK in two parts.
OutsideType ==
    /\ plugged \in SUBSET Seats /\ gone \in SUBSET Seats
    /\ told \in BOOLEAN /\ closed \in BOOLEAN /\ broken \in BOOLEAN
    /\ requests \in Seq(Requests)
    /\ wire \in Seq(Events) /\ queue \in Seq(Events)
    /\ readers \in Int

ProgramType ==
    /\ leaks \in 0..MaxFails
    /\ phase \in Phases
    /\ stack \in Seq(Frames)
    /\ table \in SUBSET Seats /\ missed \in SUBSET Seats
    /\ manager \in BOOLEAN

LEMMA TypeParts == (TypeOK <=> OutsideType /\ ProgramType) /\ (TypeOK <=> OutsideType /\ ProgramType)'
BY DEF TypeOK, OutsideType, ProgramType, Frames

LEMMA TypeOfRead ==
    OutsideType /\ (ReadEvents \/ ReadWaits \/ ReadFails) => OutsideType'
<1> SUFFICES ASSUME OutsideType, ReadEvents \/ ReadWaits \/ ReadFails PROVE OutsideType'
  OBVIOUS
<1> USE DEF OutsideType, compositor
<1>1. ASSUME ReadEvents PROVE OutsideType'
  <2>1. queue \o wire \in Seq(Events) /\ <<>> \in Seq(Events)
    OBVIOUS
  <2> QED BY <1>1, <2>1 DEF ReadEvents
<1>2. ASSUME ReadWaits PROVE OutsideType'
  BY <1>2 DEF ReadWaits
<1>3. ASSUME ReadFails PROVE OutsideType'
  <2>1. broken' \in BOOLEAN
    BY <1>3 DEF ReadFails
  <2> QED BY <1>3, <2>1 DEF ReadFails
<1> QED BY <1>1, <1>2, <1>3

\* The end of a roundtrip.
LEMMA TypeOfEnd ==
    ASSUME ProgramType, stack # <<>>, leaks' \in 0..MaxFails, Succeed \/ Fail
    PROVE  ProgramType'
<1>1. Len(stack) \in Nat \ {0} /\ Top \in Frames
  BY EmptySeq, LenProperties, ElementOfSeq DEF ProgramType, Top
<1>2. Top.for \in Seats \cup {Start}
  BY <1>1 DEF Frames
<1>3. stack' \in Seq(Frames)
  BY Ends DEF ProgramType, Succeed, Fail
<1>4. phase' \in Phases /\ table' \in SUBSET Seats /\ missed' \in SUBSET Seats
  BY <1>2 DEF ProgramType, Succeed, Fail, Phases
<1>5. manager' \in BOOLEAN
  BY DEF ProgramType, Succeed, Fail
<1> QED BY <1>3, <1>4, <1>5 DEF ProgramType

LEMMA TypeOfMove ==
    ASSUME ProgramType, stack # <<>>, NEW place \in Places, GoTo(place),
           UNCHANGED <<phase, table, manager, leaks, missed>>
    PROVE  ProgramType'
BY MovesOn DEF ProgramType

\* What a step of a roundtrip asks the compositor for: nothing, or the data device of
\* the seat that it is for.
Asks == \/ UNCHANGED requests
        \/ Top.for \in Seats /\ requests' = Append(requests, GetDevice(Top.for))

\* The other steps of a dispatch.
LEMMA TypeDispatch ==
    ASSUME OutsideType, ProgramType,
           Prepare \/ FlushFails \/ PollFails \/ Read \/ Dispatched
    PROVE  OutsideType' /\ ProgramType'
<1> USE DEF At
<1>1. ASSUME Prepare PROVE OutsideType' /\ ProgramType'
  <2>1. OutsideType'
    BY <1>1 DEF Prepare, OutsideType, compositor, PrepareRead
  <2>2. ProgramType'
    BY <1>1, TypeOfMove DEF Prepare, Places
  <2> QED BY <2>1, <2>2
<1>2. ASSUME FlushFails PROVE OutsideType' /\ ProgramType'
  <2>1. OutsideType'
    BY <1>2 DEF FlushFails, OutsideType, compositor, PrepareRead
  <2>2. leaks' \in 0..MaxFails
    BY <1>2, FailsBound DEF FlushFails, ProgramType
  <2> QED BY <1>2, <2>1, <2>2, TypeOfEnd DEF FlushFails
<1>3. ASSUME PollFails PROVE OutsideType' /\ ProgramType'
  <2>1. OutsideType'
    BY <1>3 DEF PollFails, OutsideType, compositor, CancelRead
  <2>2. leaks' \in 0..MaxFails
    BY <1>3 DEF PollFails, ProgramType
  <2> QED BY <1>3, <2>1, <2>2, TypeOfEnd DEF PollFails
<1>4. ASSUME Read PROVE OutsideType' /\ ProgramType'
  <2>1. OutsideType'
    BY <1>4, TypeOfRead DEF Read
  <2>2. leaks' \in 0..MaxFails /\ stack # <<>> /\ UNCHANGED leaks
    BY <1>4 DEF Read, ProgramType
  <2>3. CASE Fail
    BY <2>1, <2>2, <2>3, TypeOfEnd
  <2>4. CASE /\ GoTo("pending") \/ GoTo("blocked")
             /\ UNCHANGED <<phase, table, manager, missed>>
    BY <2>1, <2>2, <2>4, TypeOfMove DEF Places
  <2> QED BY <1>4, <2>3, <2>4 DEF Read
<1>5. ASSUME Dispatched PROVE OutsideType' /\ ProgramType'
  <2>1. OutsideType'
    <3>1. Asks /\ UNCHANGED <<library, plugged, gone, told, wire, closed>>
      BY <1>5 DEF Dispatched, Asks, Succeed, AskForDevice
    <3>2. requests \in Seq(Requests) /\ \A s \in Seats : GetDevice(s) \in Requests
      BY DEF OutsideType, GetDevice, Requests
    <3>3. requests' \in Seq(Requests)
      BY <3>1, <3>2 DEF Asks
    <3> QED BY <3>1, <3>3 DEF OutsideType, library
  <2>2. leaks' \in 0..MaxFails /\ stack # <<>> /\ UNCHANGED leaks
    BY <1>5 DEF Dispatched, ProgramType
  <2>3. CASE Fail \/ Succeed
    BY <2>1, <2>2, <2>3, TypeOfEnd
  <2>4. CASE GoTo("prepare") /\ UNCHANGED <<phase, table, manager, missed>>
    BY <2>1, <2>2, <2>4, TypeOfMove DEF Places
  <2> QED BY <1>5, <2>3, <2>4 DEF Dispatched
<1> QED BY <1>1, <1>2, <1>3, <1>4, <1>5

Handlers == \/ BindManager
            \/ \E s \in Seats : NewSeat(s) \/ RemoveSeat(s) \/ GetName(s) \/ GetSelection(s)
            \/ \E f \in Seats \cup {Start} : GetDone(f)

LEMMA TypeHandlers ==
    ASSUME OutsideType, ProgramType, Handlers
    PROVE  OutsideType' /\ ProgramType'
<1>1. ASSUME NEW e, Take(e) PROVE /\ queue' \in Seq(Events)
                                  /\ leaks' \in 0..MaxFails /\ phase' \in Phases
                                  /\ requests' \in Seq(Requests)
                                        => OutsideType'
  <2>1. queue' \in Seq(Events)
    BY <1>1, TailType DEF Take, OutsideType
  <2> QED BY <1>1, <2>1 DEF Take, OutsideType, ProgramType
<1>2. ASSUME BindManager PROVE OutsideType' /\ ProgramType'
  BY <1>2, <1>1 DEF BindManager, ProgramType, OutsideType
<1>3. ASSUME NEW s \in Seats, NewSeat(s) PROVE OutsideType' /\ ProgramType'
  <2>1. requests' \in Seq(Requests)
    BY <1>3 DEF NewSeat, OutsideType, Requests, Bind, Sync
  <2>2. stack' \in Seq(Frames)
    BY <1>3, Begins DEF NewSeat, ProgramType
  <2> QED BY <1>1, <1>3, <2>1, <2>2 DEF NewSeat, ProgramType
<1>4. ASSUME NEW s \in Seats, RemoveSeat(s) PROVE OutsideType' /\ ProgramType'
  BY <1>4, <1>1 DEF RemoveSeat, ProgramType, OutsideType
<1>5. ASSUME NEW s \in Seats, GetName(s) PROVE OutsideType' /\ ProgramType'
  <2>1. stack' \in Seq(Frames)
    BY <1>5, NamesOne DEF GetName, ProgramType
  <2> QED BY <1>1, <1>5, <2>1 DEF GetName, ProgramType, OutsideType
<1>6. ASSUME NEW f \in Seats \cup {Start}, GetDone(f) PROVE OutsideType' /\ ProgramType'
  <2>1. stack' \in Seq(Frames)
    BY <1>6, EndsWait DEF GetDone, ProgramType
  <2> QED BY <1>1, <1>6, <2>1 DEF GetDone, ProgramType, OutsideType
<1>7. ASSUME NEW s \in Seats, GetSelection(s) PROVE OutsideType' /\ ProgramType'
  BY <1>7, <1>1 DEF GetSelection, ProgramType, OutsideType
<1> QED BY <1>2, <1>3, <1>4, <1>5, <1>6, <1>7 DEF Handlers

MainLoop == Connect \/ InstallSource \/ SourcePrepare \/ SourceCheck \/ SourceDispatch \/ Finalize

LEMMA TypeMainLoop ==
    ASSUME OutsideType, ProgramType, MainLoop
    PROVE  OutsideType' /\ ProgramType'
<1>1. ASSUME Connect PROVE OutsideType' /\ ProgramType'
  <2>1. requests' \in Seq(Requests)
    BY <1>1 DEF Connect, Requests, GetRegistry, Sync
  <2>2. stack' \in Seq(Frames)
    BY <1>1 DEF Connect, Roundtrip, Frames, Places
  <2> QED BY <1>1, <2>1, <2>2 DEF Connect, OutsideType, ProgramType, Phases, library
<1>2. ASSUME InstallSource PROVE OutsideType' /\ ProgramType'
  BY <1>2 DEF InstallSource, OutsideType, ProgramType, Phases, library, compositor
<1>3. ASSUME SourcePrepare PROVE OutsideType' /\ ProgramType'
  BY <1>3 DEF SourcePrepare, PrepareRead, OutsideType, ProgramType, Phases, compositor
<1>4. ASSUME SourceCheck PROVE OutsideType' /\ ProgramType'
  <2>1. ProgramType'
    BY <1>4 DEF SourceCheck, ProgramType, Phases
  <2>2. CASE ReadEvents \/ ReadWaits \/ ReadFails
    BY <2>1, <2>2, TypeOfRead
  <2>3. CASE CancelRead /\ UNCHANGED <<queue, broken, compositor>>
    BY <2>1, <2>3 DEF CancelRead, OutsideType, compositor
  <2> QED BY <1>4, <2>2, <2>3 DEF SourceCheck
<1>5. ASSUME SourceDispatch PROVE OutsideType' /\ ProgramType'
  BY <1>5 DEF SourceDispatch, Stopped, OutsideType, ProgramType, Phases, library, compositor
<1>6. ASSUME Finalize PROVE OutsideType' /\ ProgramType'
  BY <1>6 DEF Finalize, Stopped, OutsideType, ProgramType, Phases, library, compositor
<1> QED BY <1>1, <1>2, <1>3, <1>4, <1>5, <1>6 DEF MainLoop

\* Every step is of one of these kinds.
Steps == Prepare \/ FlushFails \/ PollFails \/ Read \/ Dispatched

LEMMA NextKinds == Next => Compositor \/ Steps \/ Handlers \/ MainLoop
BY DEF Next, Dispatch, Steps, Handlers, MainLoop

LEMMA TypeNext == TypeOK /\ [Next]_vars => TypeOK'
<1> SUFFICES ASSUME TypeOK, [Next]_vars PROVE TypeOK'
  OBVIOUS
<1>1. CASE Compositor
  BY <1>1, TypeCompositor
<1>2. CASE Steps \/ Handlers \/ MainLoop
  BY <1>2, TypeParts, TypeDispatch, TypeHandlers, TypeMainLoop DEF Steps
<1>3. CASE UNCHANGED vars
  BY <1>3 DEF vars, compositor, library, program, TypeOK
<1> QED BY <1>1, <1>2, <1>3, NextKinds

\* Every variable of the connection always has its type.
THEOREM TypeCorrect == Spec => []TypeOK
<1> QED BY TypeInit, TypeNext, PTL DEF Spec

-----------------------------------------------------------------------------
(* Reads                                                                     *)

AllWait == \A n \in 1..Len(stack) : stack[n].at \in Waiting

LEMMA NestedMove ==
    ASSUME ProgramType, Nested, stack # <<>>, NEW place \in Places, GoTo(place), UNCHANGED phase
    PROVE  /\ Nested' /\ Top'.at = place
           /\ place \in Waiting => AllWait'
<1>1. Len(stack) \in Nat \ {0}
  BY EmptySeq, LenProperties DEF ProgramType
<1>2. /\ stack' # <<>> /\ Len(stack') = Len(stack)
      /\ stack'[Len(stack)].at = place
      /\ \A n \in 1..Len(stack) : n < Len(stack) => stack'[n] = stack[n]
      /\ \A n \in 1..Len(stack) : stack'[n].for = stack[n].for
  BY MovesOn DEF ProgramType
<1>3. Nested'
  BY <1>1, <1>2 DEF Nested
<1>4. Top'.at = place
  BY <1>2 DEF Top
<1>5. place \in Waiting => AllWait'
  BY <1>1, <1>2 DEF Nested, AllWait
<1> QED BY <1>3, <1>4, <1>5

LEMMA NestedEnd ==
    ASSUME ProgramType, Nested, stack # <<>>, Succeed \/ Fail
    PROVE  /\ Nested' /\ AllWait'
           /\ phase' \in {"starting", "dispatch", "started", "failed"}
           /\ Fail => phase' # "started"
<1>1. Len(stack) \in Nat \ {0}
  BY EmptySeq, LenProperties DEF ProgramType
<1>2. /\ stack' \in Seq(Frames) /\ Len(stack') = Len(stack) - 1
      /\ \A n \in 1..Len(stack') : stack'[n] = stack[n]
  BY Ends DEF ProgramType, Succeed, Fail
<1>3. AllWait'
  BY <1>1, <1>2 DEF AllWait, Nested
<1>4. stack' = <<>> <=> Len(stack) = 1
  BY <1>1, <1>2, EmptySeq
<1>5. CASE Top.for = Start
  <2>1. Len(stack) = 1
    <3>1. Len(stack) \in 1..Len(stack) /\ stack[Len(stack)].for = Start
      BY <1>1, <1>5 DEF Top
    <3> QED BY <3>1 DEF Nested
  <2>2. phase' \in {"started", "failed"} /\ (Fail => phase' = "failed" )
    BY <1>5 DEF Succeed, Fail
  <2> QED BY <1>2, <1>3, <1>4, <2>1, <2>2 DEF Nested
<1>6. CASE Top.for # Start
  <2>1. phase' = phase
    BY <1>6 DEF Succeed, Fail
  <2>2. phase = "starting" => Len(stack) > 1
    BY <1>1, <1>6 DEF Nested, Top
  <2>3. phase \in {"starting", "dispatch"}
    BY DEF Nested
  <2>4. Nested'
    BY <1>1, <1>2, <1>3, <1>4, <2>1, <2>2, <2>3 DEF Nested, AllWait
  <2> QED BY <1>3, <2>1, <2>3, <2>4
<1> QED BY <1>5, <1>6

LEMMA NobodyPrepares ==
    ASSUME (stack \in Seq(Frames))', AllWait', phase' # "check"
    PROVE  Preparing' = 0
<1>1. stack' # <<>> => Len(stack') \in 1..Len(stack')
  BY EmptySeq, LenProperties
<1> QED BY <1>1 DEF AllWait, Preparing, At, Top, Waiting

Reads == Nested /\ Ending /\ ReadsBalanced

\* Inside a roundtrip the source has no read prepared.
LEMMA InRoundtrip ==
    ASSUME Nested, stack # <<>>
    PROVE  /\ phase \in {"starting", "dispatch"}
           /\ Preparing = IF At("poll") THEN 1 ELSE 0
BY DEF Nested, Preparing

LEMMA NotBroken ==
    ASSUME ProgramType, Ending, stack # <<>>, Top.at \notin Waiting
    PROVE  ~broken
<1>1. Len(stack) \in 1..Len(stack)
  BY EmptySeq, LenProperties DEF ProgramType
<1> QED BY <1>1 DEF Ending, Top

LEMMA ReadsDispatch ==
    ASSUME OutsideType, ProgramType, Reads, ProgramType',
           Prepare \/ FlushFails \/ PollFails \/ Read \/ Dispatched
    PROVE  Reads'
<1>1. stack # <<>>
  BY DEF Prepare, FlushFails, PollFails, Read, Dispatched, At
<1>2. /\ phase \in {"starting", "dispatch"}
      /\ Preparing = IF At("poll") THEN 1 ELSE 0
  BY <1>1, InRoundtrip DEF Reads
<1>3. /\ Nested /\ Ending /\ ReadsBalanced
      /\ readers \in Int /\ leaks \in Int
  BY FailsBound DEF Reads, OutsideType, ProgramType
<1>4. ASSUME Succeed \/ Fail
      PROVE  /\ Nested' /\ AllWait' /\ Preparing' = 0
             /\ phase' \in {"starting", "dispatch", "started", "failed"}
             /\ Fail => phase' # "started"
  <2>1. /\ Nested' /\ AllWait'
        /\ phase' \in {"starting", "dispatch", "started", "failed"}
        /\ Fail => phase' # "started"
    BY <1>1, <1>3, <1>4, NestedEnd
  <2>2. Preparing' = 0
    BY <2>1, NobodyPrepares DEF ProgramType
  <2> QED BY <2>1, <2>2
<1>5. ASSUME NEW place \in Places, GoTo(place), UNCHANGED phase
      PROVE  /\ Nested' /\ Preparing' = (IF place = "poll" THEN 1 ELSE 0)
             /\ place \in Waiting => AllWait'
             /\ stack' # <<>>
  <2>1. /\ Nested' /\ Top'.at = place
        /\ place \in Waiting => AllWait'
    BY <1>1, <1>3, <1>5, NestedMove
  <2>2. stack' # <<>> /\ phase' # "check"
    BY <1>1, <1>2, <1>5, MovesOn DEF ProgramType
  <2>3. At("poll")' <=> place = "poll"
    BY <2>1, <2>2 DEF At
  <2> QED BY <2>1, <2>2, <2>3 DEF Preparing
<1>6. ASSUME Prepare PROVE Reads'
  <2>1. ~broken /\ readers = leaks
    BY <1>1, <1>2, <1>3, <1>6, NotBroken DEF Prepare, At, Waiting, ReadsBalanced
  <2>2. ~broken' /\ leaks' = leaks /\ UNCHANGED phase
    BY <1>6, <2>1 DEF Prepare
  <2>3. CASE GoTo("drain") /\ UNCHANGED readers
    <3>1. Nested' /\ Preparing' = 0
      BY <1>5, <2>2, <2>3 DEF Places
    <3> QED BY <1>3, <2>1, <2>2, <2>3, <3>1 DEF Reads, Ending, ReadsBalanced
  <2>4. CASE GoTo("poll") /\ PrepareRead
    BY <1>5, <2>1, <2>2, <2>4 DEF Reads, Ending, ReadsBalanced, Places, PrepareRead
  <2> QED BY <1>6, <2>3, <2>4 DEF Prepare
<1>7. ASSUME FlushFails PROVE Reads'
  <2>1. ~broken /\ readers = leaks
    BY <1>1, <1>2, <1>3, <1>7, NotBroken DEF FlushFails, At, Waiting, ReadsBalanced
  <2>2. ~broken' /\ leaks' = leaks + 1 /\ readers' = readers + 1
    BY <1>7, <2>1 DEF FlushFails, PrepareRead
  <2>3. Nested' /\ Preparing' = 0
    BY <1>4, <1>7 DEF FlushFails
  <2> QED BY <1>3, <2>1, <2>2, <2>3 DEF Reads, Ending, ReadsBalanced
<1>8. ASSUME PollFails PROVE Reads'
  <2>1. ~broken /\ readers = leaks + 1
    BY <1>1, <1>2, <1>3, <1>8, NotBroken DEF PollFails, At, Waiting, ReadsBalanced
  <2>2. ~broken' /\ leaks' = leaks /\ readers' = readers - 1
    BY <1>8, <2>1 DEF PollFails, CancelRead
  <2>3. Nested' /\ Preparing' = 0
    BY <1>4, <1>8 DEF PollFails
  <2> QED BY <1>3, <2>1, <2>2, <2>3 DEF Reads, Ending, ReadsBalanced
<1>9. ASSUME Read PROVE Reads'
  <2>1. ~broken /\ readers = leaks + 1
    BY <1>1, <1>2, <1>3, <1>9, NotBroken DEF Read, At, Waiting, ReadsBalanced
  <2>2. leaks' = leaks
    BY <1>9 DEF Read
  <2>3. CASE ReadEvents /\ GoTo("pending") /\ UNCHANGED phase
    BY <1>3, <1>5, <2>1, <2>2, <2>3 DEF Reads, Ending, ReadsBalanced, Places, ReadEvents
  <2>4. CASE ReadWaits /\ GoTo("blocked") /\ UNCHANGED phase
    BY <1>3, <1>5, <2>1, <2>2, <2>4 DEF Reads, Ending, ReadsBalanced, Places, ReadWaits
  <2>5. CASE ReadFails /\ Fail
    <3>1. readers = 1 /\ readers' = readers - 2 /\ broken'
      BY <2>1, <2>5 DEF ReadFails
    <3>2. Nested' /\ AllWait' /\ phase' \in {"starting", "dispatch", "failed"}
      BY <1>4, <2>5
    <3>3. Ending'
      BY <3>2 DEF Ending, AllWait
    <3>4. ReadsBalanced'
      BY <1>3, <2>1, <2>2, <3>1 DEF ReadsBalanced
    <3> QED BY <3>2, <3>3, <3>4 DEF Reads
  <2> QED BY <1>9, <2>3, <2>4, <2>5 DEF Read
<1>10. ASSUME Dispatched PROVE Reads'
  <2>1. Preparing = 0
    BY <1>2, <1>10 DEF Dispatched, At
  <2>2. leaks' = leaks /\ readers' = readers /\ broken' = broken
    BY <1>10 DEF Dispatched, library
  <2>3. CASE Fail
    <3>1. Nested' /\ AllWait' /\ Preparing' = 0 /\ phase' \in {"starting", "dispatch", "failed"}
      BY <1>4, <2>3
    <3>2. Ending'
      BY <3>1 DEF Ending, AllWait
    <3> QED BY <1>3, <2>1, <2>2, <3>1, <3>2 DEF Reads, ReadsBalanced
  <2>4. CASE Succeed /\ ~broken
    BY <1>3, <1>4, <2>1, <2>2, <2>4 DEF Reads, Ending, ReadsBalanced
  <2>5. CASE GoTo("prepare") /\ ~broken /\ UNCHANGED phase
    BY <1>3, <1>5, <2>1, <2>2, <2>5 DEF Reads, Ending, ReadsBalanced, Places
  <2> QED BY <1>10, <2>3, <2>4, <2>5 DEF Dispatched
<1> QED BY <1>6, <1>7, <1>8, <1>9, <1>10

LEMMA ReadsHandlers ==
    ASSUME OutsideType, ProgramType, Reads, ProgramType', Handlers
    PROVE  Reads'
<1>1. PICK e : Take(e)
  BY DEF Handlers, BindManager, NewSeat, RemoveSeat, GetName, GetDone, GetSelection
<1>2. /\ ~broken /\ ~broken' /\ readers' = readers /\ leaks' = leaks /\ phase' = phase
      /\ Dispatching
  BY <1>1 DEF Take
<1>3. Len(stack) \in Nat /\ (stack = <<>> <=> Len(stack) = 0)
  BY EmptySeq, LenProperties DEF ProgramType
<1>4. AllWait /\ phase \in {"starting", "dispatch"} /\ Preparing = 0
  BY <1>2, <1>3 DEF Reads, Nested, AllWait, Dispatching, Top, Waiting, Preparing, At
<1>5. readers = leaks /\ leaks \in Int
  BY <1>2, <1>4, FailsBound DEF Reads, ReadsBalanced, ProgramType
<1>6. ASSUME Nested', Preparing' = 0 PROVE Reads'
  BY <1>2, <1>5, <1>6 DEF Reads, Ending, ReadsBalanced
<1>7. ASSUME Len(stack') = Len(stack),
             \A n \in 1..Len(stack) : stack'[n].for = stack[n].for /\ stack'[n].at = stack[n].at
      PROVE  Reads'
  <2>1. AllWait' /\ phase' # "check"
    BY <1>2, <1>4, <1>7 DEF AllWait
  <2>2. Preparing' = 0
    BY <2>1, NobodyPrepares DEF ProgramType
  <2>3. (stack' # <<>>) <=> (stack # <<>>)
    BY <1>3, <1>7, EmptySeq DEF ProgramType
  <2>4. Nested'
    BY <1>2, <1>3, <1>7, <2>3 DEF Reads, Nested
  <2> QED BY <1>6, <2>2, <2>4
<1>8. ASSUME BindManager \/ \E s \in Seats : RemoveSeat(s) \/ GetSelection(s) PROVE Reads'
  BY <1>7, <1>8 DEF BindManager, RemoveSeat, GetSelection
<1>9. ASSUME NEW s \in Seats, NewSeat(s) PROVE Reads'
  <2>1. /\ stack' # <<>> /\ Len(stack') = Len(stack) + 1
        /\ stack'[Len(stack) + 1] = Roundtrip(s)
        /\ \A n \in 1..Len(stack) : stack'[n] = stack[n]
    BY <1>9, Begins DEF NewSeat, ProgramType
  <2>2. Roundtrip(s).at = "prepare" /\ Roundtrip(s).for # Start
    BY NamesDiffer DEF Roundtrip
  <2>3. Preparing' = 0
    BY <1>2, <1>3, <1>4, <2>1, <2>2 DEF Preparing, At, Top
  <2>4. Nested'
    <3>1. \A n \in 1..Len(stack') : n < Len(stack') => stack'[n].at \in Waiting
      BY <1>3, <1>4, <2>1 DEF AllWait
    <3>2. phase' = "starting" => stack'[1].for = Start
      BY <1>2, <1>3, <2>1 DEF Reads, Nested
    <3>3. \A n \in 1..Len(stack') : stack'[n].for = Start => n = 1 /\ phase' = "starting"
      BY <1>2, <1>3, <2>1, <2>2 DEF Reads, Nested
    <3> QED BY <1>2, <1>4, <2>1, <3>1, <3>2, <3>3 DEF Nested
  <2> QED BY <1>6, <2>3, <2>4
<1>10. ASSUME NEW s \in Seats, GetName(s) PROVE Reads'
  BY <1>7, <1>10, NamesOne DEF GetName, ProgramType
<1>11. ASSUME NEW f \in Seats \cup {Start}, GetDone(f) PROVE Reads'
  BY <1>7, <1>11, EndsWait DEF GetDone, ProgramType
<1> QED BY <1>8, <1>9, <1>10, <1>11 DEF Handlers

LEMMA ReadsMainLoop ==
    ASSUME OutsideType, ProgramType, Reads, MainLoop
    PROVE  Reads'
<1>1. readers \in Int /\ leaks \in Int
  BY FailsBound DEF OutsideType, ProgramType
<1>2. ASSUME Connect PROVE Reads'
  <2>1. /\ stack' = <<Roundtrip(Start)>> /\ phase' = "starting"
        /\ Roundtrip(Start).at = "prepare" /\ Roundtrip(Start).for = Start
        /\ UNCHANGED <<readers, leaks, broken>>
    BY <1>2 DEF Connect, Roundtrip, library
  <2>2. ~broken /\ readers = leaks
    BY <1>1, <1>2 DEF Reads, Ending, ReadsBalanced, Preparing, Connect, At
  <2>3. Nested' /\ Preparing' = 0
    BY <2>1 DEF Nested, Preparing, At, Top
  <2> QED BY <1>1, <2>1, <2>2, <2>3 DEF Reads, Ending, ReadsBalanced
<1>3. ASSUME phase \in {"started", "prepare", "check", "error", "failed"} \/ SourceDispatch,
             MainLoop, phase # "new"
      PROVE  stack = <<>> /\ stack' = <<>>
  BY <1>3 DEF Reads, Nested, MainLoop, Connect, InstallSource, SourcePrepare, SourceCheck,
              SourceDispatch, Finalize
<1>4. ASSUME stack = <<>>, stack' = <<>>, phase' # "starting", Ending', ReadsBalanced'
      PROVE  Reads'
  BY <1>4 DEF Reads, Nested
<1>5. ASSUME InstallSource PROVE Reads'
  <2>1. /\ stack = <<>> /\ stack' = <<>> /\ ~broken /\ phase' = "prepare"
        /\ UNCHANGED <<readers, leaks, broken>> /\ readers = leaks
    BY <1>1, <1>3, <1>5 DEF InstallSource, MainLoop, Reads, Ending, ReadsBalanced, Preparing, At, library
  <2> QED BY <1>1, <1>4, <2>1 DEF Ending, ReadsBalanced, Preparing, At
<1>6. ASSUME SourcePrepare PROVE Reads'
  <2>1. /\ stack = <<>> /\ stack' = <<>> /\ ~broken /\ ~broken' /\ readers = leaks /\ leaks' = leaks
    BY <1>1, <1>3, <1>6 DEF SourcePrepare, MainLoop, Reads, Ending, ReadsBalanced, Preparing, At
  <2>2. \/ readers' = readers /\ phase' \in {"dispatch", "error"}
        \/ readers' = readers + 1 /\ phase' = "check"
    BY <1>6 DEF SourcePrepare, PrepareRead
  <2> QED BY <1>1, <1>4, <2>1, <2>2 DEF Ending, ReadsBalanced, Preparing, At
<1>7. ASSUME SourceCheck PROVE Reads'
  <2>1. /\ stack = <<>> /\ stack' = <<>> /\ ~broken /\ readers = leaks + 1 /\ leaks' = leaks
    BY <1>1, <1>3, <1>7 DEF SourceCheck, MainLoop, Reads, Ending, ReadsBalanced, Preparing, At
  <2>2. \/ readers' = readers - 1 /\ ~broken' /\ phase' \in {"dispatch", "blocked", "error", "prepare"}
        \/ readers' = readers - 2 /\ broken' /\ phase' = "error"
    BY <1>1, <1>7, <2>1 DEF SourceCheck, ReadEvents, ReadWaits, ReadFails, CancelRead
  <2> QED BY <1>1, <1>4, <2>1, <2>2 DEF Ending, ReadsBalanced, Preparing, At
<1>8. ASSUME SourceDispatch \/ Finalize PROVE Reads'
  <2>1. /\ stack = <<>> /\ stack' = <<>>
        /\ UNCHANGED <<readers, leaks, broken>>
        /\ phase' = "stopped" \/ (phase' = "prepare" /\ ~broken)
        /\ phase # "check"
    <3>1. CASE SourceDispatch
      BY <3>1 DEF SourceDispatch, Stopped, library
    <3>2. CASE Finalize
      BY <1>3, <3>2 DEF Finalize, Stopped, MainLoop, library
    <3> QED BY <1>8, <3>1, <3>2
  <2> QED BY <1>1, <1>4, <2>1 DEF Reads, Ending, ReadsBalanced, Preparing, At
<1> QED BY <1>2, <1>5, <1>6, <1>7, <1>8 DEF MainLoop

LEMMA ReadsHold == Spec => [](TypeOK /\ Reads)
<1>1. Init => Reads
  BY EmptySeq DEF Init, Reads, Nested, Ending, ReadsBalanced, Preparing, At
<1>2. TypeOK /\ Reads /\ [Next]_vars => Reads'
  <2> SUFFICES ASSUME TypeOK, Reads, [Next]_vars PROVE Reads'
    OBVIOUS
  <2>1. OutsideType /\ ProgramType /\ ProgramType'
    BY TypeParts, TypeNext
  <2>2. CASE Compositor \/ UNCHANGED vars
    <3>1. UNCHANGED <<library, program>>
      BY <2>2 DEF Compositor, Plug, Unplug, ServeBind, ServeDevice, ServeSync, ServeRegistry, Close, vars
    <3> QED BY <3>1 DEF Reads, Nested, Ending, ReadsBalanced, Preparing, At, Top, library, program
  <2>3. CASE Steps \/ Handlers \/ MainLoop
    BY <2>1, <2>3, ReadsDispatch, ReadsHandlers, ReadsMainLoop DEF Steps
  <2> QED BY <2>2, <2>3, NextKinds
<1> QED BY <1>1, <1>2, TypeInit, TypeNext, PTL DEF Spec

\* However roundtrips nest, every read that is prepared is read or cancelled once;
\* only a flush that fails inside a dispatch leaves one behind, and only after an
\* error that stays is one cancelled twice.
THEOREM ReadsStayBalanced == Spec => []ReadsBalanced
<1>1. Reads => ReadsBalanced
  BY DEF Reads
<1> QED BY ReadsHold, <1>1, PTL

\* The thread can only wait for ever for a read that a failed flush left behind.
THEOREM WaitsForNothingElse == Spec => []WaitsForLeakOnly
<1>1. Init => WaitsForLeakOnly
  BY DEF Init, WaitsForLeakOnly, At
<1>2. TypeOK /\ Reads /\ TypeOK' /\ WaitsForLeakOnly /\ [Next]_vars => WaitsForLeakOnly'
  <2> SUFFICES ASSUME TypeOK, Reads, TypeOK', WaitsForLeakOnly, [Next]_vars,
                      At("blocked")' \/ phase' = "blocked"
               PROVE  leaks' > 0
    BY DEF WaitsForLeakOnly
  <2>1. OutsideType /\ ProgramType /\ ProgramType' /\ readers \in Int /\ leaks \in Nat /\ leaks' \in Nat
    BY TypeParts, FailsBound DEF OutsideType, ProgramType
  <2>2. ASSUME ReadWaits, Preparing = 1, UNCHANGED leaks PROVE leaks' > 0
    BY <2>1, <2>2 DEF ReadWaits, Reads, ReadsBalanced
  <2>3. ASSUME At("blocked") \/ phase = "blocked", leaks' >= leaks PROVE leaks' > 0
    BY <2>1, <2>3 DEF WaitsForLeakOnly
  <2>4. CASE Compositor \/ UNCHANGED vars
    <3>1. UNCHANGED <<library, program>>
      BY <2>4 DEF Compositor, Plug, Unplug, ServeBind, ServeDevice, ServeSync, ServeRegistry, Close, vars
    <3> QED BY <2>1, <2>3, <3>1 DEF At, Top, program
  <2>5. CASE Steps
    <3>1. stack # <<>> /\ phase \in {"starting", "dispatch"} /\ Len(stack) \in Nat \ {0}
      BY <2>1, <2>5, InRoundtrip, EmptySeq, LenProperties
         DEF Steps, Prepare, FlushFails, PollFails, Read, Dispatched, At, Reads, ProgramType
    <3>2. ASSUME Succeed \/ Fail PROVE FALSE
      <4>1. AllWait' /\ phase' # "blocked" /\ (stack \in Seq(Frames))'
        BY <2>1, <3>1, <3>2, NestedEnd DEF Reads, ProgramType
      <4>2. stack' # <<>> => Len(stack') \in 1..Len(stack')
        BY <4>1, EmptySeq, LenProperties
      <4> QED BY <4>1, <4>2 DEF AllWait, At, Top, Waiting
    <3>3. ASSUME NEW place \in Places, GoTo(place), UNCHANGED phase, place # "blocked" PROVE FALSE
      BY <2>1, <3>1, <3>3, NestedMove DEF Reads, At
    <3>4. CASE ReadWaits /\ At("poll") /\ UNCHANGED leaks
      BY <2>2, <3>1, <3>4, InRoundtrip DEF Reads
    <3> QED BY <2>5, <3>2, <3>3, <3>4 DEF Steps, Prepare, FlushFails, PollFails, Read, Dispatched, Places
  <2>6. CASE Handlers
    <3>1. Dispatching /\ phase' = phase /\ leaks' = leaks
      BY <2>6 DEF Handlers, BindManager, NewSeat, RemoveSeat, GetName, GetDone, GetSelection, Take
    <3>2. phase' \in {"starting", "dispatch"}
      BY <3>1 DEF Dispatching, Reads, Nested
    <3>3. Len(stack') \in Nat /\ (stack' = <<>> <=> Len(stack') = 0) /\ Len(stack) \in Nat
      BY <2>1, EmptySeq, LenProperties DEF ProgramType
    <3>4. CASE Len(stack') = Len(stack) /\ \A n \in 1..Len(stack) : stack'[n].at = stack[n].at
      BY <2>3, <3>1, <3>2, <3>3, <3>4, <2>1, EmptySeq DEF At, Top, ProgramType
    <3>5. ASSUME NEW s \in Seats, NewSeat(s) PROVE FALSE
      BY <2>1, <3>2, <3>5, Begins DEF NewSeat, ProgramType, At, Top, Roundtrip
    <3> QED BY <2>1, <2>6, <3>4, <3>5, NamesOne, EndsWait
            DEF Handlers, BindManager, RemoveSeat, GetName, GetDone, GetSelection, ProgramType
  <2>7. CASE MainLoop
    <3>1. CASE Connect
      BY <3>1 DEF Connect, At, Top, Roundtrip
    <3>2. CASE SourceCheck
      <4>1. stack' = <<>> /\ stack = <<>> /\ Preparing = 1 /\ UNCHANGED leaks
        BY <3>2 DEF SourceCheck, Reads, Nested, Preparing
      <4> QED BY <2>2, <3>2, <4>1 DEF SourceCheck, At
    <3>3. CASE InstallSource \/ SourcePrepare \/ SourceDispatch \/ Finalize
      <4>1. stack' = stack /\ phase' # "blocked" /\ UNCHANGED leaks
        BY <3>3 DEF InstallSource, SourcePrepare, SourceDispatch, Finalize, Stopped
      <4> QED BY <2>1, <2>3, <4>1 DEF At, Top
    <3> QED BY <2>7, <3>1, <3>2, <3>3 DEF MainLoop
  <2> QED BY <2>4, <2>5, <2>6, <2>7, NextKinds
<1> QED BY <1>1, <1>2, ReadsHold, PTL DEF Spec

-----------------------------------------------------------------------------
(* The table of seats                                                        *)

\* Events differ by their kind and by what they are about.
LEMMA EventsDiffer ==
    /\ \A s, x : Removed(s) # Global(x) /\ Removed(s) # Name(x) /\ Removed(s) # Done(x)
    /\ \A s, x : Global(s) # Name(x) /\ Global(s) # Done(x)
    /\ \A s, x : (Removed(s) = Removed(x) => s = x) /\ (Global(s) = Global(x) => s = x)
    /\ \A s, x : Selection(s) # Removed(x) /\ Selection(s) # Global(x) /\ Selection(s) # Done(x)
BY DEF Removed, Global, Name, Done, Selection

\* Events that are added behind others, none of them announcing a seat that has
\* gone, change nothing for the seats that are known.
LEMMA Appended ==
    ASSUME Known, Announced, NEW more \in Seq(Events), wire \in Seq(Events), queue \in Seq(Events),
           wire' = wire \o more, UNCHANGED <<queue, table, stack, missed>>,
           \A s \in Seats : s \in plugged =>
              s \in plugged' \/ \E k \in 1..Len(more) : more[k] = Removed(s),
           \A s \in Seats, n \in 1..Len(more) : more[n] = Global(s) => s \in plugged'
    PROVE  Known' /\ Announced'
<1>1. /\ Len(wire) \in Nat /\ Len(more) \in Nat /\ Len(wire') = Len(wire) + Len(more)
      /\ \A n \in 1..Len(wire) : wire'[n] = wire[n]
      /\ \A n \in 1..Len(more) : wire'[Len(wire) + n] = more[n]
  BY ConcatProperties, LenProperties
<1>2. \A s : (\E k \in 1..Len(wire) : wire[k] = Removed(s))
                => \E k \in 1..Len(wire') : wire'[k] = Removed(s)
  BY <1>1
<1>3. ASSUME NEW s \in Seats, s \in plugged, s \notin plugged'
      PROVE  \E k \in 1..Len(wire') : k > Len(wire) /\ wire'[k] = Removed(s)
  <2>1. PICK k \in 1..Len(more) : more[k] = Removed(s)
    BY <1>3
  <2>2. Len(wire) + k \in 1..Len(wire') /\ Len(wire) + k > Len(wire)
    BY <1>1
  <2> QED BY <1>1, <2>1, <2>2
<1>4. Known'
  <2> SUFFICES ASSUME NEW s \in Seats, s \in table \cup Running
               PROVE  s \in plugged' \cup missed \/ Leaving(s)'
    BY DEF Known, Running
  <2>1. s \in plugged \cup missed \/ Leaving(s)
    BY DEF Known
  <2> QED BY <1>2, <1>3, <2>1 DEF Leaving
<1>5. ASSUME NEW s \in Seats, NEW n \in 1..Len(queue), queue[n] = Global(s)
      PROVE  \/ s \in plugged'
             \/ \E k \in 1..Len(queue) : n < k /\ queue[k] = Removed(s)
             \/ \E k \in 1..Len(wire') : wire'[k] = Removed(s)
  BY <1>2, <1>3, <1>5 DEF Announced
<1>6. ASSUME NEW s \in Seats, NEW n \in 1..Len(wire'), wire'[n] = Global(s)
      PROVE  s \in plugged' \/ \E k \in 1..Len(wire') : n < k /\ wire'[k] = Removed(s)
  <2>1. CASE n \in 1..Len(wire)
    <3>1. s \in plugged \/ \E k \in 1..Len(wire) : n < k /\ wire[k] = Removed(s)
      BY <1>1, <1>6, <2>1 DEF Announced
    <3>2. CASE s \in plugged
      BY <1>1, <1>3, <2>1, <3>2
    <3>3. CASE \E k \in 1..Len(wire) : n < k /\ wire[k] = Removed(s)
      BY <1>1, <3>3
    <3> QED BY <3>1, <3>2, <3>3
  <2>2. CASE n \notin 1..Len(wire)
    <3>1. n - Len(wire) \in 1..Len(more) /\ Len(wire) + (n - Len(wire)) = n
      BY <1>1, <2>2
    <3>2. more[n - Len(wire)] = Global(s)
      BY <1>1, <1>6, <3>1
    <3> QED BY <3>1, <3>2
  <2> QED BY <2>1, <2>2
<1> QED BY <1>4, <1>5, <1>6 DEF Announced

LEMMA TableCompositor ==
    ASSUME OutsideType, ProgramType, TableInv, Compositor
    PROVE  TableInv'
<1> USE DEF TableInv
<1>1. queue \in Seq(Events) /\ wire \in Seq(Events)
  BY DEF OutsideType
<1>2. UNCHANGED <<queue, table, stack, missed>>
  BY DEF Compositor, Plug, Unplug, ServeBind, ServeDevice, ServeSync, ServeRegistry, Close, library, program
<1>3. ASSUME UNCHANGED plugged, UNCHANGED wire PROVE Known' /\ Announced'
  BY <1>2, <1>3 DEF Known, Announced, Leaving, Running
<1>4. ASSUME NEW s \in Seats, Plug(s) PROVE TableInv'
  <2>1. CASE told
    <3>1. wire' = wire \o <<Global(s)>> /\ <<Global(s)>> \in Seq(Events)
      <4>1. Global(s) \in Events /\ wire' = Append(wire, Global(s))
        BY <1>4, <2>1 DEF Plug, Announce, Global, Events
      <4> QED BY <1>1, <4>1, AppendIsConcat
    <3>2. Known' /\ Announced'
      <4> DEFINE more == <<Global(s)>>
      <4>1. Len(more) = 1 /\ more[1] = Global(s)
        OBVIOUS
      <4> HIDE DEF more
      <4>2. \A x \in Seats, n \in 1..Len(more) : more[n] = Global(x) => x \in plugged'
        BY <1>4, <4>1, EventsDiffer DEF Plug
      <4>3. \A x \in Seats : x \in plugged => x \in plugged'
        BY <1>4 DEF Plug
      <4>4. more \in Seq(Events) /\ wire' = wire \o more
        BY <3>1 DEF more
      <4> QED BY <1>1, <1>2, <4>2, <4>3, <4>4, Appended
    <3> QED BY <1>4, <2>1, <3>2 DEF Plug, Untold
  <2>2. CASE ~told
    <3>1. UNCHANGED <<wire, told, requests>>
      BY <1>4, <2>2 DEF Plug, Announce
    <3>2. Known' /\ Announced'
      BY <1>2, <1>4, <3>1 DEF Plug, Known, Announced, Leaving, Running
    <3> QED BY <1>2, <3>1, <3>2 DEF Untold, Running
  <2> QED BY <2>1, <2>2
<1>5. ASSUME NEW s \in Seats, Unplug(s) PROVE TableInv'
  <2>1. CASE told
    <3> DEFINE more == <<Removed(s)>>
    <3>1. Len(more) = 1 /\ more[1] = Removed(s)
      OBVIOUS
    <3>2. more \in Seq(Events) /\ wire' = wire \o more
      <4>1. Removed(s) \in Events /\ wire' = Append(wire, Removed(s))
        BY <1>5, <2>1 DEF Unplug, Announce, Removed, Events
      <4> QED BY <1>1, <4>1, AppendIsConcat
    <3> HIDE DEF more
    <3>3. \A x \in Seats, n \in 1..Len(more) : more[n] = Global(x) => x \in plugged'
      BY <3>1, EventsDiffer
    <3>4. \A x \in Seats : x \in plugged =>
             x \in plugged' \/ \E k \in 1..Len(more) : more[k] = Removed(x)
      BY <1>5, <3>1 DEF Unplug
    <3>5. Known' /\ Announced'
      BY <1>1, <1>2, <3>2, <3>3, <3>4, Appended
    <3> QED BY <1>5, <2>1, <3>5 DEF Unplug, Untold
  <2>2. CASE ~told
    <3>1. UNCHANGED <<wire, told, requests>>
      BY <1>5, <2>2 DEF Unplug, Announce
    <3>2. /\ wire' = <<>> /\ queue' = <<>> /\ table' = {} /\ Running' \subseteq {Start}
      BY <1>2, <2>2, <3>1 DEF Untold, Running
    <3>3. Known' /\ Announced'
      BY <3>2, NamesDiffer DEF Known, Announced
    <3> QED BY <1>2, <2>2, <3>1, <3>3 DEF Untold, Running
  <2> QED BY <2>1, <2>2
<1>6. ASSUME NEW e \in Events, told, told', wire' = Append(wire, e), UNCHANGED plugged,
             \A s : e # Global(s)
      PROVE  TableInv'
  <2> DEFINE more == <<e>>
  <2>1. Len(more) = 1 /\ more[1] = e
    OBVIOUS
  <2>2. more \in Seq(Events) /\ wire' = wire \o more
    BY <1>1, <1>6, AppendIsConcat
  <2> HIDE DEF more
  <2>3. \A x \in Seats, n \in 1..Len(more) : more[n] = Global(x) => x \in plugged'
    BY <1>6, <2>1
  <2>4. Known' /\ Announced'
    BY <1>1, <1>2, <1>6, <2>2, <2>3, Appended
  <2> QED BY <1>6, <2>4 DEF Untold
<1>7. ASSUME Served, Head(requests) # GetRegistry PROVE told
  <2>1. requests # <<>> /\ (requests = <<GetRegistry, Sync(Start)>> => Head(requests) = GetRegistry)
    BY <1>7 DEF Served
  <2> QED BY <1>7, <2>1 DEF Untold
<1>8. ASSUME NEW s \in Seats, ServeBind(s) PROVE TableInv'
  <2>1. told /\ told' /\ UNCHANGED plugged
    BY <1>7, <1>8 DEF ServeBind, Bind, GetRegistry
  <2>2. Name(s) \in Events /\ \A x : Name(s) # Global(x)
    BY EventsDiffer DEF Name, Events
  <2>3. wire' = wire \/ wire' = Append(wire, Name(s))
    BY <1>8 DEF ServeBind
  <2>4. CASE wire' = wire
    BY <1>3, <2>1, <2>4 DEF Untold
  <2>5. CASE wire' = Append(wire, Name(s))
    BY <1>6, <2>1, <2>2, <2>5
  <2> QED BY <2>3, <2>4, <2>5
<1>9. ASSUME NEW f \in Seats \cup {Start}, ServeSync(f) PROVE TableInv'
  <2>1. told /\ told' /\ UNCHANGED plugged
    BY <1>7, <1>9 DEF ServeSync, Sync, GetRegistry
  <2>2. Done(f) \in Events /\ \A x : Done(f) # Global(x)
    BY EventsDiffer DEF Done, Events
  <2>3. wire' = Append(wire, Done(f))
    BY <1>9 DEF ServeSync
  <2> QED BY <1>6, <2>1, <2>2, <2>3
<1>10. ASSUME ServeRegistry PROVE TableInv'
  <2>1. PICK g \in SetToSeqs(plugged \cup {Manager}) :
           wire' = wire \o [n \in DOMAIN g |-> Global(g[n])]
    BY <1>10 DEF ServeRegistry
  <2> DEFINE c == Cardinality(plugged \cup {Manager})
             more == [n \in DOMAIN g |-> Global(g[n])]
  <2>2. IsFiniteSet(plugged \cup {Manager})
    BY SeatsFinite, FS_Subset, FS_AddElement DEF OutsideType
  <2>3. c \in Nat
    BY <2>2, FS_CardinalityType
  <2>4. g \in [1..c -> plugged \cup {Manager}]
    BY <2>1 DEF SetToSeqs
  <2> HIDE DEF c
  <2>5. \A n \in 1..c : Global(g[n]) \in Events
    BY <2>4 DEF Global, Events, OutsideType
  <2>6. more \in Seq(Events) /\ Len(more) = c /\ \A n \in 1..c : more[n] = Global(g[n])
    BY <2>3, <2>4, <2>5
  <2> HIDE DEF more
  <2>7. \A x \in Seats, n \in 1..Len(more) : more[n] = Global(x) => x \in plugged
    BY <2>4, <2>6, EventsDiffer, NamesDiffer
  <2>8. wire' = wire \o more /\ told' /\ UNCHANGED plugged
    BY <1>10, <2>1 DEF ServeRegistry, more
  <2>9. Known' /\ Announced'
    BY <1>1, <1>2, <2>6, <2>7, <2>8, Appended
  <2> QED BY <2>8, <2>9 DEF Untold
<1>11. ASSUME Close PROVE TableInv'
  BY <1>2, <1>3, <1>11 DEF Close, Untold, Running
<1>12. ASSUME NEW s \in Seats, ServeDevice(s) PROVE TableInv'
  <2>1. told /\ told' /\ UNCHANGED plugged
    BY <1>7, <1>12 DEF ServeDevice, GetDevice, GetRegistry
  <2>2. Selection(s) \in Events /\ \A x : Selection(s) # Global(x)
    BY EventsDiffer DEF Selection, Events
  <2>3. wire' = wire \/ wire' = Append(wire, Selection(s))
    BY <1>12 DEF ServeDevice
  <2>4. CASE wire' = wire
    BY <1>3, <2>1, <2>4 DEF Untold
  <2>5. CASE wire' = Append(wire, Selection(s))
    BY <1>6, <2>1, <2>2, <2>5
  <2> QED BY <2>3, <2>4, <2>5
<1> QED BY <1>4, <1>5, <1>8, <1>9, <1>10, <1>11, <1>12 DEF Compositor

\* What is known stays known when only fewer seats are, or will be, in the table.
LEMMA Fewer ==
    ASSUME Known, UNCHANGED <<plugged, missed>>,
           \A s \in Seats : s \in (table \cup Running)' => s \in table \cup Running,
           \A s \in Seats : Leaving(s) => Leaving(s)'
    PROVE  Known'
BY DEF Known

LEMMA RunningStays ==
    ASSUME ProgramType, stack # <<>>, Succeed \/ Fail \/ \E place \in Places : GoTo(place)
    PROVE  /\ Running' \subseteq Running
           /\ Top.for \in Running
<1>1. Len(stack) \in Nat \ {0} /\ DOMAIN stack = 1..Len(stack)
  BY EmptySeq, LenProperties DEF ProgramType
<1>2. Top.for \in Running
  BY <1>1 DEF Top, Running
<1>3. CASE Succeed \/ Fail
  <2>1. /\ stack' \in Seq(Frames) /\ Len(stack') = Len(stack) - 1
        /\ \A n \in 1..Len(stack') : stack'[n] = stack[n]
    BY <1>3, Ends DEF Succeed, Fail, ProgramType
  <2> QED BY <1>1, <1>2, <2>1 DEF Running
<1>4. CASE \E place \in Places : GoTo(place)
  <2>1. /\ stack' \in Seq(Frames) /\ Len(stack') = Len(stack)
        /\ \A n \in 1..Len(stack) : stack'[n].for = stack[n].for
    BY <1>4, MovesOn DEF ProgramType
  <2> QED BY <1>1, <1>2, <2>1 DEF Running
<1> QED BY <1>3, <1>4

\* wl_display_read_events puts what is on the wire behind what is in the queue.
LEMMA ReadKeepsOrder ==
    ASSUME OutsideType, Announced, ReadEvents
    PROVE  /\ Announced'
           /\ \A s \in Seats : Leaving(s) => Leaving(s)'
<1>1. /\ queue' = queue \o wire /\ wire' = <<>> /\ plugged' = plugged
      /\ queue \in Seq(Events) /\ wire \in Seq(Events)
  BY DEF ReadEvents, OutsideType
<1>2. /\ Len(queue) \in Nat /\ Len(wire) \in Nat /\ Len(queue') = Len(queue) + Len(wire)
      /\ \A n \in 1..Len(queue) : queue'[n] = queue[n]
      /\ \A n \in 1..Len(wire) : queue'[Len(queue) + n] = wire[n]
  BY <1>1, ConcatProperties, LenProperties
<1>3. ASSUME NEW k \in 1..Len(wire)
      PROVE  Len(queue) + k \in 1..Len(queue') /\ queue'[Len(queue) + k] = wire[k]
  BY <1>2
<1>4. ASSUME NEW s \in Seats, Leaving(s) PROVE Leaving(s)'
  <2>1. CASE \E n \in 1..Len(queue) : queue[n] = Removed(s)
    BY <1>2, <2>1 DEF Leaving
  <2>2. CASE \E n \in 1..Len(wire) : wire[n] = Removed(s)
    BY <1>3, <2>2 DEF Leaving
  <2> QED BY <1>4, <2>1, <2>2 DEF Leaving
<1>5. ASSUME NEW s \in Seats, NEW n \in 1..Len(queue'), queue'[n] = Global(s)
      PROVE  s \in plugged \/ \E k \in 1..Len(queue') : n < k /\ queue'[k] = Removed(s)
  <2>1. CASE n \in 1..Len(queue)
    <3>1. \/ s \in plugged
          \/ \E k \in 1..Len(queue) : n < k /\ queue[k] = Removed(s)
          \/ \E k \in 1..Len(wire) : wire[k] = Removed(s)
      BY <1>2, <1>5, <2>1 DEF Announced
    <3>2. CASE \E k \in 1..Len(queue) : n < k /\ queue[k] = Removed(s)
      BY <1>2, <3>2
    <3>3. CASE \E k \in 1..Len(wire) : wire[k] = Removed(s)
      BY <1>2, <1>3, <2>1, <3>3
    <3> QED BY <3>1, <3>2, <3>3
  <2>2. CASE n \notin 1..Len(queue)
    <3>1. n - Len(queue) \in 1..Len(wire) /\ Len(queue) + (n - Len(queue)) = n
      BY <1>2, <2>2
    <3>2. wire[n - Len(queue)] = Global(s)
      BY <1>2, <1>5, <3>1
    <3>3. s \in plugged \/ \E k \in 1..Len(wire) : n - Len(queue) < k /\ wire[k] = Removed(s)
      BY <3>1, <3>2 DEF Announced
    <3>4. ASSUME NEW k \in 1..Len(wire), n - Len(queue) < k PROVE n < Len(queue) + k
      BY <1>2, <3>4
    <3> QED BY <1>3, <3>3, <3>4
  <2> QED BY <2>1, <2>2
<1>6. Len(wire') = 0
  BY <1>1
<1> QED BY <1>1, <1>4, <1>5, <1>6 DEF Announced

LEMMA TableSteps ==
    ASSUME OutsideType, ProgramType, TableInv, Steps
    PROVE  TableInv'
<1> USE DEF TableInv
<1>1. /\ stack # <<>>
      /\ Asks /\ UNCHANGED <<plugged, gone, told, closed, missed>>
      /\ Succeed \/ Fail \/ \E place \in Places : GoTo(place)
      /\ table' \subseteq table \cup ({Top.for} \cap Seats)
      /\ UNCHANGED <<queue, wire>> \/ ReadEvents
  BY DEF Steps, Prepare, FlushFails, PollFails, Read, Dispatched, At, Places, Succeed, Fail,
         Asks, AskForDevice, ReadWaits, ReadFails, ReadEvents, compositor, library
<1>2. Running' \subseteq Running /\ Top.for \in Running
  BY <1>1, RunningStays
<1>3. \A s \in Seats : s \in (table \cup Running)' => s \in table \cup Running
  BY <1>1, <1>2
<1>4. Announced' /\ \A s \in Seats : Leaving(s) => Leaving(s)'
  <2>1. CASE UNCHANGED <<queue, wire>>
    BY <1>1, <2>1 DEF Announced, Leaving
  <2>2. CASE ReadEvents
    BY <2>2, ReadKeepsOrder
  <2> QED BY <1>1, <2>1, <2>2
<1>5. Known'
  BY <1>1, <1>3, <1>4, Fewer
<1>6. Untold'
  <2>1. CASE told
    BY <1>1, <2>1 DEF Untold
  <2>2. CASE ~told
    <3>1. table' = {}
      BY <1>1, <1>2, <2>2, NamesDiffer DEF Untold
    <3>2. wire' = <<>> /\ queue' = <<>>
      <4>1. <<>> \o <<>> = <<>>
        OBVIOUS
      <4> QED BY <1>1, <2>2, <4>1 DEF Untold, ReadEvents
    <3>3. UNCHANGED requests
      BY <1>1, <1>2, <2>2, NamesDiffer DEF Untold, Asks
    <3> QED BY <1>1, <1>2, <2>2, <3>1, <3>2, <3>3 DEF Untold
  <2> QED BY <2>1, <2>2
<1> QED BY <1>4, <1>5, <1>6

LEMMA TableHandlers ==
    ASSUME OutsideType, ProgramType, TableInv, Handlers
    PROVE  TableInv'
<1> USE DEF TableInv
<1>1. PICK e : Take(e)
  BY DEF Handlers, BindManager, NewSeat, RemoveSeat, GetName, GetDone, GetSelection
<1>2. /\ queue # <<>> /\ queue \in Seq(Events) /\ queue' = Tail(queue)
      /\ UNCHANGED <<plugged, told, wire>>
  BY <1>1 DEF Take, OutsideType
<1>3. told /\ told' /\ Untold'
  BY <1>2 DEF Untold
<1>4. /\ Len(queue) \in Nat \ {0} /\ Len(queue') = Len(queue) - 1
      /\ \A n \in 1..Len(queue') : queue'[n] = queue[n + 1]
  BY <1>2, HeadTailProperties, EmptySeq, LenProperties
<1>5. queue[1] = Head(queue)
  BY <1>2
<1>6. ASSUME NEW k \in 1..Len(queue), k > 1
      PROVE  k - 1 \in 1..Len(queue') /\ queue'[k - 1] = queue[k]
  <2>1. k - 1 \in 1..Len(queue') /\ (k - 1) + 1 = k
    BY <1>4, <1>6
  <2> QED BY <1>4, <2>1
<1>7. Announced'
  <2>1. ASSUME NEW s \in Seats, NEW n \in 1..Len(queue'), queue'[n] = Global(s)
        PROVE  \/ s \in plugged
               \/ \E k \in 1..Len(queue') : n < k /\ queue'[k] = Removed(s)
               \/ \E k \in 1..Len(wire) : wire[k] = Removed(s)
    <3>1. n + 1 \in 1..Len(queue) /\ queue[n + 1] = Global(s)
      BY <1>4, <2>1
    <3>2. ASSUME NEW k \in 1..Len(queue), n + 1 < k, queue[k] = Removed(s)
          PROVE  \E j \in 1..Len(queue') : n < j /\ queue'[j] = Removed(s)
      <4>1. k > 1 /\ n < k - 1
        BY <1>4, <3>2
      <4> QED BY <1>6, <3>2, <4>1
    <3> QED BY <3>1, <3>2 DEF Announced
  <2> QED BY <1>2, <2>1 DEF Announced
<1>8. ASSUME NEW s \in Seats, Leaving(s), Head(queue) # Removed(s) PROVE Leaving(s)'
  <2>1. CASE \E n \in 1..Len(wire) : wire[n] = Removed(s)
    BY <1>2, <2>1 DEF Leaving
  <2>2. ASSUME NEW n \in 1..Len(queue), queue[n] = Removed(s) PROVE Leaving(s)'
    <3>1. n > 1
      BY <1>4, <1>5, <1>8, <2>2
    <3> QED BY <1>6, <2>2, <3>1 DEF Leaving
  <2> QED BY <1>8, <2>1, <2>2 DEF Leaving
<1>9. ASSUME UNCHANGED <<table, missed>>, Running' = Running,
             \A s \in Seats : Head(queue) # Removed(s)
      PROVE  Known'
  BY <1>2, <1>8, <1>9 DEF Known
<1>10. DOMAIN stack = 1..Len(stack)
  BY LenProperties DEF ProgramType
<1>11. ASSUME BindManager \/ \E s \in Seats : GetSelection(s) PROVE Known'
  <2>1. \A s \in Seats : Head(queue) # Removed(s)
    BY <1>11, EventsDiffer DEF BindManager, GetSelection, Take
  <2> QED BY <1>9, <1>11, <2>1 DEF BindManager, GetSelection, Running
<1>12. ASSUME NEW s \in Seats, GetName(s) PROVE Known'
  <2>1. \A x \in Seats : Head(queue) # Removed(x)
    BY <1>12, EventsDiffer DEF GetName, Take
  <2>2. DOMAIN stack' = 1..Len(stack) /\ \A n \in 1..Len(stack) : stack'[n].for = stack[n].for
    BY <1>12, NamesOne, LenProperties DEF GetName, ProgramType
  <2>3. Running' = Running
    BY <1>10, <2>2 DEF Running
  <2> QED BY <1>9, <1>12, <2>1, <2>3 DEF GetName
<1>13. ASSUME NEW f \in Seats \cup {Start}, GetDone(f) PROVE Known'
  <2>1. \A x \in Seats : Head(queue) # Removed(x)
    BY <1>13, EventsDiffer DEF GetDone, Take
  <2>2. DOMAIN stack' = 1..Len(stack) /\ \A n \in 1..Len(stack) : stack'[n].for = stack[n].for
    BY <1>13, EndsWait, LenProperties DEF GetDone, ProgramType
  <2>3. Running' = Running
    BY <1>10, <2>2 DEF Running
  <2> QED BY <1>9, <1>13, <2>1, <2>3 DEF GetDone
<1>14. ASSUME NEW s \in Seats, NewSeat(s) PROVE Known'
  <2>1. Head(queue) = Global(s) /\ \A x \in Seats : Head(queue) # Removed(x)
    BY <1>14, EventsDiffer DEF NewSeat, Take
  <2>2. Running' = Running \cup {s}
    <3>1. /\ stack' \in Seq(Frames) /\ Len(stack') = Len(stack) + 1
          /\ stack'[Len(stack) + 1] = Roundtrip(s)
          /\ \A n \in 1..Len(stack) : stack'[n] = stack[n]
      BY <1>14, Begins DEF NewSeat, ProgramType
    <3>2. Len(stack) \in Nat /\ DOMAIN stack' = 1..(Len(stack) + 1)
      BY <3>1, LenProperties DEF ProgramType
    <3>3. Roundtrip(s).for = s
      BY DEF Roundtrip
    <3> QED BY <1>10, <3>1, <3>2, <3>3 DEF Running
  <2>3. s \in plugged \/ Leaving(s)'
    <3>1. 1 \in 1..Len(queue) /\ queue[1] = Global(s)
      BY <1>4, <1>5, <2>1
    <3>2. \/ s \in plugged
          \/ \E k \in 1..Len(queue) : 1 < k /\ queue[k] = Removed(s)
          \/ \E k \in 1..Len(wire) : wire[k] = Removed(s)
      BY <3>1 DEF Announced
    <3>3. ASSUME NEW k \in 1..Len(queue), 1 < k, queue[k] = Removed(s) PROVE Leaving(s)'
      BY <1>4, <1>6, <3>3 DEF Leaving
    <3> QED BY <1>2, <3>2, <3>3 DEF Leaving
  <2>4. UNCHANGED <<table, missed>>
    BY <1>14 DEF NewSeat
  <2> QED BY <1>2, <1>8, <2>1, <2>2, <2>3, <2>4 DEF Known
<1>15. ASSUME NEW s \in Seats, RemoveSeat(s) PROVE Known'
  <2>1. Head(queue) = Removed(s) /\ \A x : x # s => Head(queue) # Removed(x)
    BY <1>15, EventsDiffer DEF RemoveSeat, Take
  <2>2. /\ table' = table \ {s} /\ missed' = missed \cup ({s} \cap Running)
        /\ Running' = Running
    BY <1>15 DEF RemoveSeat, Running
  <2>3. ASSUME NEW x \in Seats, x \in table' \cup Running'
        PROVE  x \in plugged' \cup missed' \/ Leaving(x)'
    <3>1. CASE x = s
      BY <2>2, <2>3, <3>1
    <3>2. CASE x # s
      BY <1>2, <1>8, <2>1, <2>2, <2>3, <3>2 DEF Known
    <3> QED BY <3>1, <3>2
  <2> QED BY <2>3 DEF Known
<1> QED BY <1>3, <1>7, <1>11, <1>12, <1>13, <1>14, <1>15 DEF Handlers

LEMMA TableMainLoop ==
    ASSUME OutsideType, ProgramType, TableInv, MainLoop
    PROVE  TableInv'
<1> USE DEF TableInv
<1>1. UNCHANGED <<plugged, gone, told, missed>> /\ table' \subseteq table
  BY DEF MainLoop, Connect, InstallSource, SourcePrepare, SourceCheck, SourceDispatch, Finalize,
         Stopped, ReadEvents, ReadWaits, ReadFails, compositor
<1>2. Running' \subseteq Running \cup {Start}
  <2>1. CASE Connect
    <3>1. DOMAIN stack' = {1} /\ stack'[1].for = Start
      BY <2>1 DEF Connect, Roundtrip
    <3> QED BY <3>1 DEF Running
  <2>2. CASE ~Connect
    BY <2>2 DEF MainLoop, InstallSource, SourcePrepare, SourceCheck, SourceDispatch, Finalize, Running
  <2> QED BY <2>1, <2>2
<1>3. UNCHANGED <<queue, wire>> \/ ReadEvents
  BY DEF MainLoop, Connect, InstallSource, SourcePrepare, SourceCheck, SourceDispatch, Finalize,
         ReadWaits, ReadFails, compositor, library
<1>4. Announced' /\ \A s \in Seats : Leaving(s) => Leaving(s)'
  <2>1. CASE UNCHANGED <<queue, wire>>
    BY <1>1, <2>1 DEF Announced, Leaving
  <2>2. CASE ReadEvents
    BY <2>2, ReadKeepsOrder
  <2> QED BY <1>3, <2>1, <2>2
<1>5. Known'
  BY <1>1, <1>2, <1>4, NamesDiffer, Fewer
<1>6. Untold'
  <2>1. CASE told
    BY <1>1, <2>1 DEF Untold
  <2>2. CASE ~told
    <3>1. requests' = requests \/ requests' = <<GetRegistry, Sync(Start)>>
      BY DEF MainLoop, Connect, InstallSource, SourcePrepare, SourceCheck, SourceDispatch, Finalize,
             ReadEvents, ReadWaits, ReadFails, compositor
    <3>2. wire' = <<>> /\ queue' = <<>>
      <4>1. <<>> \o <<>> = <<>>
        OBVIOUS
      <4> QED BY <1>3, <2>2, <4>1 DEF Untold, ReadEvents
    <3> QED BY <1>1, <1>2, <2>2, <3>1, <3>2 DEF Untold
  <2> QED BY <2>1, <2>2
<1> QED BY <1>4, <1>5, <1>6

LEMMA TableHolds == Spec => [](TypeOK /\ TableInv)
<1>1. Init => TableInv
  BY DEF Init, TableInv, Known, Announced, Untold, Running
<1>2. TypeOK /\ TableInv /\ [Next]_vars => TableInv'
  <2> SUFFICES ASSUME TypeOK, TableInv, [Next]_vars PROVE TableInv'
    OBVIOUS
  <2>1. OutsideType /\ ProgramType
    BY TypeParts
  <2>2. CASE UNCHANGED vars
    BY <2>2 DEF vars, compositor, library, program, TableInv, Known, Announced, Untold, Leaving, Running
  <2> QED BY <2>1, <2>2, NextKinds, TableCompositor, TableSteps, TableHandlers, TableMainLoop
<1> QED BY <1>1, <1>2, TypeInit, TypeNext, PTL DEF Spec

\* Once the program has caught up, every seat of the table is one that the
\* compositor has, except those whose removal came while they were created:
\* for any number of seats, in whatever order they come, go and nest.
THEOREM TableAlwaysFollows == Spec => []TableFollows
<1>1. TypeOK /\ TableInv => TableFollows
  <2> SUFFICES ASSUME TypeOK, TableInv, Quiet, NEW s \in table
               PROVE  s \in plugged \cup missed
    BY DEF TableFollows
  <2>1. s \in Seats /\ ~Leaving(s)
    BY DEF TypeOK, Quiet, Leaving
  <2> QED BY <2>1 DEF TableInv, Known
<1> QED BY TableHolds, <1>1, PTL

-----------------------------------------------------------------------------
(* The order of answers                                                      *)

\* The compositor serves requests, and the program dispatches events, in the order
\* in which they were made.  What a sequence has, what it has once, and that one
\* of its members never comes before another one:
Has(q, e)      == \E n \in 1..Len(q) : q[n] = e
Once(q, e)     == \A m, n \in 1..Len(q) : q[m] = e /\ q[n] = e => m = n
Ahead(q, d, e) == \A n \in 1..Len(q) : q[n] = e => \E k \in 1..Len(q) : k < n /\ q[k] = d

LEMMA HasNone == \A e, d : ~Has(<<>>, e) /\ Once(<<>>, e) /\ Ahead(<<>>, d, e)
BY DEF Has, Once, Ahead

LEMMA HasOne == \A e, x : (Has(<<x>>, e) <=> x = e) /\ Once(<<x>>, e)
<1>1. \A x : Len(<<x>>) = 1 /\ <<x>>[1] = x
  OBVIOUS
<1> QED BY <1>1 DEF Has, Once

LEMMA NotThere == \A q, d, e : ~Has(q, e) => Once(q, e) /\ Ahead(q, d, e)
BY DEF Has, Once, Ahead

\* The indices of one sequence behind another.
LEMMA Both ==
    ASSUME NEW S, NEW p \in Seq(S), NEW q \in Seq(S)
    PROVE  /\ Len(p) \in Nat /\ Len(q) \in Nat /\ Len(p \o q) = Len(p) + Len(q)
           /\ \A n \in 1..Len(p) : n \in 1..Len(p \o q) /\ (p \o q)[n] = p[n]
           /\ \A n \in 1..Len(q) : Len(p) + n \in 1..Len(p \o q) /\ (p \o q)[Len(p) + n] = q[n]
           /\ \A n \in 1..Len(p \o q) :
                 n \in 1..Len(p) \/ \E k \in 1..Len(q) : n = Len(p) + k
<1>1. /\ Len(p) \in Nat /\ Len(q) \in Nat /\ Len(p \o q) = Len(p) + Len(q)
      /\ \A n \in 1..Len(p) : (p \o q)[n] = p[n]
      /\ \A n \in 1..Len(q) : (p \o q)[Len(p) + n] = q[n]
  BY ConcatProperties, LenProperties
<1>2. ASSUME NEW n \in 1..Len(p \o q), n \notin 1..Len(p)
      PROVE  \E k \in 1..Len(q) : n = Len(p) + k
  <2>1. n - Len(p) \in 1..Len(q) /\ n = Len(p) + (n - Len(p))
    BY <1>1, <1>2
  <2> QED BY <2>1
<1>3. \A n \in 1..Len(p) : n \in 1..Len(p \o q)
  BY <1>1
<1>4. \A n \in 1..Len(q) : Len(p) + n \in 1..Len(p \o q)
  BY <1>1
<1> QED BY <1>1, <1>2, <1>3, <1>4

LEMMA HasConcat ==
    ASSUME NEW S, NEW p \in Seq(S), NEW q \in Seq(S), NEW e
    PROVE  Has(p \o q, e) <=> Has(p, e) \/ Has(q, e)
<1>1. ASSUME NEW n \in 1..Len(p \o q), (p \o q)[n] = e PROVE Has(p, e) \/ Has(q, e)
  <2>1. CASE n \in 1..Len(p)
    BY <1>1, <2>1, Both DEF Has
  <2>2. ASSUME NEW k \in 1..Len(q), n = Len(p) + k PROVE Has(q, e)
    <3>1. (p \o q)[Len(p) + k] = q[k]
      BY Both
    <3> QED BY <1>1, <2>2, <3>1 DEF Has
  <2> QED BY <2>1, <2>2, Both
<1>2. ASSUME NEW n \in 1..Len(p), p[n] = e PROVE Has(p \o q, e)
  BY <1>2, Both DEF Has
<1>3. ASSUME NEW n \in 1..Len(q), q[n] = e PROVE Has(p \o q, e)
  <2>1. Len(p) + n \in 1..Len(p \o q) /\ (p \o q)[Len(p) + n] = q[n]
    BY Both
  <2> QED BY <1>3, <2>1 DEF Has
<1> QED BY <1>1, <1>2, <1>3 DEF Has

LEMMA OnceConcat ==
    ASSUME NEW S, NEW p \in Seq(S), NEW q \in Seq(S), NEW e,
           Once(p, e), Once(q, e), ~Has(p, e) \/ ~Has(q, e)
    PROVE  Once(p \o q, e)
<1> SUFFICES ASSUME NEW m \in 1..Len(p \o q), NEW n \in 1..Len(p \o q),
                    (p \o q)[m] = e, (p \o q)[n] = e
             PROVE  m = n
  BY DEF Once
<1>1. CASE m \in 1..Len(p) /\ n \in 1..Len(p)
  BY <1>1, Both DEF Once
<1>2. CASE m \notin 1..Len(p) /\ n \notin 1..Len(p)
  <2>1. PICK j \in 1..Len(q) : m = Len(p) + j
    BY <1>2, Both
  <2>2. PICK k \in 1..Len(q) : n = Len(p) + k
    BY <1>2, Both
  <2> QED BY <2>1, <2>2, Both DEF Once
<1>3. ASSUME NEW i \in 1..Len(p \o q), NEW j \in 1..Len(p \o q), (p \o q)[i] = e, (p \o q)[j] = e,
             i \in 1..Len(p), j \notin 1..Len(p)
      PROVE  FALSE
  <2>1. PICK k \in 1..Len(q) : j = Len(p) + k
    BY <1>3, Both
  <2>2. (p \o q)[i] = p[i]
    <3>1. \A h \in 1..Len(p) : (p \o q)[h] = p[h]
      BY Both
    <3> QED BY <1>3, <3>1
  <2>4. (p \o q)[Len(p) + k] = q[k]
    BY Both
  <2>3. Has(p, e) /\ Has(q, e)
    BY <1>3, <2>1, <2>2, <2>4 DEF Has
  <2> QED BY <2>3
<1> QED BY <1>1, <1>2, <1>3

LEMMA AheadConcat ==
    ASSUME NEW S, NEW p \in Seq(S), NEW q \in Seq(S), NEW d, NEW e,
           Ahead(p, d, e), Has(p, d) \/ Ahead(q, d, e)
    PROVE  Ahead(p \o q, d, e)
<1> SUFFICES ASSUME NEW n \in 1..Len(p \o q), (p \o q)[n] = e
             PROVE  \E k \in 1..Len(p \o q) : k < n /\ (p \o q)[k] = d
  BY DEF Ahead
<1>1. CASE n \in 1..Len(p)
  BY <1>1, Both DEF Ahead
<1>2. CASE n \notin 1..Len(p)
  <2>1. PICK j \in 1..Len(q) : n = Len(p) + j
    BY <1>2, Both
  <2>2. CASE Has(p, d)
    <3>1. PICK k \in 1..Len(p) : p[k] = d
      BY <2>2 DEF Has
    <3>2. k < n /\ k \in 1..Len(p \o q) /\ (p \o q)[k] = d
      BY <2>1, <3>1, Both
    <3> QED BY <3>2
  <2>3. CASE Ahead(q, d, e)
    <3>1. PICK k \in 1..Len(q) : k < j /\ q[k] = d
      BY <2>1, <2>3, Both DEF Ahead
    <3>2. Len(p) + k < n /\ Len(p) + k \in 1..Len(p \o q) /\ (p \o q)[Len(p) + k] = d
      BY <2>1, <3>1, Both
    <3> QED BY <3>2
  <2> QED BY <2>2, <2>3
<1> QED BY <1>1, <1>2

\* The first member goes.
LEMMA FirstAndRest ==
    ASSUME NEW S, NEW q \in Seq(S), q # <<>>
    PROVE  /\ <<Head(q)>> \in Seq(S) /\ Tail(q) \in Seq(S)
           /\ q = <<Head(q)>> \o Tail(q)
           /\ 1 \in 1..Len(q) /\ q[1] = Head(q)
<1>1. /\ Len(q) \in Nat \ {0} /\ Len(Tail(q)) = Len(q) - 1
      /\ Head(q) \in S /\ Tail(q) \in Seq(S)
      /\ \A n \in 1..Len(Tail(q)) : Tail(q)[n] = q[n + 1]
      /\ q[1] = Head(q)
  BY HeadTailProperties, EmptySeq, LenProperties
<1> DEFINE h == <<Head(q)>>
<1>2. h \in Seq(S) /\ Len(h) = 1 /\ h[1] = Head(q)
  BY <1>1
<1> HIDE DEF h
<1>3. /\ h \o Tail(q) \in Seq(S)
      /\ Len(h \o Tail(q)) = 1 + Len(Tail(q))
      /\ (h \o Tail(q))[1] = Head(q)
      /\ \A n \in 1..Len(Tail(q)) : (h \o Tail(q))[1 + n] = Tail(q)[n]
  <2>1. h \o Tail(q) \in Seq(S)
    BY <1>1, <1>2, ConcatProperties
  <2>2. 1 \in 1..Len(h)
    BY <1>2
  <2>3. /\ Len(h \o Tail(q)) = Len(h) + Len(Tail(q))
        /\ \A n \in 1..Len(h) : (h \o Tail(q))[n] = h[n]
        /\ \A n \in 1..Len(Tail(q)) : (h \o Tail(q))[Len(h) + n] = Tail(q)[n]
    <3> DEFINE t == Tail(q)
    <3>1. t \in Seq(S)
      BY <1>1
    <3> HIDE DEF t
    <3>2. /\ Len(h \o t) = Len(h) + Len(t)
          /\ \A n \in 1..Len(h) : (h \o t)[n] = h[n]
          /\ \A n \in 1..Len(t) : (h \o t)[Len(h) + n] = t[n]
      <4>1. h \in Seq(S)
        BY <1>2
      <4> QED BY <3>1, <4>1, Both
    <3> QED BY <3>2 DEF t
  <2>5. /\ Len(h \o Tail(q)) = 1 + Len(Tail(q))
        /\ \A n \in 1..Len(Tail(q)) : (h \o Tail(q))[1 + n] = Tail(q)[n]
    BY <1>2, <2>3
  <2> QED BY <1>2, <2>1, <2>2, <2>3, <2>5
<1>4. Len(h \o Tail(q)) = Len(q)
  BY <1>1, <1>3
<1>5. ASSUME NEW n \in 1..Len(q) PROVE (h \o Tail(q))[n] = q[n]
  <2>1. CASE n = 1
    BY <1>1, <1>3, <2>1
  <2>2. CASE n # 1
    <3>1. n - 1 \in 1..Len(Tail(q)) /\ 1 + (n - 1) = n /\ (n - 1) + 1 = n
      BY <1>1, <2>2
    <3> QED BY <1>1, <1>3, <3>1
  <2> QED BY <2>1, <2>2
<1>6. q = h \o Tail(q)
  BY <1>3, <1>4, <1>5, SeqEqual
<1> QED BY <1>1, <1>2, <1>6 DEF h

LEMMA HasTail ==
    ASSUME NEW S, NEW q \in Seq(S), q # <<>>, NEW e
    PROVE  Has(q, e) <=> Head(q) = e \/ Has(Tail(q), e)
<1>1. <<Head(q)>> \in Seq(S) /\ Tail(q) \in Seq(S) /\ q = <<Head(q)>> \o Tail(q)
  BY FirstAndRest
<1> DEFINE h == <<Head(q)>>
           t == Tail(q)
<1>2. Has(h, e) <=> Head(q) = e
  BY HasOne
<1> HIDE DEF h, t
<1>3. Has(h \o t, e) <=> Has(h, e) \/ Has(t, e)
  BY <1>1, HasConcat DEF h, t
<1>4. q = h \o t
  BY <1>1 DEF h, t
<1> QED BY <1>2, <1>3, <1>4 DEF t

LEMMA OnceTail ==
    ASSUME NEW S, NEW q \in Seq(S), q # <<>>, NEW e, Once(q, e)
    PROVE  Once(Tail(q), e) /\ (Head(q) = e => ~Has(Tail(q), e))
<1>1. /\ q = <<Head(q)>> \o Tail(q) /\ Tail(q) \in Seq(S) /\ <<Head(q)>> \in Seq(S)
      /\ Len(<<Head(q)>>) = 1 /\ 1 \in 1..Len(q) /\ q[1] = Head(q)
  BY FirstAndRest
<1>2. \A n \in 1..Len(Tail(q)) : 1 + n \in 1..Len(q) /\ q[1 + n] = Tail(q)[n]
  BY <1>1, Both
<1>3. Once(Tail(q), e)
  BY <1>2 DEF Once
<1>4. ASSUME Head(q) = e, NEW n \in 1..Len(Tail(q)), Tail(q)[n] = e PROVE FALSE
  <2>1. 1 + n = 1
    BY <1>1, <1>2, <1>4 DEF Once
  <2> QED BY <2>1
<1> QED BY <1>3, <1>4 DEF Has

LEMMA AheadTail ==
    ASSUME NEW S, NEW q \in Seq(S), q # <<>>, NEW d, NEW e, Ahead(q, d, e)
    PROVE  Head(q) # e /\ (Head(q) # d => Ahead(Tail(q), d, e))
<1>1. /\ q = <<Head(q)>> \o Tail(q) /\ Tail(q) \in Seq(S) /\ <<Head(q)>> \in Seq(S)
      /\ Len(<<Head(q)>>) = 1 /\ 1 \in 1..Len(q) /\ q[1] = Head(q)
  BY FirstAndRest
<1>2. /\ \A n \in 1..Len(Tail(q)) : 1 + n \in 1..Len(q) /\ q[1 + n] = Tail(q)[n]
      /\ \A n \in 1..Len(q) : n \in 1..1 \/ \E k \in 1..Len(Tail(q)) : n = 1 + k
  BY <1>1, Both
<1>3. Head(q) # e
  BY <1>1 DEF Ahead
<1>4. ASSUME Head(q) # d, NEW n \in 1..Len(Tail(q)), Tail(q)[n] = e
      PROVE  \E k \in 1..Len(Tail(q)) : k < n /\ Tail(q)[k] = d
  <2>1. PICK j \in 1..Len(q) : j < 1 + n /\ q[j] = d
    BY <1>2, <1>4 DEF Ahead
  <2>2. j # 1
    BY <1>1, <1>4, <2>1
  <2>3. PICK k \in 1..Len(Tail(q)) : j = 1 + k
    BY <1>2, <2>2
  <2> QED BY <1>2, <2>1, <2>3
<1> QED BY <1>3, <1>4 DEF Ahead

\* The way of an answer: its request, then the event on the wire, then in the queue.
Coming(q, w, r, f) == Has(q, Done(f)) \/ Has(w, Done(f)) \/ Has(r, Sync(f))

\* The answer of f is coming, and one of g comes behind it.
Behind(q, w, r, g, f) ==
    /\ Coming(q, w, r, f)
    /\ Ahead(q, Done(f), Done(g))
    /\ Has(q, Done(f)) \/ Ahead(w, Done(f), Done(g))
    /\ Has(q, Done(f)) \/ Has(w, Done(f)) \/ Ahead(r, Sync(f), Sync(g))

LEMMA AnswersDiffer ==
    /\ \A f, g : (Done(f) = Done(g) => f = g) /\ (Sync(f) = Sync(g) => f = g)
    /\ \A f, s : Sync(f) # Bind(s) /\ Sync(f) # GetRegistry /\ Sync(f) # GetDevice(s)
BY DEF Done, Sync, Bind, GetDevice, GetRegistry

\* Other requests are served and other events sent.
LEMMA AnswersServed ==
    ASSUME NEW S, NEW T, NEW q \in Seq(S), NEW w \in Seq(S), NEW r \in Seq(T), NEW more \in Seq(S),
           \A f : ~Has(more, Done(f)),
           NEW rest, rest = r \/ (r # <<>> /\ rest = Tail(r) /\ \A f : Head(r) # Sync(f)),
           NEW f
    PROVE  /\ Coming(q, w \o more, rest, f) <=> Coming(q, w, r, f)
           /\ \A g : Behind(q, w, r, g, f) => Behind(q, w \o more, rest, g, f)
<1>1. \A h : Has(w \o more, Done(h)) <=> Has(w, Done(h))
  BY HasConcat
<1>2. \A h : Has(rest, Sync(h)) <=> Has(r, Sync(h))
  BY HasTail
<1>3. Coming(q, w \o more, rest, f) <=> Coming(q, w, r, f)
  BY <1>1, <1>2 DEF Coming
<1>4. \A g : Ahead(w, Done(f), Done(g)) => Ahead(w \o more, Done(f), Done(g))
  BY AheadConcat, NotThere
<1>5. \A g : Ahead(r, Sync(f), Sync(g)) => Ahead(rest, Sync(f), Sync(g))
  <2>1. CASE rest = r
    BY <2>1
  <2>2. CASE r # <<>> /\ rest = Tail(r) /\ \A h : Head(r) # Sync(h)
    BY <2>2, AheadTail
  <2> QED BY <2>1, <2>2
<1> QED BY <1>1, <1>2, <1>3, <1>4, <1>5 DEF Behind

\* The request of h is served.
LEMMA AnswersSent ==
    ASSUME NEW S, NEW T, NEW q \in Seq(S), NEW w \in Seq(S), NEW r \in Seq(T),
           NEW h, Done(h) \in S, r # <<>>, Head(r) = Sync(h), NEW f
    PROVE  /\ Coming(q, w \o <<Done(h)>>, Tail(r), f) <=> Coming(q, w, r, f)
           /\ \A g : Behind(q, w, r, g, f) => Behind(q, w \o <<Done(h)>>, Tail(r), g, f)
<1> DEFINE more == <<Done(h)>>
<1>1. more \in Seq(S) /\ \A e : Has(more, e) <=> Done(h) = e
  BY HasOne
<1> HIDE DEF more
<1>2. \A e : Has(w \o more, e) <=> Has(w, e) \/ Done(h) = e
  BY <1>1, HasConcat
<1>3. \A e : Has(r, e) <=> Sync(h) = e \/ Has(Tail(r), e)
  BY HasTail
<1>4. \A x : (Done(h) = Done(x) <=> h = x) /\ (Sync(h) = Sync(x) <=> h = x)
  BY AnswersDiffer
<1>5. Coming(q, w \o more, Tail(r), f) <=> Coming(q, w, r, f)
  BY <1>2, <1>3, <1>4 DEF Coming
<1>6. ASSUME NEW g, Behind(q, w, r, g, f) PROVE Behind(q, w \o more, Tail(r), g, f)
  <2>1. CASE Has(q, Done(f))
    BY <1>5, <1>6, <2>1 DEF Behind
  <2>2. CASE ~Has(q, Done(f)) /\ Has(w, Done(f))
    <3>1. Ahead(w \o more, Done(f), Done(g))
      BY <1>1, <1>6, <2>2, AheadConcat DEF Behind
    <3> QED BY <1>2, <1>5, <1>6, <2>2, <3>1 DEF Behind
  <2>3. CASE ~Has(q, Done(f)) /\ ~Has(w, Done(f))
    <3>1. Ahead(w, Done(f), Done(g)) /\ Ahead(r, Sync(f), Sync(g))
      BY <1>6, <2>3 DEF Behind
    <3>2. h # g /\ (h # f => Ahead(Tail(r), Sync(f), Sync(g)))
      BY <1>4, <3>1, AheadTail
    <3>3. Ahead(more, Done(f), Done(g))
      BY <1>1, <1>4, <3>2, NotThere
    <3>4. Ahead(w \o more, Done(f), Done(g))
      BY <1>1, <3>1, <3>3, AheadConcat
    <3> QED BY <1>2, <1>5, <1>6, <3>2, <3>4 DEF Behind
  <2> QED BY <2>1, <2>2, <2>3
<1> QED BY <1>5, <1>6 DEF more

\* wl_display_read_events.
LEMMA AnswersRead ==
    ASSUME NEW S, NEW q \in Seq(S), NEW w \in Seq(S), NEW r, NEW f
    PROVE  /\ Coming(q \o w, <<>>, r, f) <=> Coming(q, w, r, f)
           /\ \A g : Behind(q, w, r, g, f) => Behind(q \o w, <<>>, r, g, f)
<1>1. \A e : Has(q \o w, e) <=> Has(q, e) \/ Has(w, e)
  BY HasConcat
<1>2. Coming(q \o w, <<>>, r, f) <=> Coming(q, w, r, f)
  BY <1>1, HasNone DEF Coming
<1>3. ASSUME NEW g, Behind(q, w, r, g, f) PROVE Behind(q \o w, <<>>, r, g, f)
  <2>1. Ahead(q \o w, Done(f), Done(g))
    BY <1>3, AheadConcat DEF Behind
  <2> QED BY <1>1, <1>2, <1>3, <2>1, HasNone DEF Behind
<1> QED BY <1>2, <1>3

\* An event is dispatched.
LEMMA AnswersTaken ==
    ASSUME NEW S, NEW q \in Seq(S), NEW w, NEW r, q # <<>>, NEW f
    PROVE  /\ Coming(Tail(q), w, r, f) => Coming(q, w, r, f)
           /\ Head(q) # Done(f) /\ Coming(q, w, r, f) => Coming(Tail(q), w, r, f)
           /\ \A g : Behind(q, w, r, g, f) => Head(q) # Done(g)
           /\ \A g : Head(q) # Done(f) /\ Behind(q, w, r, g, f) => Behind(Tail(q), w, r, g, f)
<1>1. \A e : Has(q, e) <=> Head(q) = e \/ Has(Tail(q), e)
  BY HasTail
<1>2. \A d, e : Ahead(q, d, e) => Head(q) # e /\ (Head(q) # d => Ahead(Tail(q), d, e))
  BY AheadTail
<1> QED BY <1>1, <1>2 DEF Coming, Behind

\* A seat is asked for its name, and for the answer.
LEMMA AnswersAsked ==
    ASSUME NEW T, NEW q, NEW w, NEW r \in Seq(T), NEW s, Bind(s) \in T, Sync(s) \in T, NEW f
    PROVE  /\ Coming(q, w, r \o <<Bind(s), Sync(s)>>, f) <=> f = s \/ Coming(q, w, r, f)
           /\ \A g : g # s /\ Behind(q, w, r, g, f) => Behind(q, w, r \o <<Bind(s), Sync(s)>>, g, f)
           /\ Coming(q, w, r, f) /\ ~Coming(q, w, r, s)
                 => Behind(q, w, r \o <<Bind(s), Sync(s)>>, s, f)
<1> DEFINE more == <<Bind(s), Sync(s)>>
<1>1. more \in Seq(T) /\ \A h : Has(more, Sync(h)) <=> h = s
  <2>1. Len(more) = 2 /\ more[1] = Bind(s) /\ more[2] = Sync(s) /\ more \in Seq(T)
    OBVIOUS
  <2> HIDE DEF more
  <2> QED BY <2>1, AnswersDiffer DEF Has
<1> HIDE DEF more
<1>2. \A h : Has(r \o more, Sync(h)) <=> Has(r, Sync(h)) \/ h = s
  BY <1>1, HasConcat
<1>3. Coming(q, w, r \o more, f) <=> f = s \/ Coming(q, w, r, f)
  BY <1>2 DEF Coming
<1>4. ASSUME NEW g, g # s, Behind(q, w, r, g, f) PROVE Behind(q, w, r \o more, g, f)
  <2>1. Ahead(more, Sync(f), Sync(g))
    BY <1>1, <1>4, NotThere
  <2>2. Ahead(r, Sync(f), Sync(g)) => Ahead(r \o more, Sync(f), Sync(g))
    BY <1>1, <2>1, AheadConcat
  <2> QED BY <1>3, <1>4, <2>2 DEF Behind
<1>5. ASSUME Coming(q, w, r, f), ~Coming(q, w, r, s) PROVE Behind(q, w, r \o more, s, f)
  <2>1. Ahead(q, Done(f), Done(s)) /\ Ahead(w, Done(f), Done(s)) /\ Ahead(r, Sync(f), Sync(s))
    BY <1>5, NotThere DEF Coming
  <2>2. Has(r, Sync(f)) => Ahead(r \o more, Sync(f), Sync(s))
    BY <1>1, <2>1, AheadConcat
  <2> QED BY <1>3, <1>5, <2>1, <2>2 DEF Behind, Coming
<1> QED BY <1>3, <1>4, <1>5 DEF more

\* A request of another kind is made.
LEMMA AnswersStay ==
    ASSUME NEW T, NEW q, NEW w, NEW r \in Seq(T), NEW a \in T, \A f : a # Sync(f), NEW f
    PROVE  /\ Coming(q, w, Append(r, a), f) <=> Coming(q, w, r, f)
           /\ \A g : Behind(q, w, r, g, f) => Behind(q, w, Append(r, a), g, f)
<1> DEFINE more == <<a>>
<1>1. more \in Seq(T) /\ \A e : Has(more, e) <=> a = e
  BY HasOne
<1>2. Append(r, a) = r \o more
  BY AppendIsConcat
<1> HIDE DEF more
<1>3. \A h : Has(r \o more, Sync(h)) <=> Has(r, Sync(h))
  BY <1>1, HasConcat
<1>4. Coming(q, w, r \o more, f) <=> Coming(q, w, r, f)
  BY <1>3 DEF Coming
<1>5. ASSUME NEW g, Behind(q, w, r, g, f) PROVE Behind(q, w, r \o more, g, f)
  <2>1. Ahead(more, Sync(f), Sync(g))
    BY <1>1, NotThere
  <2>2. Ahead(r, Sync(f), Sync(g)) => Ahead(r \o more, Sync(f), Sync(g))
    BY <1>1, <2>1, AheadConcat
  <2> QED BY <1>4, <1>5, <2>2 DEF Behind
<1> QED BY <1>2, <1>4, <1>5

\* The answers come in the order in which the roundtrips nest, so that the flags
\* are set in that order: an answer that has not been dispatched is coming, and
\* those of the roundtrips inside of its own come behind it.
Ordered ==
    /\ \A i \in 1..Len(stack) : stack[i].done \/ Coming(queue, wire, requests, stack[i].for)
    /\ \A i, j \in 1..Len(stack) : i < j =>
          /\ stack[i].for # stack[j].for
          /\ \/ stack[i].done
             \/ ~stack[j].done /\ Behind(queue, wire, requests, stack[j].for, stack[i].for)

\* A seat is announced once, and asked for its name after that: no roundtrip takes
\* the answer of an earlier one for its own.
Told(s)   == Has(queue, Global(s)) \/ Has(wire, Global(s))
Unseen(s) == s \notin Running /\ ~Coming(queue, wire, requests, s)
Fresh == \A s \in Seats :
    /\ s \notin plugged \cup gone => ~Told(s)
    /\ s \notin plugged \cup gone \/ Told(s) => Unseen(s)
    /\ Once(queue, Global(s)) /\ Once(wire, Global(s))
    /\ ~Has(queue, Global(s)) \/ ~Has(wire, Global(s))

\* The registry is asked for once.
AskedOnce == /\ phase = "new" => ~told /\ requests = <<>>
             /\ told => ~Has(requests, GetRegistry)

OrderInv == Ordered /\ Fresh /\ AskedOnce

LEMMA OrderKept ==
    ASSUME Ordered, Len(stack) \in Nat, Len(stack') \in Nat, Len(stack') <= Len(stack),
           \A n \in 1..Len(stack') : stack'[n].for = stack[n].for /\ stack'[n].done = stack[n].done,
           \A f : Coming(queue, wire, requests, f) => Coming(queue', wire', requests', f),
           \A f, g : Behind(queue, wire, requests, g, f) => Behind(queue', wire', requests', g, f)
    PROVE  Ordered'
<1>1. \A n \in 1..Len(stack') : n \in 1..Len(stack)
  OBVIOUS
<1>2. ASSUME NEW i \in 1..Len(stack')
      PROVE  stack'[i].done \/ Coming(queue', wire', requests', stack'[i].for)
  BY <1>1 DEF Ordered
<1>3. ASSUME NEW i \in 1..Len(stack'), NEW j \in 1..Len(stack'), i < j
      PROVE  /\ stack'[i].for # stack'[j].for
             /\ \/ stack'[i].done
                \/ ~stack'[j].done /\ Behind(queue', wire', requests', stack'[j].for, stack'[i].for)
  <2>1. /\ stack[i].for # stack[j].for
        /\ \/ stack[i].done
           \/ ~stack[j].done /\ Behind(queue, wire, requests, stack[j].for, stack[i].for)
    BY <1>1, <1>3 DEF Ordered
  <2>2. /\ stack'[i].for = stack[i].for /\ stack'[i].done = stack[i].done
        /\ stack'[j].for = stack[j].for /\ stack'[j].done = stack[j].done
    OBVIOUS
  <2> QED BY <2>1, <2>2
<1> QED BY <1>2, <1>3 DEF Ordered

LEMMA OrderServed ==
    ASSUME OutsideType, ProgramType, OrderInv, NEW more \in Seq(Events), wire' = wire \o more,
           UNCHANGED <<queue, stack>>, plugged \cup gone \subseteq (plugged \cup gone)',
           \/ requests' = requests
           \/ requests # <<>> /\ requests' = Tail(requests) /\ \A f : Head(requests) # Sync(f),
           \A f : ~Has(more, Done(f)),
           \A s \in Seats : Once(more, Global(s)),
           \A s \in Seats : Has(more, Global(s)) =>
                               ~Told(s) /\ Unseen(s) /\ s \in (plugged \cup gone)'
    PROVE  Ordered' /\ Fresh'
<1>1. /\ queue \in Seq(Events) /\ wire \in Seq(Events) /\ requests \in Seq(Requests)
      /\ Len(stack) \in Nat
  BY LenProperties DEF OutsideType, ProgramType
<1>2. /\ \A f : Coming(queue', wire', requests', f) <=> Coming(queue, wire, requests, f)
      /\ \A f, g : Behind(queue, wire, requests, g, f) => Behind(queue', wire', requests', g, f)
  <2> DEFINE rest == requests'
  <2>1. rest = requests \/ (requests # <<>> /\ rest = Tail(requests) /\ \A f : Head(requests) # Sync(f))
    OBVIOUS
  <2> HIDE DEF rest
  <2>2. ASSUME NEW f
        PROVE  /\ Coming(queue, wire \o more, rest, f) <=> Coming(queue, wire, requests, f)
               /\ \A g : Behind(queue, wire, requests, g, f) => Behind(queue, wire \o more, rest, g, f)
    BY <1>1, <2>1, AnswersServed
  <2> QED BY <2>2 DEF rest
<1>3. Ordered'
  BY <1>1, <1>2, OrderKept DEF OrderInv
<1>4. ASSUME NEW s \in Seats
      PROVE  /\ s \notin (plugged \cup gone)' => ~Told(s)'
             /\ s \notin (plugged \cup gone)' \/ Told(s)' => Unseen(s)'
             /\ Once(queue', Global(s)) /\ Once(wire', Global(s))
             /\ ~Has(queue', Global(s)) \/ ~Has(wire', Global(s))
  <2>1. /\ s \notin plugged \cup gone => ~Told(s)
        /\ s \notin plugged \cup gone \/ Told(s) => Unseen(s)
        /\ Once(queue, Global(s)) /\ Once(wire, Global(s))
        /\ ~Has(queue, Global(s)) \/ ~Has(wire, Global(s))
    BY DEF OrderInv, Fresh
  <2>2. Has(wire', Global(s)) <=> Has(wire, Global(s)) \/ Has(more, Global(s))
    BY <1>1, HasConcat
  <2>3. Unseen(s) => Unseen(s)'
    BY <1>2 DEF Unseen, Running
  <2>4. Once(wire', Global(s))
    BY <1>1, <2>1, OnceConcat DEF Told
  <2> QED BY <2>1, <2>2, <2>3, <2>4 DEF Told
<1> QED BY <1>3, <1>4 DEF Fresh

LEMMA OrderCompositor ==
    ASSUME OutsideType, ProgramType, TableInv, OrderInv, Compositor
    PROVE  OrderInv'
<1>1. /\ queue \in Seq(Events) /\ wire \in Seq(Events) /\ requests \in Seq(Requests)
      /\ Len(stack) \in Nat
  BY LenProperties DEF OutsideType, ProgramType
<1>2. ASSUME Served, Head(requests) # GetRegistry PROVE told
  <2>1. requests # <<>> /\ (requests = <<GetRegistry, Sync(Start)>> => Head(requests) = GetRegistry)
    BY <1>2 DEF Served
  <2> QED BY <1>2, <2>1 DEF TableInv, Untold
<1>3. ASSUME UNCHANGED <<told, requests, phase>> PROVE AskedOnce'
  BY <1>3 DEF OrderInv, AskedOnce
<1>4. ASSUME Served, Head(requests) # GetRegistry, UNCHANGED <<told, phase>> PROVE AskedOnce'
  <2>1. told /\ requests # <<>> /\ requests' = Tail(requests)
    BY <1>2, <1>4 DEF Served
  <2>2. ~Has(requests', GetRegistry)
    BY <1>1, <2>1, HasTail DEF OrderInv, AskedOnce
  <2> QED BY <1>4, <2>1, <2>2 DEF OrderInv, AskedOnce
<1>5. ASSUME UNCHANGED <<queue, wire, stack, requests>>, plugged \cup gone \subseteq (plugged \cup gone)'
      PROVE  Ordered' /\ Fresh'
  BY <1>5 DEF OrderInv, Ordered, Fresh, Told, Unseen, Running
<1>6. ASSUME NEW e \in Events, wire' = wire \o <<e>>, UNCHANGED <<queue, stack>>,
             plugged \cup gone \subseteq (plugged \cup gone)',
             \/ requests' = requests
             \/ requests # <<>> /\ requests' = Tail(requests) /\ \A f : Head(requests) # Sync(f),
             \A f : e # Done(f),
             \A s \in Seats : e = Global(s) => ~Told(s) /\ Unseen(s) /\ s \in (plugged \cup gone)'
      PROVE  Ordered' /\ Fresh'
  <2> DEFINE more == <<e>>
  <2>1. more \in Seq(Events) /\ \A x : (Has(more, x) <=> e = x) /\ Once(more, x)
    BY HasOne
  <2>2. wire' = wire \o more
    BY <1>6
  <2> HIDE DEF more
  <2>3. \A f : ~Has(more, Done(f))
    BY <1>6, <2>1
  <2>4. \A s \in Seats : Has(more, Global(s)) => ~Told(s) /\ Unseen(s) /\ s \in (plugged \cup gone)'
    BY <1>6, <2>1
  <2> QED BY <1>6, <2>1, <2>2, <2>3, <2>4, OrderServed
<1>7. \A e \in Events : Append(wire, e) = wire \o <<e>>
  BY <1>1, AppendIsConcat
<1>8. ASSUME NEW s \in Seats, Plug(s) PROVE OrderInv'
  <2>1. AskedOnce'
    BY <1>3, <1>8 DEF Plug, library, program
  <2>2. CASE ~told
    BY <1>5, <1>8, <2>1, <2>2 DEF Plug, Announce, library, program, OrderInv
  <2>3. CASE told
    <3>1. wire' = wire \o <<Global(s)>> /\ Global(s) \in Events
      BY <1>7, <1>8, <2>3 DEF Plug, Announce, Global, Events
    <3>2. ~Told(s) /\ Unseen(s) /\ s \in plugged'
      BY <1>8 DEF Plug, OrderInv, Fresh
    <3>3. Ordered' /\ Fresh'
      BY <1>6, <1>8, <3>1, <3>2, EventsDiffer DEF Plug, library, program
    <3> QED BY <2>1, <3>3 DEF OrderInv
  <2> QED BY <2>2, <2>3
<1>9. ASSUME NEW s \in Seats, Unplug(s) PROVE OrderInv'
  <2>1. AskedOnce' /\ plugged \cup gone \subseteq (plugged \cup gone)'
    BY <1>3, <1>9 DEF Unplug, library, program
  <2>2. CASE ~told
    BY <1>5, <1>9, <2>1, <2>2 DEF Unplug, Announce, library, program, OrderInv
  <2>3. CASE told
    <3>1. wire' = wire \o <<Removed(s)>> /\ Removed(s) \in Events
      BY <1>7, <1>9, <2>3 DEF Unplug, Announce, Removed, Events
    <3>2. Ordered' /\ Fresh'
      BY <1>6, <1>9, <2>1, <3>1, EventsDiffer DEF Unplug, library, program
    <3> QED BY <2>1, <3>2 DEF OrderInv
  <2> QED BY <2>2, <2>3
<1>10. ASSUME NEW s \in Seats, ServeBind(s) PROVE OrderInv'
  <2>1. /\ requests # <<>> /\ requests' = Tail(requests) /\ Head(requests) = Bind(s)
        /\ UNCHANGED <<queue, stack, plugged, gone, told, phase>>
    BY <1>10 DEF ServeBind, Served, library, program
  <2>2. Head(requests) # GetRegistry /\ \A f : Head(requests) # Sync(f)
    BY <2>1 DEF Bind, GetRegistry, Sync
  <2>3. AskedOnce'
    BY <1>4, <1>10, <2>1, <2>2 DEF ServeBind
  <2>4. CASE wire' = wire
    <3>1. <<>> \in Seq(Events) /\ wire' = wire \o <<>>
      BY <1>1, <2>4
    <3>2. \A e : ~Has(<<>>, e) /\ Once(<<>>, e)
      BY HasNone
    <3> QED BY <2>1, <2>2, <2>3, <3>1, <3>2, OrderServed DEF OrderInv
  <2>5. CASE wire' = Append(wire, Name(s))
    <3>1. Name(s) \in Events /\ wire' = wire \o <<Name(s)>>
      BY <1>7, <2>5 DEF Name, Events
    <3>2. \A x : Name(s) # Done(x) /\ Name(s) # Global(x)
      BY DEF Name, Done, Global
    <3>3. Ordered' /\ Fresh'
      BY <1>6, <2>1, <2>2, <3>1, <3>2
    <3> QED BY <2>3, <3>3 DEF OrderInv
  <2> QED BY <1>10, <2>4, <2>5 DEF ServeBind
<1>11. ASSUME NEW h \in Seats \cup {Start}, ServeSync(h) PROVE OrderInv'
  <2>1. /\ requests # <<>> /\ requests' = Tail(requests) /\ Head(requests) = Sync(h)
        /\ UNCHANGED <<queue, stack, plugged, gone, told, phase>>
        /\ wire' = Append(wire, Done(h))
    BY <1>11 DEF ServeSync, Served, library, program
  <2>2. Done(h) \in Events /\ wire' = wire \o <<Done(h)>>
    BY <1>7, <2>1 DEF Done, Events
  <2>3. AskedOnce'
    BY <1>4, <1>11, <2>1, AnswersDiffer DEF ServeSync
  <2>4. /\ \A f : Coming(queue', wire', requests', f) <=> Coming(queue, wire, requests, f)
        /\ \A f, g : Behind(queue, wire, requests, g, f) => Behind(queue', wire', requests', g, f)
    <3>1. ASSUME NEW f
          PROVE  /\ Coming(queue, wire \o <<Done(h)>>, Tail(requests), f) <=> Coming(queue, wire, requests, f)
                 /\ \A g : Behind(queue, wire, requests, g, f)
                             => Behind(queue, wire \o <<Done(h)>>, Tail(requests), g, f)
      BY <1>1, <2>1, <2>2, AnswersSent
    <3> QED BY <2>1, <2>2, <3>1
  <2>5. Ordered'
    BY <1>1, <2>1, <2>4, OrderKept DEF OrderInv
  <2>6. \A s \in Seats : /\ Has(wire', Global(s)) <=> Has(wire, Global(s))
                         /\ Once(wire, Global(s)) => Once(wire', Global(s))
    <3> DEFINE more == <<Done(h)>>
    <3>1. more \in Seq(Events) /\ \A s : ~Has(more, Global(s)) /\ Once(more, Global(s))
      BY <2>2, HasOne, EventsDiffer
    <3> HIDE DEF more
    <3>2. \A s : Has(wire \o more, Global(s)) <=> Has(wire, Global(s))
      BY <1>1, <3>1, HasConcat
    <3>3. \A s : Once(wire, Global(s)) => Once(wire \o more, Global(s))
      BY <1>1, <3>1, OnceConcat
    <3> QED BY <2>2, <3>2, <3>3 DEF more
  <2>7. \A s \in Seats : (Unseen(s) => Unseen(s)') /\ (Told(s)' <=> Told(s))
    BY <2>1, <2>4, <2>6 DEF Unseen, Told, Running
  <2>8. Fresh'
    BY <2>1, <2>6, <2>7 DEF OrderInv, Fresh
  <2> QED BY <2>3, <2>5, <2>8 DEF OrderInv
<1>12. ASSUME ServeRegistry PROVE OrderInv'
  <2>1. /\ requests # <<>> /\ requests' = Tail(requests) /\ Head(requests) = GetRegistry /\ told'
        /\ UNCHANGED <<queue, stack, plugged, gone, phase>>
    BY <1>12 DEF ServeRegistry, Served, library, program
  <2>2. ~told
    BY <1>1, <2>1, HasTail DEF OrderInv, AskedOnce
  <2>3. /\ wire = <<>> /\ queue = <<>> /\ Running \subseteq {Start}
        /\ requests = <<GetRegistry, Sync(Start)>>
    BY <2>1, <2>2 DEF TableInv, Untold
  <2>4. requests' = <<Sync(Start)>>
    BY <2>1, <2>3
  <2>5. AskedOnce'
    BY <2>1, <2>3, <2>4, HasOne, AnswersDiffer DEF OrderInv, AskedOnce
  <2>6. ASSUME NEW x \in Seats PROVE ~Told(x) /\ Unseen(x)
    <3>1. ~Has(requests, Sync(x))
      <4>1. Len(requests) = 2 /\ requests[1] = GetRegistry /\ requests[2] = Sync(Start)
        BY <2>3
      <4>2. Sync(x) # GetRegistry /\ Sync(x) # Sync(Start)
        BY AnswersDiffer, NamesDiffer
      <4> QED BY <4>1, <4>2 DEF Has
    <3> QED BY <2>3, <3>1, HasNone, NamesDiffer DEF Told, Unseen, Coming
  <2>7. PICK g \in SetToSeqs(plugged \cup {Manager}) :
           wire' = wire \o [n \in DOMAIN g |-> Global(g[n])]
    BY <1>12 DEF ServeRegistry
  <2> DEFINE c == Cardinality(plugged \cup {Manager})
             more == [n \in DOMAIN g |-> Global(g[n])]
  <2>8. c \in Nat
    BY SeatsFinite, FS_Subset, FS_AddElement, FS_CardinalityType DEF OutsideType
  <2>9. /\ g \in [1..c -> plugged \cup {Manager}]
        /\ \A i, j \in 1..c : i # j => g[i] # g[j]
    BY <2>7 DEF SetToSeqs
  <2> HIDE DEF c
  <2>10. \A n \in 1..c : Global(g[n]) \in Events
    BY <2>9 DEF Global, Events, OutsideType
  <2>11. more \in Seq(Events) /\ Len(more) = c /\ \A n \in 1..c : more[n] = Global(g[n])
    BY <2>8, <2>9, <2>10
  <2>12. wire' = wire \o more
    BY <2>7
  <2> HIDE DEF more
  <2>13. \A f : ~Has(more, Done(f))
    BY <2>11, EventsDiffer DEF Has
  <2>14. \A s \in Seats : Once(more, Global(s))
    <3>1. ASSUME NEW s \in Seats, NEW m \in 1..c, NEW n \in 1..c,
                 more[m] = Global(s), more[n] = Global(s)
          PROVE  m = n
      <4>1. Global(g[m]) = Global(s) /\ Global(g[n]) = Global(s)
        BY <2>11, <3>1
      <4>2. g[m] = s /\ g[n] = s
        BY <4>1, EventsDiffer
      <4> QED BY <2>9, <4>2
    <3> QED BY <2>11, <3>1 DEF Once
  <2>15. \A s \in Seats : Has(more, Global(s)) => s \in plugged
    BY <2>9, <2>11, EventsDiffer, NamesDiffer DEF Has
  <2>16. Ordered' /\ Fresh'
    BY <2>1, <2>6, <2>11, <2>12, <2>13, <2>14, <2>15, AnswersDiffer, OrderServed
  <2> QED BY <2>5, <2>16 DEF OrderInv
<1>13. ASSUME Close PROVE OrderInv'
  BY <1>3, <1>5, <1>13 DEF Close, library, program, OrderInv
<1>14. ASSUME NEW s \in Seats, ServeDevice(s) PROVE OrderInv'
  <2>1. /\ requests # <<>> /\ requests' = Tail(requests) /\ Head(requests) = GetDevice(s)
        /\ UNCHANGED <<queue, stack, plugged, gone, told, phase>>
    BY <1>14 DEF ServeDevice, Served, library, program
  <2>2. Head(requests) # GetRegistry /\ \A f : Head(requests) # Sync(f)
    BY <2>1 DEF GetDevice, GetRegistry, Sync
  <2>3. AskedOnce'
    BY <1>4, <1>14, <2>1, <2>2 DEF ServeDevice
  <2>4. CASE wire' = wire
    <3>1. <<>> \in Seq(Events) /\ wire' = wire \o <<>>
      BY <1>1, <2>4
    <3>2. \A e : ~Has(<<>>, e) /\ Once(<<>>, e)
      BY HasNone
    <3> QED BY <2>1, <2>2, <2>3, <3>1, <3>2, OrderServed DEF OrderInv
  <2>5. CASE wire' = Append(wire, Selection(s))
    <3>1. Selection(s) \in Events /\ wire' = wire \o <<Selection(s)>>
      BY <1>7, <2>5 DEF Selection, Events
    <3>2. \A x : Selection(s) # Done(x) /\ Selection(s) # Global(x)
      BY EventsDiffer
    <3>3. Ordered' /\ Fresh'
      BY <1>6, <2>1, <2>2, <3>1, <3>2
    <3> QED BY <2>3, <3>3 DEF OrderInv
  <2> QED BY <1>14, <2>4, <2>5 DEF ServeDevice
<1> QED BY <1>8, <1>9, <1>10, <1>11, <1>12, <1>13, <1>14 DEF Compositor

\* What wl_display_read_events, and the request for a data device, do to the answers.
LEMMA OrderRead ==
    ASSUME OutsideType, ReadEvents \/ UNCHANGED <<queue, wire>>, Asks,
           ReadEvents => UNCHANGED requests
    PROVE  /\ \A f : Coming(queue, wire, requests, f) <=> Coming(queue', wire', requests', f)
           /\ \A f, g : Behind(queue, wire, requests, g, f) => Behind(queue', wire', requests', g, f)
<1>1. CASE UNCHANGED <<queue, wire, requests>>
  BY <1>1
<1>2. CASE ReadEvents
  <2>1. queue \in Seq(Events) /\ wire \in Seq(Events) /\ queue' = queue \o wire /\ wire' = <<>>
        /\ UNCHANGED requests
    BY <1>2 DEF OutsideType, ReadEvents
  <2> QED BY <2>1, AnswersRead
<1>3. CASE /\ UNCHANGED <<queue, wire>>
           /\ Top.for \in Seats /\ requests' = Append(requests, GetDevice(Top.for))
  <2> DEFINE a == GetDevice(Top.for)
  <2>1. requests \in Seq(Requests) /\ a \in Requests /\ requests' = Append(requests, a)
    BY <1>3 DEF OutsideType, Requests, GetDevice
  <2>2. \A f : a # Sync(f)
    BY AnswersDiffer
  <2> HIDE DEF a
  <2>3. ASSUME NEW f
        PROVE  /\ Coming(queue, wire, Append(requests, a), f) <=> Coming(queue, wire, requests, f)
               /\ \A g : Behind(queue, wire, requests, g, f)
                            => Behind(queue, wire, Append(requests, a), g, f)
    BY <2>1, <2>2, AnswersStay
  <2> QED BY <1>3, <2>1, <2>3
<1> QED BY <1>1, <1>2, <1>3 DEF Asks

\* And what they do to what is announced.
LEMMA FreshRead ==
    ASSUME OutsideType, Fresh, ReadEvents \/ UNCHANGED <<queue, wire>>, UNCHANGED <<plugged, gone>>,
           \A f : Coming(queue, wire, requests, f) <=> Coming(queue', wire', requests', f),
           \A s \in Seats : s \notin Running => s \notin Running'
    PROVE  Fresh'
<1>1. ASSUME NEW s \in Seats
      PROVE  /\ Told(s)' <=> Told(s)
             /\ Once(queue', Global(s)) /\ Once(wire', Global(s))
             /\ ~Has(queue', Global(s)) \/ ~Has(wire', Global(s))
  <2>1. CASE UNCHANGED <<queue, wire>>
    BY <2>1 DEF Told, Fresh
  <2>2. CASE ReadEvents
    <3>1. /\ queue \in Seq(Events) /\ wire \in Seq(Events)
          /\ queue' = queue \o wire /\ wire' = <<>>
      BY <2>2 DEF OutsideType, ReadEvents
    <3>2. Has(queue', Global(s)) <=> Has(queue, Global(s)) \/ Has(wire, Global(s))
      BY <3>1, HasConcat
    <3>3. ~Has(wire', Global(s)) /\ Once(wire', Global(s))
      BY <3>1, HasNone
    <3>4. Once(queue', Global(s))
      BY <3>1, OnceConcat DEF Fresh
    <3> QED BY <3>2, <3>3, <3>4 DEF Told
  <2> QED BY <2>1, <2>2
<1>2. \A s \in Seats : Unseen(s) => Unseen(s)'
  BY DEF Unseen
<1> QED BY <1>1, <1>2 DEF Fresh

LEMMA OrderSteps ==
    ASSUME OutsideType, ProgramType, TableInv, OrderInv, Steps
    PROVE  OrderInv'
<1>1. /\ stack # <<>>
      /\ Asks /\ UNCHANGED <<plugged, gone, told>>
      /\ ReadEvents => UNCHANGED requests
      /\ Succeed \/ Fail \/ \E place \in Places : GoTo(place)
      /\ phase' = "new" => phase = "new"
      /\ UNCHANGED <<queue, wire>> \/ ReadEvents
  BY DEF Steps, Prepare, FlushFails, PollFails, Read, Dispatched, At, Places, Succeed, Fail,
         Asks, AskForDevice, ReadWaits, ReadFails, ReadEvents, compositor, library
<1>2. AskedOnce'
  <2>1. told => ~Has(requests', GetRegistry)
    <3>1. ASSUME told, Top.for \in Seats, requests' = Append(requests, GetDevice(Top.for))
          PROVE  ~Has(requests', GetRegistry)
      <4> DEFINE a == GetDevice(Top.for)
                 more == <<a>>
      <4>1. requests \in Seq(Requests) /\ a \in Requests /\ a # GetRegistry
        BY <3>1 DEF OutsideType, Requests, GetDevice, GetRegistry
      <4>2. requests' = Append(requests, a)
        BY <3>1
      <4> HIDE DEF a
      <4>3. requests' = requests \o more /\ more \in Seq(Requests)
        BY <4>1, <4>2, AppendIsConcat
      <4>4. ~Has(more, GetRegistry)
        BY <4>1, HasOne
      <4> HIDE DEF more
      <4>5. Has(requests', GetRegistry) <=> Has(requests, GetRegistry) \/ Has(more, GetRegistry)
        BY <4>1, <4>3, HasConcat
      <4> QED BY <3>1, <4>4, <4>5 DEF OrderInv, AskedOnce
    <3> QED BY <1>1, <3>1 DEF Asks, OrderInv, AskedOnce
  <2>2. phase = "new" => requests' = <<>>
    <3>1. Top.for \in Running
      BY <1>1, RunningStays
    <3>2. phase = "new" => Top.for \notin Seats
      BY <3>1, NamesDiffer DEF TableInv, Untold, OrderInv, AskedOnce
    <3> QED BY <1>1, <3>2 DEF Asks, OrderInv, AskedOnce
  <2> QED BY <1>1, <2>1, <2>2 DEF OrderInv, AskedOnce
<1>3. \A s : s \notin Running => s \notin Running'
  BY <1>1, RunningStays
<1>4. /\ Len(stack) \in Nat /\ Len(stack') \in Nat /\ Len(stack') <= Len(stack)
      /\ \A n \in 1..Len(stack') : stack'[n].for = stack[n].for /\ stack'[n].done = stack[n].done
  <2>1. Len(stack) \in Nat \ {0}
    BY <1>1, EmptySeq, LenProperties DEF ProgramType
  <2>2. CASE Succeed \/ Fail
    <3>1. /\ Len(stack') = Len(stack) - 1
          /\ \A n \in 1..Len(stack') : stack'[n] = stack[n]
      BY <1>1, <2>2, Ends DEF ProgramType, Succeed, Fail
    <3> QED BY <2>1, <3>1
  <2>3. ASSUME NEW place \in Places, GoTo(place)
        PROVE  /\ Len(stack') = Len(stack)
               /\ \A n \in 1..Len(stack') : stack'[n].for = stack[n].for /\ stack'[n].done = stack[n].done
    <3>1. /\ Len(stack') = Len(stack)
          /\ stack'[Len(stack)] = [stack[Len(stack)] EXCEPT !.at = place]
          /\ \A n \in 1..Len(stack) : n < Len(stack) => stack'[n] = stack[n]
      BY <1>1, <2>3, MovesOn DEF ProgramType
    <3>2. stack[Len(stack)] \in Frames
      BY <2>1, ElementOfSeq DEF ProgramType
    <3>3. /\ stack'[Len(stack)].for = stack[Len(stack)].for
          /\ stack'[Len(stack)].done = stack[Len(stack)].done
      BY <3>1, <3>2 DEF Frames
    <3>4. ASSUME NEW n \in 1..Len(stack) PROVE n < Len(stack) \/ n = Len(stack)
      BY <2>1
    <3>5. ASSUME NEW n \in 1..Len(stack)
          PROVE  stack'[n].for = stack[n].for /\ stack'[n].done = stack[n].done
      BY <3>1, <3>3, <3>4
    <3> QED BY <3>1, <3>5
  <2> QED BY <1>1, <2>1, <2>2, <2>3
<1>5. Ordered'
  BY <1>1, <1>4, OrderRead, OrderKept DEF OrderInv
<1>6. Fresh'
  BY <1>1, <1>3, OrderRead, FreshRead DEF OrderInv
<1> QED BY <1>2, <1>5, <1>6 DEF OrderInv

LEMMA OrderHandlers ==
    ASSUME OutsideType, ProgramType, TableInv, OrderInv, Handlers
    PROVE  OrderInv'
<1>1. PICK e : Take(e)
  BY DEF Handlers, BindManager, NewSeat, RemoveSeat, GetName, GetDone, GetSelection
<1>2. /\ queue # <<>> /\ queue \in Seq(Events) /\ Head(queue) = e /\ queue' = Tail(queue)
      /\ requests \in Seq(Requests) /\ Len(stack) \in Nat
      /\ UNCHANGED <<plugged, gone, told, wire, phase>>
  BY <1>1, LenProperties DEF Take, OutsideType, ProgramType
<1>3. /\ \A x : Has(queue, x) <=> e = x \/ Has(queue', x)
      /\ \A x : Once(queue, x) => Once(queue', x) /\ (e = x => ~Has(queue', x))
  BY <1>2, HasTail, OnceTail
<1>4. ASSUME NEW f
      PROVE  /\ Coming(queue', wire, requests, f) => Coming(queue, wire, requests, f)
             /\ e # Done(f) /\ Coming(queue, wire, requests, f) => Coming(queue', wire, requests, f)
             /\ \A g : Behind(queue, wire, requests, g, f) => e # Done(g)
             /\ \A g : e # Done(f) /\ Behind(queue, wire, requests, g, f)
                          => Behind(queue', wire, requests, g, f)
  BY <1>2, AnswersTaken
<1>5. DOMAIN stack = 1..Len(stack)
  BY LenProperties DEF ProgramType
<1>6. ASSUME UNCHANGED requests PROVE AskedOnce'
  BY <1>2, <1>6 DEF OrderInv, AskedOnce
<1>7. ASSUME UNCHANGED requests, Running' = Running PROVE Fresh'
  <2>1. ASSUME NEW s \in Seats PROVE (Told(s)' => Told(s)) /\ (Unseen(s) => Unseen(s)')
    BY <1>2, <1>3, <1>4, <1>7 DEF Told, Unseen
  <2> QED BY <1>2, <1>3, <2>1 DEF OrderInv, Fresh
<1>8. ASSUME UNCHANGED requests, \A f : e # Done(f), Len(stack') = Len(stack),
             \A n \in 1..Len(stack') : stack'[n].for = stack[n].for /\ stack'[n].done = stack[n].done
      PROVE  Ordered'
  BY <1>2, <1>4, <1>8, OrderKept DEF OrderInv
<1>9. ASSUME BindManager \/ \E s \in Seats : RemoveSeat(s) \/ GetSelection(s) PROVE OrderInv'
  <2>1. UNCHANGED <<requests, stack>> /\ \A f : e # Done(f)
    BY <1>1, <1>9, EventsDiffer DEF BindManager, RemoveSeat, GetSelection, Take
  <2> QED BY <1>6, <1>7, <1>8, <2>1 DEF OrderInv, Running
<1>10. ASSUME NEW s \in Seats, GetName(s) PROVE OrderInv'
  <2>1. UNCHANGED requests /\ \A f : e # Done(f)
    BY <1>1, <1>10 DEF GetName, Take, Name, Done
  <2>2. /\ Len(stack') = Len(stack)
        /\ \A n \in 1..Len(stack) : stack'[n].for = stack[n].for
        /\ DOMAIN stack' = 1..Len(stack)
    BY <1>10, NamesOne, LenProperties DEF GetName, ProgramType
  <2>3. ASSUME NEW n \in 1..Len(stack) PROVE stack'[n].done = stack[n].done
    <3>1. stack[n] \in Frames /\ stack'[n] = [stack[n] EXCEPT !.named = @ \/ stack[n].for = s]
      BY <1>5, <1>10, ElementOfSeq DEF GetName, ProgramType
    <3> QED BY <3>1 DEF Frames
  <2>4. Running' = Running
    BY <1>5, <2>2 DEF Running
  <2> QED BY <1>6, <1>7, <1>8, <2>1, <2>2, <2>3, <2>4 DEF OrderInv
<1>11. ASSUME NEW d \in Seats \cup {Start}, GetDone(d) PROVE OrderInv'
  <2>1. UNCHANGED requests /\ e = Done(d)
    BY <1>1, <1>2, <1>11 DEF GetDone, Take
  <2>2. /\ Len(stack') = Len(stack)
        /\ \A n \in 1..Len(stack) : stack'[n].for = stack[n].for
        /\ DOMAIN stack' = 1..Len(stack)
    BY <1>11, EndsWait, LenProperties DEF GetDone, ProgramType
  <2>3. ASSUME NEW n \in 1..Len(stack)
        PROVE  stack'[n].done <=> stack[n].done \/ stack[n].for = d
    <3>1. stack[n] \in Frames /\ stack'[n] = [stack[n] EXCEPT !.done = @ \/ stack[n].for = d]
      BY <1>5, <1>11, ElementOfSeq DEF GetDone, ProgramType
    <3> QED BY <3>1 DEF Frames
  <2>4. Running' = Running
    BY <1>5, <2>2 DEF Running
  <2>5. \A f : f # d => e # Done(f)
    BY <2>1, AnswersDiffer
  <2>6. ASSUME NEW i \in 1..Len(stack)
        PROVE  stack'[i].done \/ Coming(queue', wire', requests', stack'[i].for)
    BY <1>2, <1>4, <2>1, <2>2, <2>3, <2>5 DEF OrderInv, Ordered
  <2>7. ASSUME NEW i \in 1..Len(stack), NEW j \in 1..Len(stack), i < j
        PROVE  /\ stack'[i].for # stack'[j].for
               /\ \/ stack'[i].done
                  \/ ~stack'[j].done /\ Behind(queue', wire', requests', stack'[j].for, stack'[i].for)
    <3>1. /\ stack[i].for # stack[j].for
          /\ \/ stack[i].done
             \/ ~stack[j].done /\ Behind(queue, wire, requests, stack[j].for, stack[i].for)
      BY <2>7 DEF OrderInv, Ordered
    <3>2. CASE stack[i].done \/ stack[i].for = d
      BY <2>2, <2>3, <3>1, <3>2
    <3>3. CASE ~stack[i].done /\ stack[i].for # d
      <4>1. e # Done(stack[j].for) /\ Behind(queue', wire, requests, stack[j].for, stack[i].for)
        BY <1>4, <2>5, <3>1, <3>3
      <4>2. stack[j].for # d
        BY <2>1, <4>1
      <4> QED BY <1>2, <2>1, <2>2, <2>3, <3>1, <3>3, <4>1, <4>2
    <3> QED BY <3>2, <3>3
  <2>8. Ordered'
    BY <2>2, <2>6, <2>7 DEF Ordered
  <2> QED BY <1>6, <1>7, <2>1, <2>4, <2>8 DEF OrderInv
<1>12. ASSUME NEW s \in Seats, NewSeat(s) PROVE OrderInv'
  <2>1. /\ requests' = requests \o <<Bind(s), Sync(s)>> /\ e = Global(s)
        /\ stack' = Append(stack, Roundtrip(s))
    BY <1>1, <1>2, <1>12 DEF NewSeat, Take
  <2>2. /\ Len(stack') = Len(stack) + 1 /\ stack' \in Seq(Frames)
        /\ stack'[Len(stack) + 1] = Roundtrip(s)
        /\ \A n \in 1..Len(stack) : stack'[n] = stack[n]
    BY <2>1, Begins DEF ProgramType
  <2>3. Roundtrip(s).for = s /\ Roundtrip(s).done = FALSE
    BY DEF Roundtrip
  <2>4. Unseen(s) /\ s \in plugged \cup gone
    BY <1>3, <2>1 DEF OrderInv, Fresh, Told
  <2>5. Bind(s) \in Requests /\ Sync(s) \in Requests
    BY DEF Bind, Sync, Requests
  <2>6. \A f : e # Done(f)
    BY <2>1, EventsDiffer
  <2>7. ~Coming(queue', wire', requests, s)
    BY <1>2, <1>4, <2>4 DEF Unseen
  <2>8. ASSUME NEW f
        PROVE  /\ Coming(queue', wire', requests', f) <=> f = s \/ Coming(queue', wire', requests, f)
               /\ \A g : g # s /\ Behind(queue', wire', requests, g, f)
                            => Behind(queue', wire', requests', g, f)
               /\ Coming(queue', wire', requests, f) => Behind(queue', wire', requests', s, f)
    BY <1>2, <2>1, <2>5, <2>7, AnswersAsked
  <2>9. \A n \in 1..Len(stack) : stack[n].for # s
    BY <1>5, <2>4 DEF Unseen, Running
  <2>10. ASSUME NEW f, Coming(queue, wire, requests, f)
         PROVE  Coming(queue', wire', requests, f) /\ Coming(queue', wire', requests', f)
    BY <1>2, <1>4, <2>6, <2>8, <2>10
  <2>11. ASSUME NEW i \in 1..Len(stack')
         PROVE  stack'[i].done \/ Coming(queue', wire', requests', stack'[i].for)
    <3>1. CASE i = Len(stack) + 1
      BY <2>2, <2>3, <2>8, <3>1
    <3>2. CASE i # Len(stack) + 1
      <4>1. i \in 1..Len(stack) /\ stack'[i] = stack[i]
        BY <1>2, <2>2, <3>2
      <4> QED BY <2>10, <4>1 DEF OrderInv, Ordered
    <3> QED BY <3>1, <3>2
  <2>12. ASSUME NEW i \in 1..Len(stack'), NEW j \in 1..Len(stack'), i < j
         PROVE  /\ stack'[i].for # stack'[j].for
                /\ \/ stack'[i].done
                   \/ ~stack'[j].done /\ Behind(queue', wire', requests', stack'[j].for, stack'[i].for)
    <3>1. i \in 1..Len(stack) /\ stack'[i] = stack[i]
      BY <1>2, <2>2, <2>12
    <3>2. CASE j = Len(stack) + 1
      <4>1. stack'[j].for = s /\ ~stack'[j].done
        BY <2>2, <2>3, <3>2
      <4>2. stack[i].done \/ Coming(queue, wire, requests, stack[i].for)
        BY <3>1 DEF OrderInv, Ordered
      <4> QED BY <2>8, <2>9, <2>10, <3>1, <4>1, <4>2
    <3>3. CASE j # Len(stack) + 1
      <4>1. j \in 1..Len(stack) /\ stack'[j] = stack[j]
        BY <1>2, <2>2, <3>3
      <4>2. /\ stack[i].for # stack[j].for
            /\ \/ stack[i].done
               \/ ~stack[j].done /\ Behind(queue, wire, requests, stack[j].for, stack[i].for)
        BY <2>12, <3>1, <4>1 DEF OrderInv, Ordered
      <4>3. Behind(queue, wire, requests, stack[j].for, stack[i].for)
               => Behind(queue', wire', requests', stack[j].for, stack[i].for)
        BY <1>2, <1>4, <2>6, <2>8, <2>9, <4>1
      <4> QED BY <3>1, <4>1, <4>2, <4>3
    <3> QED BY <3>2, <3>3
  <2>13. Ordered'
    BY <2>11, <2>12 DEF Ordered
  <2>14. AskedOnce'
    <3>1. told /\ phase # "new"
      BY <1>2 DEF TableInv, Untold, OrderInv, AskedOnce
    <3>2. ~Has(requests', GetRegistry)
      <4> DEFINE more == <<Bind(s), Sync(s)>>
      <4>1. more \in Seq(Requests) /\ Len(more) = 2 /\ more[1] = Bind(s) /\ more[2] = Sync(s)
        BY <2>5
      <4> HIDE DEF more
      <4>2. Bind(s) # GetRegistry /\ Sync(s) # GetRegistry
        BY DEF Bind, Sync, GetRegistry
      <4>3. ~Has(more, GetRegistry)
        BY <4>1, <4>2 DEF Has
      <4>4. ~Has(requests \o more, GetRegistry)
        BY <1>2, <3>1, <4>1, <4>3, HasConcat DEF OrderInv, AskedOnce
      <4> QED BY <2>1, <4>4 DEF more
    <3> QED BY <1>2, <3>1, <3>2 DEF AskedOnce
  <2>15. Running' = Running \cup {s}
    <3>1. DOMAIN stack' = 1..(Len(stack) + 1)
      BY <2>2, LenProperties
    <3>2. 1..(Len(stack) + 1) = 1..Len(stack) \cup {Len(stack) + 1}
      BY <1>2
    <3>3. Running' = {stack'[n].for : n \in 1..Len(stack)} \cup {s}
      BY <2>2, <2>3, <3>1, <3>2 DEF Running
    <3> QED BY <1>5, <2>2, <3>3 DEF Running
  <2>16. ASSUME NEW x \in Seats
         PROVE  /\ Told(x)' => Told(x)
                /\ x # s /\ Unseen(x) => Unseen(x)'
                /\ ~Told(s)'
    <3>1. ~Has(queue', Global(s)) /\ ~Has(wire, Global(s))
      BY <1>3, <2>1 DEF OrderInv, Fresh
    <3> QED BY <1>2, <1>3, <1>4, <2>8, <2>15, <3>1 DEF Told, Unseen
  <2>17. Fresh'
    BY <1>2, <1>3, <2>4, <2>16 DEF OrderInv, Fresh
  <2> QED BY <2>13, <2>14, <2>17 DEF OrderInv
<1> QED BY <1>9, <1>10, <1>11, <1>12 DEF Handlers

LEMMA OrderMainLoop ==
    ASSUME OutsideType, ProgramType, TableInv, OrderInv, MainLoop
    PROVE  OrderInv'
<1>1. CASE Connect
  <2>1. /\ requests' = <<GetRegistry, Sync(Start)>> /\ stack' = <<Roundtrip(Start)>>
        /\ phase = "new" /\ phase' = "starting"
        /\ UNCHANGED <<queue, wire, plugged, gone, told>>
    BY <1>1 DEF Connect, library
  <2>2. ~told /\ queue = <<>> /\ wire = <<>>
    BY <2>1 DEF OrderInv, AskedOnce, TableInv, Untold
  <2>3. /\ Len(requests') = 2 /\ requests'[1] = GetRegistry /\ requests'[2] = Sync(Start)
        /\ Len(stack') = 1 /\ stack'[1].for = Start /\ DOMAIN stack' = {1}
    BY <2>1 DEF Roundtrip
  <2>4. Has(requests', Sync(Start)) /\ \A s \in Seats : ~Has(requests', Sync(s))
    BY <2>3, NamesDiffer, AnswersDiffer DEF Has
  <2>5. Ordered'
    BY <2>3, <2>4 DEF Ordered, Coming
  <2>6. \A s \in Seats : ~Told(s)' /\ Unseen(s)'
    BY <2>1, <2>2, <2>3, <2>4, HasNone, NamesDiffer DEF Told, Unseen, Coming, Running
  <2>7. Fresh'
    BY <2>1, <2>2, <2>6, HasNone DEF Fresh, Told
  <2>8. AskedOnce'
    BY <2>1, <2>2 DEF AskedOnce
  <2> QED BY <2>5, <2>7, <2>8 DEF OrderInv
<1>2. CASE ~Connect
  <2>1. /\ UNCHANGED <<plugged, gone, told, requests, stack>>
        /\ phase' = "new" => phase = "new"
        /\ UNCHANGED <<queue, wire>> \/ ReadEvents
    BY <1>2 DEF MainLoop, InstallSource, SourcePrepare, SourceCheck, SourceDispatch, Finalize,
                Stopped, ReadEvents, ReadWaits, ReadFails, compositor, library
  <2>2. Len(stack) \in Nat /\ Running' = Running
    BY <2>1, LenProperties DEF ProgramType, Running
  <2>3. AskedOnce'
    BY <2>1 DEF OrderInv, AskedOnce
  <2>4. /\ \A f : Coming(queue, wire, requests, f) <=> Coming(queue', wire', requests', f)
        /\ \A f, g : Behind(queue, wire, requests, g, f) => Behind(queue', wire', requests', g, f)
    BY <2>1, OrderRead DEF Asks
  <2>5. Ordered'
    BY <2>1, <2>2, <2>4, OrderKept DEF OrderInv
  <2>6. Fresh'
    BY <2>1, <2>2, <2>4, FreshRead DEF OrderInv
  <2> QED BY <2>3, <2>5, <2>6 DEF OrderInv
<1> QED BY <1>1, <1>2

\* A roundtrip is done only after those that it is nested in, however deep they
\* nest, whenever the compositor answers and whatever fails in between.
THEOREM AnswersInOrder == Spec => []DoneInOrder
<1>1. Init => OrderInv
  <2> SUFFICES ASSUME Init PROVE OrderInv
    OBVIOUS
  <2>1. stack = <<>> /\ queue = <<>> /\ wire = <<>> /\ requests = <<>> /\ ~told
    BY DEF Init
  <2>2. Len(stack) = 0 /\ DOMAIN stack = {}
    BY <2>1
  <2>3. Ordered
    BY <2>2 DEF Ordered
  <2> QED BY <2>1, <2>2, <2>3, HasNone
          DEF OrderInv, Fresh, Told, Unseen, Coming, Running, AskedOnce
<1>2. TypeOK /\ TableInv /\ OrderInv /\ [Next]_vars => OrderInv'
  <2> SUFFICES ASSUME TypeOK, TableInv, OrderInv, [Next]_vars PROVE OrderInv'
    OBVIOUS
  <2>1. OutsideType /\ ProgramType
    BY TypeParts
  <2>2. CASE UNCHANGED vars
    BY <2>2 DEF vars, compositor, library, program, OrderInv, Ordered, Fresh, Told, Unseen,
                Running, AskedOnce
  <2> QED BY <2>1, <2>2, NextKinds, OrderCompositor, OrderSteps, OrderHandlers, OrderMainLoop
<1>3. TypeOK /\ OrderInv => DoneInOrder
  <2>1. TypeOK => DOMAIN stack = 1..Len(stack)
    BY LenProperties DEF TypeOK
  <2> QED BY <2>1 DEF OrderInv, Ordered, DoneInOrder
<1> QED BY <1>1, <1>2, <1>3, TableHolds, PTL DEF Spec

=============================================================================
