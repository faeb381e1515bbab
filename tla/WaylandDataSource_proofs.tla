---------------------- MODULE WaylandDataSource_proofs ----------------------
(***************************************************************************)
(* Proofs about the sending of data, for any number of pastes, data of any *)
(* size and pipes of any capacity.                                         *)
(***************************************************************************)
EXTENDS WaylandDataSource, TLAPS

-----------------------------------------------------------------------------
(* The invariants                                                            *)

\* Nothing was sent before the entry is known.
Fresh(p) == /\ buf[p] = 0 /\ rest[p] = 0
            /\ sent[p] = <<>> /\ taken[p] = 0

\* What the callback is given begins where the data that was sent should end,
\* unless it has ended; and what is written begins no later than that.
Counts(p) ==
    /\ stage[p] \in {"none", "asked"} => Fresh(p)
    /\ stage[p] \in {"writing", "written"} =>
          /\ buf[p] <= rest[p]
          /\ rest[p] < size[p] \/ (rest[p] = 0 /\ size[p] = 0)
    /\ stage[p] = "writing" => Len(sent[p]) = rest[p]
    /\ stage[p] = "written" => \/ w[p] = -1
                               \/ w[p] > 0 /\ Len(sent[p]) = rest[p] + w[p]
                               \/ w[p] = 0 /\ size[p] = 0
    /\ stage[p] = "ended" => Len(sent[p]) >= size[p]

CountInv == TypeOK /\ \A p \in Pastes : Counts(p)

\* Data that fits into the pipe goes with the first write.
AtOnce(p) ==
    size[p] <= Room =>
        /\ stage[p] = "writing" => Fresh(p)
        /\ stage[p] = "written" =>
              w[p] = -1 \/ (w[p] = size[p] /\ rest[p] = 0 /\ sent[p] = Whole(p))
        /\ stage[p] = "ended" => sent[p] = Whole(p)

AtOnceInv == \A p \in Pastes : AtOnce(p)

-----------------------------------------------------------------------------
(* One paste at a time                                                       *)

\* The variables of a paste that a step does not touch stay as they are.
Same(p) == /\ stage'[p] = stage[p] /\ size'[p] = size[p]
           /\ buf'[p] = buf[p] /\ rest'[p] = rest[p] /\ w'[p] = w[p]
           /\ sent'[p] = sent[p] /\ taken'[p] = taken[p]

\* What a step does to the type of the variables of one paste: their new values
\* are all it depends on.
LEMMA OthersStay ==
    ASSUME TypeOK, NEW p \in Pastes, NEW q \in Pastes, q # p,
           Ask(p) \/ Reads(p) \/ Leaves(p) \/ Dispatch(p)
    PROVE  Same(q)
BY DEF Same, TypeOK, Ask, Reads, Leaves, Dispatch, Send, Refuse, Write, Writes, WriteFails,
       WriteFreed, Callback, Continue, Goes

\* What is written is a sequence of places, as long as was asked for.
LEMMA Pieces ==
    ASSUME NEW n \in Nat, NEW b \in Nat, NEW s \in Seq(Nat)
    PROVE  /\ [k \in 1..n |-> b + k] \in Seq(Nat)
           /\ Len([k \in 1..n |-> b + k]) = n
           /\ [k \in 1..n |-> Lost] \in Seq(Nat)
           /\ Len([k \in 1..n |-> Lost]) = n
           /\ \A bytes \in Seq(Nat) : s \o bytes \in Seq(Nat) /\ Len(s \o bytes) = Len(s) + Len(bytes)
<1> DEFINE f == [k \in 1..n |-> b + k]
           g == [k \in 1..n |-> Lost]
<1>1. f \in [1..n -> Nat] /\ g \in [1..n -> Nat]
  BY DEF Lost
<1> HIDE DEF f, g
<1>2. f \in Seq(Nat) /\ Len(f) = n /\ g \in Seq(Nat) /\ Len(g) = n
  BY <1>1
<1>3. \A bytes \in Seq(Nat) : s \o bytes \in Seq(Nat) /\ Len(s \o bytes) = Len(s) + Len(bytes)
  OBVIOUS
<1> QED BY <1>2, <1>3 DEF f, g

\* The first bytes that are written are the data.
LEMMA FirstPiece ==
    ASSUME NEW p \in Pastes, size[p] \in Nat, sent[p] = <<>>, buf[p] = 0
    PROVE  sent[p] \o [k \in 1..size[p] |-> buf[p] + k] = Whole(p)
<1>1. [k \in 1..size[p] |-> buf[p] + k] = [k \in 1..size[p] |-> k]
  OBVIOUS
<1> DEFINE f == [k \in 1..size[p] |-> k]
<1>2. f \in [1..size[p] -> Nat]
  OBVIOUS
<1> HIDE DEF f
<1>3. f \in Seq(Nat)
  BY <1>2
<1>4. <<>> \o f = f
  BY <1>3
<1> QED BY <1>1, <1>4 DEF f, Whole

\* What a write does: it adds as much as it returns, or fails.
Adds(p, bytes) ==
    /\ sent' = [sent EXCEPT ![p] = sent[p] \o bytes]
    /\ w' = [w EXCEPT ![p] = Len(bytes)]
    /\ Len(bytes) > 0 \/ Left(p) = 0

LEMMA WriteStep ==
    ASSUME TypeOK, NEW p \in Pastes, Write(p), buf[p] <= size[p]
    PROVE  \/ sent' = sent /\ w' = [w EXCEPT ![p] = -1]
           \/ \E bytes \in Seq(Nat) : Adds(p, bytes)
<1>1. /\ buf[p] \in Nat /\ size[p] \in Nat /\ sent[p] \in Seq(Nat) /\ taken[p] \in Nat
      /\ Left(p) \in Nat /\ Free(p) \in Int
  BY PipeHasRoom DEF TypeOK, Left, Free
<1>2. CASE WriteFails(p)
  BY <1>2 DEF WriteFails
<1>3. CASE w' = [w EXCEPT ![p] = -1] /\ alive' \in BOOLEAN /\ UNCHANGED sent
  BY <1>3
<1>4. ASSUME NEW n \in Lengths(p), Writes(p, [k \in 1..n |-> buf[p] + k])
      PROVE  \E bytes \in Seq(Nat) : Adds(p, bytes)
  <2> DEFINE bytes == [k \in 1..n |-> buf[p] + k]
  <2>1. n \in Nat /\ (n > 0 \/ Left(p) = 0)
    BY <1>1 DEF Lengths
  <2>2. bytes \in Seq(Nat) /\ Len(bytes) = n
    BY <1>1, <2>1, Pieces
  <2> HIDE DEF bytes
  <2>3. Writes(p, bytes)
    BY <1>4 DEF bytes
  <2>4. Adds(p, bytes)
    BY <2>1, <2>2, <2>3 DEF Adds, Writes
  <2> QED BY <2>2, <2>4
<1>5. ASSUME NEW n \in 1..Free(p), Writes(p, [k \in 1..n |-> Lost])
      PROVE  \E bytes \in Seq(Nat) : Adds(p, bytes)
  <2> DEFINE bytes == [k \in 1..n |-> Lost]
  <2>1. n \in Nat /\ n > 0
    BY <1>1
  <2>2. bytes \in Seq(Nat) /\ Len(bytes) = n
    BY <1>1, <2>1, Pieces
  <2> HIDE DEF bytes
  <2>3. Writes(p, bytes)
    BY <1>5 DEF bytes
  <2>4. Adds(p, bytes)
    BY <2>1, <2>2, <2>3 DEF Adds, Writes
  <2> QED BY <2>2, <2>4
<1>6. \/ \E n \in Lengths(p) : Writes(p, [k \in 1..n |-> buf[p] + k])
      \/ WriteFails(p)
      \/ \E n \in 1..Free(p) : Writes(p, [k \in 1..n |-> Lost])
      \/ w' = [w EXCEPT ![p] = -1] /\ alive' \in BOOLEAN /\ UNCHANGED sent
  BY DEF Write, WriteFreed
<1> QED BY <1>2, <1>3, <1>4, <1>5, <1>6

-----------------------------------------------------------------------------
(* The counts                                                                *)

LEMMA CountInit == ASSUME Init PROVE CountInv
BY DEF Init, CountInv, TypeOK, Counts, Fresh, Stages

\* A step of one paste keeps the counts of the others.
LEMMA OthersCount ==
    ASSUME NEW q \in Pastes, Same(q), Counts(q)
    PROVE  Counts(q)'
BY DEF Same, Counts, Fresh

LEMMA WriteCounts ==
    ASSUME CountInv, NEW p \in Pastes, Write(p)
    PROVE  TypeOK' /\ Counts(p)'
<1>1. TypeOK /\ Counts(p) /\ stage[p] = "writing" /\ stage' = [stage EXCEPT ![p] = "written"]
  BY DEF CountInv, Write, Goes
<1>2. /\ UNCHANGED <<entry, size, buf, rest, taken, gone>>
      /\ buf[p] <= rest[p] /\ Len(sent[p]) = rest[p]
      /\ rest[p] < size[p] \/ (rest[p] = 0 /\ size[p] = 0)
  BY <1>1 DEF Write, Counts
<1>3. /\ buf[p] \in Nat /\ size[p] \in Nat /\ rest[p] \in Nat /\ sent[p] \in Seq(Nat)
      /\ buf[p] <= size[p]
  BY <1>1, <1>2 DEF TypeOK
<1>4. alive' \in BOOLEAN
  BY <1>1 DEF TypeOK, Write, Writes, WriteFails, WriteFreed
<1>5. CASE sent' = sent /\ w' = [w EXCEPT ![p] = -1]
  BY <1>1, <1>2, <1>4, <1>5 DEF TypeOK, Counts, Stages
<1>6. ASSUME NEW bytes \in Seq(Nat), Adds(p, bytes) PROVE TypeOK' /\ Counts(p)'
  <2>1. sent[p] \o bytes \in Seq(Nat) /\ Len(sent[p] \o bytes) = Len(sent[p]) + Len(bytes)
    BY <1>3
  <2>2. /\ sent' = [sent EXCEPT ![p] = sent[p] \o bytes]
        /\ w' = [w EXCEPT ![p] = Len(bytes)]
        /\ Len(bytes) \in Nat
    BY <1>6 DEF Adds
  <2>3. TypeOK'
    BY <1>1, <1>2, <1>4, <2>1, <2>2 DEF TypeOK, Stages
  <2>4. sent'[p] = sent[p] \o bytes /\ w'[p] = Len(bytes) /\ stage'[p] = "written"
    BY <1>1, <2>2 DEF TypeOK
  <2>5. Len(bytes) > 0 \/ size[p] = 0
    BY <1>2, <1>3, <1>6 DEF Adds, Left
  <2>6. Counts(p)'
    BY <1>2, <1>3, <2>1, <2>2, <2>4, <2>5 DEF Counts
  <2> QED BY <2>3, <2>6
<1> QED BY <1>1, <1>3, <1>5, <1>6, WriteStep

LEMMA CallbackCounts ==
    ASSUME CountInv, NEW p \in Pastes, Callback(p)
    PROVE  TypeOK' /\ Counts(p)'
<1>1. /\ TypeOK /\ Counts(p) /\ stage[p] = "written"
      /\ UNCHANGED <<entry, alive, size, w, sent, taken, gone>>
  BY DEF CountInv, Callback, Continue, Goes
<1>2. /\ buf[p] \in Nat /\ size[p] \in Nat /\ rest[p] \in Nat
      /\ w[p] \in Nat \cup {-1} /\ Len(sent[p]) \in Nat
  BY <1>1 DEF TypeOK
<1>3. CASE Continue(p)
  <2>1. /\ w[p] > 0 /\ w[p] < size[p] - rest[p]
        /\ stage' = [stage EXCEPT ![p] = "writing"]
        /\ buf' = [buf EXCEPT ![p] = rest[p]]
        /\ rest' = [rest EXCEPT ![p] = rest[p] + w[p]]
    BY <1>3 DEF Continue, More, Goes
  <2>2. rest[p] + w[p] \in Nat
    BY <1>2, <2>1
  <2>3. TypeOK'
    BY <1>1, <1>2, <2>1, <2>2 DEF TypeOK, Stages
  <2>4. /\ stage'[p] = "writing" /\ buf'[p] = rest[p] /\ rest'[p] = rest[p] + w[p]
    BY <1>1, <2>1 DEF TypeOK
  <2>5. Counts(p)'
    BY <1>1, <1>2, <2>1, <2>4 DEF Counts
  <2> QED BY <2>3, <2>5
<1>4. CASE ~More(p) /\ UNCHANGED <<buf, rest>>
           /\ Goes(p, "written", IF w[p] = -1 THEN "failed" ELSE "ended")
  <2> DEFINE to == IF w[p] = -1 THEN "failed" ELSE "ended"
  <2>1. stage' = [stage EXCEPT ![p] = to] /\ to \in Stages
    BY <1>4 DEF Goes, Stages
  <2>2. TypeOK'
    BY <1>1, <1>4, <2>1 DEF TypeOK
  <2>3. stage'[p] = to
    BY <1>1, <2>1 DEF TypeOK
  <2>4. Counts(p)'
    BY <1>1, <1>2, <1>4, <2>3 DEF Counts, More
  <2> QED BY <2>2, <2>4
<1> QED BY <1>3, <1>4 DEF Callback

LEMMA OtherStepsCount ==
    ASSUME CountInv, NEW p \in Pastes, Ask(p) \/ Reads(p) \/ Leaves(p) \/ Send(p)
    PROVE  TypeOK' /\ Counts(p)'
<1>1. TypeOK /\ Counts(p)
  BY DEF CountInv
<1>2. CASE Ask(p)
  BY <1>1, <1>2 DEF TypeOK, Counts, Ask, Goes, Fresh, Stages
<1>3. CASE Reads(p)
  <2>1. Len(sent[p]) \in Nat
    BY <1>1 DEF TypeOK
  <2> QED BY <1>1, <1>3, <2>1 DEF TypeOK, Counts, Reads, Fresh
<1>4. CASE Leaves(p)
  BY <1>1, <1>4 DEF TypeOK, Counts, Leaves, Fresh
<1>5. CASE Send(p)
  <2>1. Size[entry] \in Nat \cup {NoData}
    BY <1>1, SizesAreNat DEF TypeOK
  <2>2. CASE Refuse(p)
    BY <1>1, <1>5, <2>2 DEF TypeOK, Counts, Send, Refuse, Goes, Stages
  <2>3. CASE ~Refuse(p)
    <3>1. /\ stage[p] = "asked" /\ stage' = [stage EXCEPT ![p] = "writing"]
          /\ size' = [size EXCEPT ![p] = Size[entry]] /\ Size[entry] \in Nat
          /\ UNCHANGED <<entry, alive, buf, rest, w, sent, taken, gone>>
      BY <1>5, <2>1, <2>3 DEF Send, Goes
    <3>2. TypeOK'
      BY <1>1, <3>1 DEF TypeOK, Stages
    <3>3. stage'[p] = "writing" /\ size'[p] = Size[entry] /\ Fresh(p)
      BY <1>1, <3>1 DEF TypeOK, Counts
    <3>4. Counts(p)'
      BY <3>1, <3>3 DEF Counts, Fresh
    <3> QED BY <3>2, <3>4
  <2> QED BY <2>2, <2>3
<1> QED BY <1>2, <1>3, <1>4, <1>5

LEMMA CountStep == ASSUME CountInv, [Next]_vars PROVE CountInv'
<1>1. CASE UNCHANGED vars
  BY <1>1 DEF CountInv, TypeOK, Counts, Fresh, vars, pastes
<1>2. ASSUME NEW e \in Entries, Update(e) PROVE CountInv'
  BY <1>2 DEF CountInv, TypeOK, Counts, Fresh, Update, pastes
<1>3. ASSUME NEW p \in Pastes, Ask(p) \/ Reads(p) \/ Leaves(p) \/ Dispatch(p)
      PROVE  CountInv'
  <2>1. TypeOK' /\ Counts(p)'
    BY <1>3, OtherStepsCount, WriteCounts, CallbackCounts DEF Dispatch
  <2>2. ASSUME NEW q \in Pastes, q # p PROVE Counts(q)'
    <3>1. Same(q)
      BY <1>3, <2>2, OthersStay DEF CountInv
    <3> QED BY <3>1, OthersCount DEF CountInv
  <2> QED BY <2>1, <2>2 DEF CountInv
<1> QED BY <1>1, <1>2, <1>3 DEF Next

\* The type invariant, for every size of the data and of the pipes: the callback
\* never goes back before the beginning of the data nor past its end.
THEOREM TypeCorrect == Spec => []TypeOK
<1>1. CountInv => TypeOK
  BY DEF CountInv
<1> QED BY <1>1, CountInit, CountStep, PTL DEF Spec

\* send_data_async_callback never ends a paste without an error before as much
\* was written as the data has.
THEOREM NeverShort == Spec => []NotShort
<1>1. CountInv => NotShort
  BY DEF CountInv, Counts, NotShort
<1> QED BY <1>1, CountInit, CountStep, PTL DEF Spec

-----------------------------------------------------------------------------
(* Data that fits into the pipe                                              *)

LEMMA AtOnceInit == ASSUME Init PROVE AtOnceInv
BY DEF Init, AtOnceInv, AtOnce

LEMMA OthersAtOnce ==
    ASSUME NEW q \in Pastes, Same(q), AtOnce(q)
    PROVE  AtOnce(q)'
BY DEF Same, AtOnce, Fresh, Whole

\* The first write finds the pipe empty and writes all.
LEMMA WriteAtOnce ==
    ASSUME CountInv, NEW p \in Pastes, AtOnce(p), Write(p)
    PROVE  AtOnce(p)'
<1>1. /\ TypeOK /\ stage[p] = "writing" /\ stage' = [stage EXCEPT ![p] = "written"]
      /\ UNCHANGED <<size, buf, rest, taken>>
  BY DEF CountInv, Write, Goes
<1>2. size[p] \in Nat /\ stage'[p] = "written"
  BY <1>1 DEF TypeOK
<1>3. SUFFICES ASSUME size[p] <= Room
               PROVE  w'[p] = -1 \/ (w'[p] = size[p] /\ rest[p] = 0 /\ sent'[p] = Whole(p))
  BY <1>1, <1>2 DEF AtOnce, Whole
<1>4. buf[p] = 0 /\ rest[p] = 0 /\ sent[p] = <<>> /\ taken[p] = 0
  BY <1>1, <1>3 DEF AtOnce, Fresh
<1>5. Len(sent[p]) = 0 /\ Left(p) = size[p] /\ Free(p) = Room
  BY <1>2, <1>4, PipeHasRoom DEF Left, Free
<1>6. Lengths(p) = {size[p]}
  BY <1>3, <1>5 DEF Lengths
<1>7. CASE WriteFails(p)
  BY <1>1, <1>7 DEF WriteFails, TypeOK
<1>8. CASE Writes(p, [k \in 1..size[p] |-> buf[p] + k])
  <2>1. sent[p] \o [k \in 1..size[p] |-> buf[p] + k] = Whole(p)
    BY <1>2, <1>4, FirstPiece
  <2>2. Len([k \in 1..size[p] |-> buf[p] + k]) = size[p]
    BY <1>2, <1>4, Pieces
  <2> DEFINE bytes == [k \in 1..size[p] |-> buf[p] + k]
  <2> HIDE DEF bytes
  <2>3. sent'[p] = sent[p] \o bytes /\ w'[p] = Len(bytes)
    BY <1>1, <1>8 DEF Writes, TypeOK, bytes
  <2> QED BY <1>4, <2>1, <2>2, <2>3 DEF bytes
<1>9. ~WriteFreed(p)
  BY <1>4 DEF WriteFreed
<1> QED BY <1>6, <1>7, <1>8, <1>9 DEF Write

LEMMA CallbackAtOnce ==
    ASSUME CountInv, NEW p \in Pastes, AtOnce(p), Callback(p)
    PROVE  AtOnce(p)'
<1>1. /\ TypeOK /\ stage[p] = "written"
      /\ UNCHANGED <<size, w, sent, taken>>
  BY DEF CountInv, Callback, Continue, Goes
<1>2. SUFFICES ASSUME size[p] <= Room
               PROVE  stage'[p] = "failed" \/ (stage'[p] = "ended" /\ sent[p] = Whole(p))
  BY <1>1 DEF AtOnce, Whole
<1>3. w[p] = -1 \/ (w[p] = size[p] /\ rest[p] = 0 /\ sent[p] = Whole(p))
  BY <1>1, <1>2 DEF AtOnce
<1>4. ~More(p)
  BY <1>1, <1>3 DEF More, TypeOK
<1>5. stage' = [stage EXCEPT ![p] = IF w[p] = -1 THEN "failed" ELSE "ended"]
  BY <1>4 DEF Callback, Continue, Goes
<1> QED BY <1>1, <1>3, <1>5 DEF TypeOK

LEMMA OtherStepsAtOnce ==
    ASSUME CountInv, NEW p \in Pastes, AtOnce(p), Ask(p) \/ Reads(p) \/ Leaves(p) \/ Send(p)
    PROVE  AtOnce(p)'
<1>1. TypeOK /\ Counts(p)
  BY DEF CountInv
<1>2. CASE Ask(p)
  BY <1>1, <1>2 DEF TypeOK, AtOnce, Ask, Goes, Whole
<1>3. CASE Reads(p)
  <2>1. ~(size[p] <= Room /\ stage[p] = "writing")
    BY <1>1, <1>3 DEF AtOnce, Fresh, Reads
  <2> QED BY <1>1, <1>3, <2>1 DEF AtOnce, Reads, Whole
<1>4. CASE Leaves(p)
  BY <1>4 DEF AtOnce, Leaves, Whole, Fresh
<1>5. CASE Send(p)
  <2>1. stage[p] = "asked" /\ Fresh(p) /\ UNCHANGED <<buf, rest, sent, taken>>
    BY <1>1, <1>5 DEF Send, Refuse, Goes, Counts
  <2>2. stage'[p] \in {"writing", "refused"}
    BY <1>1, <1>5 DEF Send, Refuse, Goes, TypeOK
  <2> QED BY <2>1, <2>2 DEF AtOnce, Fresh
<1> QED BY <1>2, <1>3, <1>4, <1>5

LEMMA AtOnceStep == ASSUME CountInv, AtOnceInv, [Next]_vars PROVE AtOnceInv'
<1>1. CASE UNCHANGED vars
  BY <1>1 DEF AtOnceInv, AtOnce, Fresh, Whole, vars, pastes
<1>2. ASSUME NEW e \in Entries, Update(e) PROVE AtOnceInv'
  BY <1>2 DEF AtOnceInv, AtOnce, Fresh, Whole, Update, pastes
<1>3. ASSUME NEW p \in Pastes, Ask(p) \/ Reads(p) \/ Leaves(p) \/ Dispatch(p)
      PROVE  AtOnceInv'
  <2>1. AtOnce(p)'
    BY <1>3, OtherStepsAtOnce, WriteAtOnce, CallbackAtOnce DEF Dispatch, AtOnceInv
  <2>2. ASSUME NEW q \in Pastes, q # p PROVE AtOnce(q)'
    <3>1. Same(q)
      BY <1>3, <2>2, OthersStay DEF CountInv
    <3> QED BY <3>1, OthersAtOnce DEF AtOnceInv
  <2> QED BY <2>1, <2>2 DEF AtOnceInv
<1> QED BY <1>1, <1>2, <1>3 DEF Next

\* Data that fits into an empty pipe is sent whole, once and with nothing after it,
\* whatever else is pasted, copied or closed meanwhile.
THEOREM SmallStaysWhole == Spec => []SmallIsWhole
<1>1. Init => CountInv /\ AtOnceInv
  BY CountInit, AtOnceInit
<1>2. CountInv /\ AtOnceInv /\ [Next]_vars => CountInv' /\ AtOnceInv'
  BY CountStep, AtOnceStep
<1>3. AtOnceInv => SmallIsWhole
  BY DEF AtOnceInv, AtOnce, SmallIsWhole
<1> QED BY <1>1, <1>2, <1>3, PTL DEF Spec

=============================================================================
