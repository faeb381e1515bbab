-------------------------- MODULE WaylandSelection --------------------------
(***************************************************************************)
(* The selections of src/wayland/wayland-selection.c and the compositor    *)
(* that they talk to.  A selection follows the offers that the compositor  *)
(* announces, becomes the source client itself when it is told to or when  *)
(* nobody is, and defers both to idle callbacks of the main loop.          *)
(*                                                                         *)
(* The compositor and the other clients are external.  Events travel to    *)
(* the program in the order they were sent and may be on their way for any *)
(* time.  A request of the program takes effect at once: nothing that the  *)
(* others do in between can be told from its having been done before.      *)
(***************************************************************************)
EXTENDS Naturals, FiniteSets, Sequences, SequencesExt

CONSTANTS
    Sels,       \* selections: each seat has a regular and a primary one
    Seats,      \* seats of the compositor
    SeatOf,     \* the seat of each selection
    Mimes,      \* mime types
    Lists,      \* the lists of mime types that clients offer
    MaxMoves    \* bound: how often other clients and seats do something

ASSUME SelsAssumption  == IsFiniteSet(Sels) /\ SeatOf \in [Sels -> Seats]
ASSUME ListsAssumption == Lists \subseteq Seq(Mimes)
ASSUME MovesAssumption == MaxMoves \in Nat

VARIABLES
    owner,      \* the source client of each selection in the compositor
    lists,      \* what clients copied so far: the mime types of each copy
    removed,    \* seats that the compositor has removed
    evq,        \* events on their way to the program
    left,       \* moves that are left to the others
    offer,      \* wsel->offer: whose offer it is, Nobody for NULL
    source,     \* wsel->source: a number, 0 for NULL
    entry,      \* the entry that is sent to clients that paste, {} for NULL
    active,     \* wsel->active
    ownIdle,    \* wsel->idle_source_id: clipboard_own is pending
    updates,    \* selections whose send_update_signal is pending, oldest first
    batch,      \* how many of them this iteration of the main loop still runs
    crashed     \* an assertion has failed, or memory was read out of bounds

compositor == <<owner, lists, removed, evq, left>>
selections == <<offer, source, entry, active, ownIdle>>
loop       == <<updates, batch, crashed>>
wvars      == <<compositor, selections, loop>>

-----------------------------------------------------------------------------
(* Who owns a selection, and the events about it                             *)

Nobody     == <<"nobody", 0>>
Client(c)  == <<"client", c>>       \* the client that made copy c
Clippor(k) == <<"clippor", k>>      \* this program, by its source number k

ASSUME NobodyAssumption == Nobody \notin Sels

Copies    == 1..Len(lists)
IsOurs(o) == o[1] = "clippor"

SelectionEvent(s, o) == <<"selection", s, o>>
CancelledEvent(s, o) == <<"cancelled", s, o>>
RemovedEvent(t)      == <<"removed", t, Nobody>>

\* The compositor tells a source that it was replaced, then everyone who it is
\* now.  Only the program's own sources are of interest here.
NewOwnerEvents(s, o) ==
    IF IsOurs(owner[s]) THEN <<CancelledEvent(s, owner[s]), SelectionEvent(s, o)>>
    ELSE <<SelectionEvent(s, o)>>

SetOwner(s, o) == /\ owner' = [owner EXCEPT ![s] = o]
                  /\ evq' = evq \o NewOwnerEvents(s, o)

Present(s) == SeatOf[s] \notin removed

-----------------------------------------------------------------------------
(* What others do                                                            *)

Move == left > 0 /\ left' = left - 1

\* A client copies: it becomes the source.
Copy(s, list) ==
    /\ Move /\ Present(s)
    /\ lists' = Append(lists, list)
    /\ SetOwner(s, Client(Len(lists) + 1))
    /\ UNCHANGED <<removed, selections, loop>>

\* A source client goes away, or some client clears the selection.
Clear(s) ==
    /\ Move /\ Present(s) /\ owner[s] # Nobody
    /\ SetOwner(s, Nobody)
    /\ UNCHANGED <<lists, removed, selections, loop>>

\* A seat is unplugged: requests for its device are ignored from now on.
RemoveSeat(t) ==
    /\ Move /\ t \notin removed
    /\ removed' = removed \cup {t}
    /\ owner' = [s \in Sels |-> IF SeatOf[s] = t THEN Nobody ELSE owner[s]]
    /\ evq' = Append(evq, RemovedEvent(t))
    /\ UNCHANGED <<lists, selections, loop>>

-----------------------------------------------------------------------------
(* The program as a source client                                            *)

\* A proxy for a new source of s: its number is not used by another one that
\* the program or an event still knows.
NewSource(s) ==
    CHOOSE k \in 1..(Len(evq) + 3) :
        k \notin {source[s], owner[s][2]} \cup {evq[n][3][2] : n \in DOMAIN evq}

\* wayland_selection_own: the selection becomes the source of an entry, or is
\* cleared when there is none.  Requests for a removed seat are ignored.
BecomeSource(s, e) ==
    LET o == IF e = {} THEN Nobody ELSE Clippor(NewSource(s)) IN
    /\ source' = [source EXCEPT ![s] = o[2]]
    /\ IF Present(s) THEN SetOwner(s, o) ELSE UNCHANGED <<owner, evq>>

\* Mutant of UpdateSelection: the selection that an entry is from does not get it.
UpdateOther(s, e, src) ==
    IF s = src THEN UNCHANGED <<entry, source, owner, evq>>
    ELSE entry' = [entry EXCEPT ![s] = e] /\ BecomeSource(s, e)

\* clippor_selection_handler_update for an active selection: it takes the entry,
\* and becomes its source unless it is the selection that the entry is from.
UpdateSelection(s, e, src) ==
    /\ entry' = [entry EXCEPT ![s] = e]
    /\ IF s = src THEN UNCHANGED <<source, owner, evq>> ELSE BecomeSource(s, e)

\* Mutant of OwnIdle: the idle is not removed after it has run.
OwnAgain(s) ==
    /\ ~crashed /\ updates = <<>> /\ ownIdle[s]
    /\ offer[s] = Nobody /\ active[s]
    /\ UNCHANGED entry
    /\ BecomeSource(s, entry[s])
    /\ UNCHANGED <<lists, removed, left, offer, active, ownIdle, updates, batch, crashed>>

\* clipboard_own, at a priority below that of the update idles.  A selection
\* that became inert meanwhile has no seat any more: its assertion fails.
OwnIdle(s) ==
    /\ ~crashed /\ updates = <<>> /\ ownIdle[s]
    /\ ownIdle' = [ownIdle EXCEPT ![s] = FALSE]
    /\ UNCHANGED entry
    /\ \/ /\ offer[s] = Nobody /\ active[s]
          /\ BecomeSource(s, entry[s])
          /\ UNCHANGED crashed
       \/ /\ offer[s] = Nobody /\ ~active[s]
          /\ crashed' = TRUE
          /\ UNCHANGED <<source, owner, evq>>
       \/ /\ offer[s] # Nobody
          /\ UNCHANGED <<crashed, source, owner, evq>>
    /\ UNCHANGED <<lists, removed, left, offer, active, updates, batch>>

-----------------------------------------------------------------------------
(* Events                                                                    *)

Arrives(e) == /\ ~crashed /\ batch = 0
              /\ evq # <<>> /\ Head(evq) = e
              /\ evq' = Tail(evq)

\* Mutant of FromClippor: the mime type that marks own offers is not seen.
NotRecognised(o) == FALSE

\* wayland_data_offer_is_from_clippor: the offer has the mime type that
\* wayland_selection_own adds to those of the entry.
FromClippor(o) == IsOurs(o)

\* Mutant of NewOffer: the own idle only when the selection was empty before.
NewOfferNoIdle(s, o) ==
    /\ Arrives(SelectionEvent(s, o)) /\ active[s]
    /\ offer' = [offer EXCEPT ![s] = IF FromClippor(o) THEN Nobody ELSE o]
    /\ ownIdle' = [ownIdle EXCEPT ![s] = o = Nobody /\ offer[s] = Nobody /\ entry[s] # {}]
    /\ updates' = (IF o = Nobody \/ FromClippor(o) THEN updates ELSE Append(updates, s))
    /\ UNCHANGED <<owner, lists, removed, left, source, entry, active, batch, crashed>>

\* wayland_selection_new_offer
NewOffer(s, o) ==
    /\ Arrives(SelectionEvent(s, o)) /\ active[s]
    /\ offer' = [offer EXCEPT ![s] = IF FromClippor(o) THEN Nobody ELSE o]
    /\ ownIdle' = [ownIdle EXCEPT ![s] = o = Nobody /\ entry[s] # {}]
    /\ updates' = (IF o = Nobody \/ FromClippor(o) THEN updates ELSE Append(updates, s))
    /\ UNCHANGED <<owner, lists, removed, left, source, entry, active, batch, crashed>>

\* Mutant of Cancelled: the newest source is forgotten with any.
CancelledAny(s, o) ==
    /\ Arrives(CancelledEvent(s, o))
    /\ source' = [source EXCEPT ![s] = 0]
    /\ UNCHANGED <<owner, lists, removed, left, offer, entry, active, ownIdle, loop>>

\* data_source_listener_event_cancelled
Cancelled(s, o) ==
    /\ Arrives(CancelledEvent(s, o))
    /\ source' = [source EXCEPT ![s] = IF @ = o[2] THEN 0 ELSE @]
    /\ UNCHANGED <<owner, lists, removed, left, offer, entry, active, ownIdle, loop>>

\* wayland_seat_make_inert and wayland_selection_make_inert, when the removal
\* of the seat's global arrives.  The own idle of a selection stays attached.
MakeInert(t) ==
    /\ Arrives(RemovedEvent(t))
    /\ offer' = [s \in Sels |-> IF SeatOf[s] = t THEN Nobody ELSE offer[s]]
    /\ source' = [s \in Sels |-> IF SeatOf[s] = t THEN 0 ELSE source[s]]
    /\ active' = [s \in Sels |-> active[s] /\ SeatOf[s] # t]
    /\ UNCHANGED <<owner, lists, removed, left, entry, ownIdle, loop>>

\* One update idle runs.  All of them that were pending when the iteration
\* began run one after the other, before anything of another priority.
TakeUpdate(s) ==
    /\ ~crashed /\ updates # <<>> /\ Head(updates) = s
    /\ updates' = Tail(updates)
    /\ batch' = (IF batch = 0 THEN Len(updates) ELSE batch) - 1

-----------------------------------------------------------------------------
Owners == {Nobody} \cup ({"client", "clippor"} \X Nat)

WInit == /\ owner = [s \in Sels |-> Nobody]
         /\ lists = <<>>
         /\ removed = {}
         /\ evq \in {[n \in 1..Cardinality(Sels) |-> SelectionEvent(ss[n], Nobody)] :
                        ss \in SetToSeqs(Sels)}
         /\ left = MaxMoves
         /\ offer = [s \in Sels |-> Nobody]
         /\ source = [s \in Sels |-> 0]
         /\ entry = [s \in Sels |-> {}]
         /\ active = [s \in Sels |-> TRUE]
         /\ ownIdle = [s \in Sels |-> FALSE]
         /\ updates = <<>>
         /\ batch = 0
         /\ crashed = FALSE

Others == \/ \E s \in Sels, list \in Lists : Copy(s, list)
          \/ \E s \in Sels : Clear(s)
          \/ \E t \in Seats : RemoveSeat(t)

Events == \/ \E s \in Sels, o \in {evq[n][3] : n \in DOMAIN evq} : NewOffer(s, o) \/ Cancelled(s, o)
          \/ \E t \in Seats : MakeInert(t)

=============================================================================
