-------------------------- MODULE ClipporClipboard --------------------------
(***************************************************************************)
(* The clipboard of src/clippor-clipboard.c that several selections are    *)
(* connected to.  When one of them signals a new offer, the clipboard      *)
(* receives the data of each of its mime types through a pipe, one after   *)
(* the other, in callbacks of the main loop; once it has all of them, the  *)
(* other selections are made to offer the new entry too.                   *)
(*                                                                         *)
(* An entry is the set of its mime types, each with the copy that the data *)
(* was read from; the bytes themselves are of no interest here.            *)
(***************************************************************************)
EXTENDS WaylandSelection

CONSTANTS
    Allowed,    \* the mime types that the regexes of the configuration allow
    Stored,     \* the entries the database may hand out at the start, as copy 0
    Faults,     \* pipes, flushes and reads can fail
    Junk        \* what is found behind the end of a list of mime types

ASSUME AllowedAssumption == Allowed \subseteq Mimes /\ Junk \notin Mimes
ASSUME FaultsAssumption  == Faults \in BOOLEAN
ASSUME StoredAssumption  == Stored \subseteq SUBSET (Mimes \X {Client(0)})

VARIABLES
    conns,      \* cb->selections
    cbEntry,    \* cb->entry, {} for NULL
    cbCancel,   \* cb->cancellable: the id of a receive, 0 for NULL
    ctxs,       \* the ReceiveContexts, each with a read that is not answered
    stage,      \* how far the server has come: see Stages
    place,      \* where in conns an update of all selections is, 0 if none is
    cause       \* the selection that it was caused by, Nobody for NULL

received == <<cbEntry, cbCancel, ctxs, stage>>
walk     == <<conns, place, cause>>
cvars    == <<received, walk>>
vars  == <<wvars, cvars>>

-----------------------------------------------------------------------------
(* The start of the server.  Displays are started while the configuration is  *)
(* read, and roundtrips of that dispatch events.  The main loop that waits    *)
(* for the bus name runs idles and callbacks, but the displays have no source *)
(* in it yet.  Then the clipboard is given the database, and the displays     *)
(* their sources in the main loop that follows.                               *)

Stages == {"displays", "naming", "running"}

HasLoop   == stage # "displays"
HasEvents == stage # "naming"
Up        == stage = "running"

\* clippor_server_start_dbus
StartLoop ==
    /\ ~crashed /\ stage = "displays"
    /\ stage' = "naming"
    /\ UNCHANGED <<wvars, cbEntry, cbCancel, ctxs, walk>>

-----------------------------------------------------------------------------
(* clippor_clipboard_update_selections, one step for each selection.  All     *)
(* else that the program does waits until it is over; others need not.        *)

Busy == place # 0

UpdateSelections(src) == place' = 1 /\ cause' = src /\ UNCHANGED conns

\* One round of the loop.  Removing an inert selection moves the next one into
\* its place, which the loop then passes.
UpdateNext ==
    /\ place \in DOMAIN conns
    /\ place' = place + 1
    /\ \/ /\ active[conns[place]]
          /\ UpdateSelection(conns[place], cbEntry, cause)
          /\ UNCHANGED conns
       \/ /\ ~active[conns[place]]
          /\ conns' = RemoveAt(conns, place)
          /\ UNCHANGED <<entry, source, owner, evq>>
    /\ UNCHANGED <<lists, removed, left, offer, active, ownIdle, loop, received, cause>>

UpdatesDone ==
    /\ Busy /\ place > Len(conns)
    /\ place' = 0 /\ cause' = Nobody
    /\ UNCHANGED <<wvars, received, conns>>

\* clippor_clipboard_set_database, between the two main loops: what was received
\* in the first is replaced, with nothing if the database is empty.
LoadDatabase ==
    /\ ~crashed /\ stage = "naming" /\ ~Busy /\ batch = 0
    /\ stage' = "running"
    /\ \E e \in Stored :
        /\ cbEntry' = e
        /\ IF e # {} THEN UpdateSelections(Nobody) ELSE UNCHANGED walk
    /\ UNCHANGED <<wvars, cbCancel, ctxs>>

-----------------------------------------------------------------------------
(* selection_update: the start of a receive                                  *)

\* Mutant of NextAllowed: off by one.
NextButOne(list, n) == n - 1

NextAllowed(list, n) ==
    CHOOSE j \in n..(Len(list) + 1) :
        /\ j > Len(list) \/ list[j] \in Allowed
        /\ \A k \in n..(j - 1) : list[k] \notin Allowed

NewId == CHOOSE k \in 1..(Cardinality(ctxs) + 1) : \A x \in ctxs : x.id # k

\* Mutant of CancelCurrent: the receive that is going on is let be.
CancelNone == ctxs

\* The current receive is cancelled; its callback will be told.
CancelCurrent == {[x EXCEPT !.cancelled = @ \/ x.id = cbCancel] : x \in ctxs}

StartReceive(s, list, n) ==
    LET x == [id |-> NewId, sel |-> s, list |-> list, index |-> n,
              from |-> offer[s], got |-> {}, cancelled |-> FALSE] IN
    /\ ctxs' = CancelCurrent \cup {x}
    /\ cbCancel' = x.id

Offered(o) == IF o \in {Client(c) : c \in Copies} THEN lists[o[2]] ELSE <<>>

\* clippor_selection_handler_get_data_stream: a selection that is inert or cleared
\* has no offer to read from; the pipe or the flush of the request can fail.
HasStream(s) == offer[s] # Nobody
NoStream(s)  == ~HasStream(s) \/ Faults

\* An update idle: nothing happens if the offer is gone, has no mime types, or
\* if the pipe cannot be set up.  If no mime type of the list is allowed, the
\* one behind its end is asked for.
Update(s) ==
    /\ HasLoop /\ ~Busy /\ TakeUpdate(s)
    /\ batch > 0 \/ \A x \in ctxs : ~x.cancelled
    /\ LET list == Offered(offer[s])
           n == NextAllowed(list, 1) IN
       \/ /\ list = <<>> \/ NoStream(s)
          /\ UNCHANGED <<ctxs, cbCancel, crashed>>
       \/ /\ list # <<>>
          /\ IF n > Len(list) THEN StartReceive(s, Append(list, Junk), n)
             ELSE StartReceive(s, list, n)
          /\ UNCHANGED crashed
       \/ /\ list # <<>> /\ n > Len(list)
          /\ crashed' = TRUE
          /\ UNCHANGED <<ctxs, cbCancel>>
    /\ UNCHANGED <<compositor, selections, cbEntry, stage, walk>>

-----------------------------------------------------------------------------
(* selection_data_async_ready_callback                                       *)

\* Mutant of Bail: the clipboard keeps its cancellable.
BailOnly(x) == ctxs' = ctxs \ {x} /\ UNCHANGED cbCancel

\* The receive is over; the clipboard forgets it unless it has another one.
Bail(x) ==
    /\ ctxs' = ctxs \ {x}
    /\ cbCancel' = (IF cbCancel = x.id THEN 0 ELSE cbCancel)

Callback(x) == ~crashed /\ HasLoop /\ ~Busy /\ batch = 0 /\ x \in ctxs

\* The read was cancelled, or failed.
ReadFails(x) ==
    /\ Callback(x)
    /\ x.cancelled \/ Faults
    /\ Bail(x)
    /\ UNCHANGED <<wvars, cbEntry, stage, walk>>

WithData(x) == x.got \cup {<<x.list[x.index], x.from>>}

\* End of file on a mime type that is not the last one that is allowed: the
\* next is asked for, from the offer that the selection has now.
NextMimeType(x) ==
    /\ Callback(x) /\ ~x.cancelled
    /\ LET n == NextAllowed(x.list, x.index + 1)
           y == [x EXCEPT !.got = WithData(x), !.index = n, !.from = offer[x.sel]] IN
       /\ n <= Len(x.list)
       /\ \/ /\ HasStream(x.sel)
             /\ ctxs' = (ctxs \ {x}) \cup {y}
             /\ UNCHANGED cbCancel
          \/ NoStream(x.sel) /\ Bail(x)
    /\ UNCHANGED <<wvars, cbEntry, stage, walk>>

\* End of file on the last one: the entry is complete, becomes that of the
\* clipboard and goes to the other selections.  That the context is freed only
\* after these have it makes no difference: no callback runs in between.
Finish(x) ==
    /\ Callback(x) /\ ~x.cancelled
    /\ NextAllowed(x.list, x.index + 1) > Len(x.list)
    /\ cbEntry' = WithData(x)
    /\ UpdateSelections(x.sel)
    /\ Bail(x)
    /\ UNCHANGED <<wvars, stage>>

-----------------------------------------------------------------------------
Init == /\ WInit
        /\ conns \in SetToSeqs(Sels)
        /\ cbEntry = {}
        /\ cbCancel = 0
        /\ ctxs = {}
        /\ stage = "displays"
        /\ place = 0 /\ cause = Nobody

Own(s) == /\ HasLoop /\ ~Busy /\ batch = 0 /\ \A x \in ctxs : ~x.cancelled
          /\ OwnIdle(s)
          /\ UNCHANGED cvars

Program == \/ StartLoop \/ LoadDatabase
           \/ UpdateNext \/ UpdatesDone
           \/ HasEvents /\ ~Busy /\ Events /\ UNCHANGED cvars
           \/ \E s \in Sels : Update(s) \/ Own(s)
           \/ \E x \in ctxs : ReadFails(x) \/ NextMimeType(x) \/ Finish(x)

Next == Program \/ (Others /\ UNCHANGED cvars)

Spec == Init /\ [][Next]_vars

\* The main loop goes on, events arrive, and a client that is asked for data
\* sends it or closes the pipe.
FairSpec == Spec /\ WF_vars(Program)

-----------------------------------------------------------------------------
(* Properties                                                                *)

Entries == SUBSET ((Mimes \cup {Junk}) \X Owners)
Event   == ({"selection", "cancelled"} \X Sels \X Owners) \cup ({"removed"} \X Seats \X {Nobody})
Receive == [id: Nat \ {0}, sel: Sels, list: Seq(Mimes \cup {Junk}), index: Nat \ {0},
            from: Owners, got: Entries, cancelled: BOOLEAN]

TypeOK == /\ owner \in [Sels -> Owners]
          /\ lists \in Seq(Lists)
          /\ removed \in SUBSET Seats
          /\ left \in 0..MaxMoves
          /\ evq \in Seq(Event)
          /\ offer \in [Sels -> Owners]
          /\ source \in [Sels -> Nat]
          /\ entry \in [Sels -> Entries]
          /\ active \in [Sels -> BOOLEAN]
          /\ ownIdle \in [Sels -> BOOLEAN]
          /\ updates \in Seq(Sels)
          /\ batch \in 0..Len(updates)
          /\ crashed \in BOOLEAN
          /\ conns \in Seq(Sels)
          /\ cbEntry \in Entries
          /\ cbCancel \in Nat
          /\ stage \in Stages
          /\ place \in Nat
          /\ cause \in Sels \cup {Nobody}
          /\ \A x \in ctxs : x \in Receive /\ x.index <= Len(x.list)

\* However many receives wait for their callback, at most one of them was not
\* cancelled, and it is the one whose cancellable the clipboard has: otherwise
\* the next read of a callback, which takes the clipboard's, could not be
\* cancelled together with its own receive.
OneReceive == \A x \in ctxs : ~x.cancelled => x.id = cbCancel

\* A callback clears the clipboard's cancellable only when it is its own: there
\* is always a receive that answers to it.
CancellableIsLive == cbCancel = 0 \/ \E x \in ctxs : x.id = cbCancel

\* The program never reads from an offer of its own, which would be answered
\* by the very thread that waits for the data.
NoOwnOffer == /\ \A s \in Sels : ~IsOurs(offer[s])
              /\ \A x \in ctxs : ~IsOurs(x.from)

\* Everything has arrived and nothing is pending.
Quiet == /\ Up /\ ~crashed /\ ~Busy
         /\ evq = <<>> /\ updates = <<>> /\ ctxs = {}
         /\ \A s \in Sels : ~ownIdle[s]

\* The point of the program: once things have settled, a selection is not left
\* empty while the clipboard holds an entry, whichever clients have gone, been
\* cancelled or failed to send.
Persists == Quiet /\ cbEntry # {} => \A s \in Sels : active[s] => owner[s] # Nobody

\* And what the program offers in a selection is the clipboard's entry, if it has
\* one: loading an empty database takes an entry from the clipboard that it had
\* received before, and leaves it with the selections.
OffersHeld == Quiet /\ cbEntry # {} => \A s \in Sels : active[s] /\ IsOurs(owner[s]) => entry[s] = cbEntry

\* A selection knows when things have settled whether it is the source, and by
\* which of the sources it made, although a source is told that it was replaced
\* when the next one is long in place.
KnowsSource ==
    Quiet => \A s \in Sels : active[s] =>
        source[s] = (IF IsOurs(owner[s]) THEN owner[s][2] ELSE 0)

\* What a receive brings never takes the clipboard back to an older copy, although
\* copies of several selections are announced, cancelled and read in any order: no
\* data of the new entry is older than all data of the entry that it replaces.  Only
\* loading the database does, which is older than what was received before it.
CopiesOf(e)   == {p[2][2] : p \in e}
NeverGoesBack ==
    [][cbEntry # {} /\ stage' = stage =>
         \A d \in CopiesOf(cbEntry') : \E c \in CopiesOf(cbEntry) : c <= d]_cbEntry

\* When the others stop, so does the program: the selections it sets do not make
\* it set others for ever.
Settles == <>[](Quiet \/ crashed)

-----------------------------------------------------------------------------
(* What comments and assertions of the source say and the code does not do   *)

\* clippor-clipboard.c:254 "Called when we received all data for every mime type
\* for the new selection": the data of an entry is from one copy.
OneCopy == \A p, q \in cbEntry : p[2] = q[2]

\* wayland-seat.c:382 "g_assert(WAYLAND_IS_SEAT(self))", reached from a selection
\* of which wayland-selection.c:91 says that "any calls on it will be ignored".
InertIsQuiet == [][\A s \in Sels : OwnIdle(s) /\ ~active[s] => ~crashed']_vars

=============================================================================
