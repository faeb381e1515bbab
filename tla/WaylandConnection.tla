------------------------- MODULE WaylandConnection -------------------------
(***************************************************************************)
(* A connection to a compositor: src/wayland/wayland-connection.c and the  *)
(* creation of seats in src/wayland/wayland-seat.c.  The start does a      *)
(* roundtrip; the handler of a seat's global, which runs inside of it or   *)
(* inside the main loop, does another one to get the name of the seat, and *)
(* that one dispatches the events behind the global, so roundtrips nest.   *)
(* A seat that has its roundtrip asks for its data device, whose first     *)
(* events come by the same wire; what they do is in WaylandSelection, here *)
(* they matter because they end a poll.  After the start a GSource reads   *)
(* and dispatches in the main loop.                                        *)
(*                                                                         *)
(* libwayland-client is external: one thread, one queue, a count of the    *)
(* readers that prepared and did not read or cancel yet, and an error that *)
(* stays.  A thread that reads while the count says that there are other   *)
(* readers waits for them.                                                 *)
(***************************************************************************)
EXTENDS Integers, Sequences, FiniteSets, SequencesExt

CONSTANTS
    Seats,    \* the globals of seats, by their numerical names
    Manager,  \* the global of the data control manager
    Start,    \* stands for a seat in the roundtrip of the start
    MaxFails  \* bound: flushes that fail inside a dispatch

ASSUME NamesDiffer == Manager \notin Seats /\ Start \notin Seats
ASSUME FailsBound == MaxFails \in Nat
ASSUME SeatsFinite == IsFiniteSet(Seats)

VARIABLES
    plugged,  \* compositor: seats that it has now
    gone,     \* compositor: seats that it had
    told,     \* compositor: the registry was asked for
    requests, \* requests on their way to the compositor
    wire,     \* events on their way to the program
    closed,   \* the socket is closed or broken
    queue,    \* libwayland: events that were read and not dispatched
    readers,  \* libwayland: reader_count
    broken,   \* libwayland: last_error is set
    phase,    \* what the connection does outside of any roundtrip
    stack,    \* the roundtrips that are going on, the innermost one last
    table,    \* gobjects.seats
    manager,  \* gobjects has a data control manager
    leaks,    \* flushes that failed inside a dispatch
    missed    \* seats whose removal was dispatched while they were created

compositor == <<plugged, gone, told, requests, wire, closed>>
library    == <<queue, readers, broken>>
program    == <<phase, stack, table, manager, leaks, missed>>
vars       == <<compositor, library, program>>

-----------------------------------------------------------------------------
(* Events, requests and roundtrips                                           *)

Global(g)    == <<"global", g>>
Removed(s)   == <<"global_remove", s>>
Name(s)      == <<"name", s>>
Done(f)      == <<"done", f>>
Selection(s) == <<"selection", s>>

GetRegistry  == <<"get_registry", Start>>
Bind(s)      == <<"bind", s>>
Sync(f)      == <<"sync", f>>
GetDevice(s) == <<"get_data_device", s>>

\* A roundtrip: the seat it is for, where its wayland_connection_dispatch is,
\* whether its done event was dispatched, and whether the seat has its name.
Roundtrip(f) == [for |-> f, at |-> "prepare", done |-> FALSE, named |-> FALSE]

Top       == stack[Len(stack)]
Running   == {stack[n].for : n \in DOMAIN stack}
At(place) == stack # <<>> /\ Top.at = place
GoTo(place) == stack' = [stack EXCEPT ![Len(stack)].at = place]

Init == /\ plugged \in SUBSET Seats
        /\ gone = {}
        /\ told = FALSE
        /\ requests = <<>> /\ wire = <<>> /\ queue = <<>>
        /\ closed = FALSE /\ broken = FALSE
        /\ readers = 0 /\ leaks = 0
        /\ phase = "new"
        /\ stack = <<>>
        /\ table = {} /\ missed = {}
        /\ manager = FALSE

-----------------------------------------------------------------------------
(* The compositor                                                            *)

Announce(s) == IF told THEN Append(wire, s) ELSE wire

Plug(s) == /\ ~closed /\ s \notin plugged \cup gone
           /\ plugged' = plugged \cup {s}
           /\ wire' = Announce(Global(s))
           /\ UNCHANGED <<gone, told, requests, closed, library, program>>

Unplug(s) == /\ ~closed /\ s \in plugged
             /\ plugged' = plugged \ {s}
             /\ gone' = gone \cup {s}
             /\ wire' = Announce(Removed(s))
             /\ UNCHANGED <<told, requests, closed, library, program>>

\* The next request is served.  Globals are announced in any order, and a seat
\* that has gone does not send its name any more.
Served == ~closed /\ requests # <<>> /\ requests' = Tail(requests)

ServeRegistry ==
    /\ Served /\ Head(requests) = GetRegistry
    /\ told' = TRUE
    /\ \E globals \in SetToSeqs(plugged \cup {Manager}) :
          wire' = wire \o [n \in DOMAIN globals |-> Global(globals[n])]
    /\ UNCHANGED <<plugged, gone, closed, library, program>>

ServeBind(s) ==
    /\ Served /\ Head(requests) = Bind(s)
    /\ wire' = IF s \in plugged THEN Append(wire, Name(s)) ELSE wire
    /\ UNCHANGED <<plugged, gone, told, closed, library, program>>

ServeSync(f) ==
    /\ Served /\ Head(requests) = Sync(f)
    /\ wire' = Append(wire, Done(f))
    /\ UNCHANGED <<plugged, gone, told, closed, library, program>>

\* The selections that the seat has are told to its new data device.
ServeDevice(s) ==
    /\ Served /\ Head(requests) = GetDevice(s)
    /\ wire' = IF s \in plugged THEN Append(wire, Selection(s)) ELSE wire
    /\ UNCHANGED <<plugged, gone, told, closed, library, program>>

Close == /\ ~closed /\ closed' = TRUE
         /\ UNCHANGED <<plugged, gone, told, requests, wire, library, program>>

-----------------------------------------------------------------------------
(* libwayland: reading events                                                *)

PrepareRead == queue = <<>> /\ readers' = readers + 1
CancelRead  == readers' = readers - 1

\* wl_display_read_events, when the socket has events ...
ReadEvents == /\ wire # <<>> /\ ~broken /\ readers = 1
              /\ readers' = 0
              /\ queue' = queue \o wire /\ wire' = <<>>
              /\ UNCHANGED <<broken, plugged, gone, told, requests, closed>>

\* ... when the count says that another reader has yet to come ...
ReadWaits == /\ ~broken /\ readers # 1
             /\ readers' = readers - 1
             /\ UNCHANGED <<queue, broken, compositor>>

\* ... and when it fails: the reader is not counted any more, and both callers
\* cancel it once more.
ReadFails == /\ closed
             /\ broken \/ (readers = 1 /\ wire = <<>>)
             /\ readers' = readers - 2
             /\ broken' = TRUE
             /\ UNCHANGED <<queue, compositor>>

-----------------------------------------------------------------------------
(* The end of a roundtrip                                                    *)

\* wayland_connection_stop and wayland_connection_finalize
Stopped == /\ phase' = "stopped"
           /\ table' = {} /\ manager' = FALSE
           /\ UNCHANGED <<leaks, missed>>

\* A seat asks for its data device as soon as it has a manager, with a name or not.
AskForDevice ==
    requests' = IF Top.for \in Seats /\ manager
                THEN Append(requests, GetDevice(Top.for)) ELSE requests

\* Mutant of Succeed: whatever the roundtrip was for is put into the table.
SucceedAll == /\ stack' = Front(stack)
              /\ phase' = IF Top.for = Start THEN "started" ELSE phase
              /\ table' = IF manager THEN table \cup {Top.for} ELSE table
              /\ AskForDevice
              /\ UNCHANGED <<manager, missed>>

\* wayland_connection_roundtrip returns TRUE: the start is over, or the seat is
\* finished and put into the table.  Without a manager or a name it is dropped.
Succeed == /\ stack' = Front(stack)
           /\ phase' = IF Top.for = Start THEN "started" ELSE phase
           /\ table' = IF Top.for \in Seats /\ manager /\ Top.named
                       THEN table \cup {Top.for} ELSE table
           /\ AskForDevice
           /\ UNCHANGED <<manager, missed>>

\* It returns FALSE: the seat is dropped, or the start fails.  A start that fails
\* disconnects, but seats and managers that it has got by then are kept.
Fail == /\ stack' = Front(stack)
        /\ phase' = IF Top.for = Start THEN "failed" ELSE phase
        /\ UNCHANGED <<table, manager, missed>>

-----------------------------------------------------------------------------
(* wayland_connection_dispatch, for the innermost roundtrip                  *)

\* Events that are in the queue are dispatched first; else the connection is
\* flushed and polled.
Prepare == /\ At("prepare")
           /\ \/ queue # <<>> /\ GoTo("drain") /\ UNCHANGED readers
              \/ PrepareRead /\ GoTo("poll")
           /\ UNCHANGED <<queue, broken, compositor, phase, table, manager, leaks, missed>>

\* The flush fails after the read was prepared, and nothing cancels it.
FlushFails == /\ At("prepare") /\ leaks < MaxFails
              /\ PrepareRead
              /\ leaks' = leaks + 1
              /\ Fail
              /\ UNCHANGED <<queue, broken, compositor>>

\* Mutant of PollFails: the read that was prepared is not cancelled.
PollFailsOnly ==
    /\ At("poll") /\ wire = <<>> /\ ~closed
    /\ Fail
    /\ UNCHANGED <<readers, leaks, queue, broken, compositor>>

\* Nothing arrives within the connection's timeout.
PollFails == /\ At("poll") /\ wire = <<>> /\ ~closed
             /\ CancelRead /\ Fail
             /\ UNCHANGED <<leaks, queue, broken, compositor>>

Read == /\ At("poll")
        /\ \/ /\ ReadEvents /\ GoTo("pending")
              /\ UNCHANGED <<phase, table, manager, missed>>
           \/ /\ wire # <<>> \/ closed
              /\ ReadWaits /\ GoTo("blocked")
              /\ UNCHANGED <<phase, table, manager, missed>>
           \/ ReadFails /\ Fail
        /\ UNCHANGED leaks

\* wl_display_dispatch_pending is through.  In the loop that prepares it is tried
\* again; after the read it is seen whether the roundtrip is done, or else
\* whether time is up, which may be as soon as some microseconds have passed.
Dispatched ==
    /\ \/ At("pending") /\ ~broken /\ queue = <<>> /\ Top.done /\ Succeed
       \/ /\ \/ (At("drain") \/ At("pending")) /\ broken
             \/ At("pending") /\ ~broken /\ queue = <<>> /\ ~Top.done
          /\ Fail
          /\ UNCHANGED requests
       \/ /\ \/ At("drain") /\ ~broken /\ queue = <<>>
             \/ At("pending") /\ ~broken /\ queue = <<>> /\ ~Top.done
          /\ GoTo("prepare")
          /\ UNCHANGED <<phase, table, manager, missed, requests>>
    /\ UNCHANGED <<leaks, library, plugged, gone, told, wire, closed>>

-----------------------------------------------------------------------------
(* Events, dispatched by the innermost roundtrip or by the main loop         *)

Dispatching == IF stack = <<>> THEN phase = "dispatch" ELSE Top.at \in {"drain", "pending"}

Take(e) == /\ Dispatching /\ ~broken
           /\ queue # <<>> /\ Head(queue) = e
           /\ queue' = Tail(queue)
           /\ UNCHANGED <<readers, broken, plugged, gone, told, wire, closed, phase, leaks>>

BindManager == /\ Take(Global(Manager))
               /\ manager' = TRUE
               /\ UNCHANGED <<requests, stack, table, missed>>

\* wayland_seat_new, up to its roundtrip
NewSeat(s) == /\ Take(Global(s))
              /\ requests' = requests \o <<Bind(s), Sync(s)>>
              /\ stack' = Append(stack, Roundtrip(s))
              /\ UNCHANGED <<table, manager, missed>>

\* Mutant of RemoveSeat: the loop over the table ends before the seat.
RemoveNoSeat(s) ==
    /\ Take(Removed(s))
    /\ missed' = missed \cup ({s} \cap Running)
    /\ UNCHANGED <<requests, stack, table, manager>>

\* The seat is taken out of the table.  A seat that is being created is not in
\* the table yet, and its removal is lost.
RemoveSeat(s) == /\ Take(Removed(s))
                 /\ table' = table \ {s}
                 /\ missed' = missed \cup ({s} \cap Running)
                 /\ UNCHANGED <<requests, stack, manager>>

GetName(s) ==
    /\ Take(Name(s))
    /\ stack' = [n \in DOMAIN stack |->
                    [stack[n] EXCEPT !.named = @ \/ stack[n].for = s]]
    /\ UNCHANGED <<requests, table, manager, missed>>

\* Mutant of GetDone: all roundtrips share one flag, that of the innermost.
GetDoneShared(f) ==
    /\ Take(Done(f))
    /\ stack' = [n \in DOMAIN stack |->
                    [stack[n] EXCEPT !.done = @ \/ n = Len(stack)]]
    /\ UNCHANGED <<requests, table, manager, missed>>

\* A done event for a roundtrip that is over already has no callback any more.
GetDone(f) ==
    /\ Take(Done(f))
    /\ stack' = [n \in DOMAIN stack |->
                    [stack[n] EXCEPT !.done = @ \/ stack[n].for = f]]
    /\ UNCHANGED <<requests, table, manager, missed>>

\* The seat's data device hands it to the seat's selections.
GetSelection(s) == /\ Take(Selection(s))
                   /\ UNCHANGED <<requests, stack, table, manager, missed>>

-----------------------------------------------------------------------------
(* The start, and the source in the main loop                                *)

Connect == /\ phase = "new" /\ stack = <<>> /\ ~closed
           /\ phase' = "starting"
           /\ requests' = <<GetRegistry, Sync(Start)>>
           /\ stack' = <<Roundtrip(Start)>>
           /\ UNCHANGED <<plugged, gone, told, wire, closed, library, table, manager, leaks, missed>>

InstallSource == /\ phase = "started"
                 /\ phase' = "prepare"
                 /\ UNCHANGED <<stack, table, manager, leaks, missed, library, compositor>>

\* source_prepare: a flush that fails cancels the read.
SourcePrepare ==
    /\ phase = "prepare"
    /\ \/ queue # <<>> /\ phase' = "dispatch" /\ UNCHANGED readers
       \/ PrepareRead /\ phase' = "check"
       \/ queue = <<>> /\ phase' = "error" /\ UNCHANGED readers
    /\ UNCHANGED <<stack, table, manager, leaks, missed, queue, broken, compositor>>

\* Mutant of SourceCheck: the read is kept for the next iteration.
SourceCheckKeeps ==
    /\ phase = "check"
    /\ \/ ReadEvents /\ phase' = "dispatch"
       \/ ReadWaits /\ wire # <<>> /\ phase' = "blocked"
       \/ closed /\ CancelRead /\ phase' = "error" /\ UNCHANGED <<queue, broken, compositor>>
       \/ ReadFails /\ phase' = "error"
       \/ /\ wire = <<>> /\ ~closed /\ phase' = "prepare"
          /\ UNCHANGED <<readers, queue, broken, compositor>>
    /\ UNCHANGED <<stack, table, manager, leaks, missed>>

\* source_check: after the poll, for whatever reason it ended.
SourceCheck ==
    /\ phase = "check"
    /\ \/ ReadEvents /\ phase' = "dispatch"
       \/ ReadWaits /\ wire # <<>> /\ phase' = "blocked"
       \/ closed /\ CancelRead /\ phase' = "error" /\ UNCHANGED <<queue, broken, compositor>>
       \/ ReadFails /\ phase' = "error"
       \/ /\ wire = <<>> /\ ~closed /\ phase' = "prepare"
          /\ CancelRead /\ UNCHANGED <<queue, broken, compositor>>
    /\ UNCHANGED <<stack, table, manager, leaks, missed>>

\* Mutant of SourceDispatch: an error does not remove the source.
SourceDispatchGoesOn ==
    /\ stack = <<>>
    /\ \/ phase = "dispatch" /\ (broken \/ queue = <<>>)
       \/ phase = "error"
    /\ phase' = "prepare"
    /\ UNCHANGED <<stack, table, manager, leaks, missed, library, compositor>>

\* source_dispatch, once there is no event left or an error was seen.
SourceDispatch ==
    /\ stack = <<>>
    /\ \/ /\ phase = "dispatch" /\ ~broken /\ queue = <<>>
          /\ phase' = "prepare"
          /\ UNCHANGED <<table, manager, leaks, missed>>
       \/ phase = "error" /\ Stopped
       \/ phase = "dispatch" /\ broken /\ Stopped
    /\ UNCHANGED <<stack, library, compositor>>

\* The last reference goes, between two iterations or after a start that failed.
Finalize == /\ phase \in {"started", "prepare", "failed"}
            /\ Stopped
            /\ UNCHANGED <<stack, library, compositor>>

-----------------------------------------------------------------------------
Compositor == \/ \E s \in Seats : Plug(s) \/ Unplug(s) \/ ServeBind(s) \/ ServeDevice(s)
              \/ \E f \in Seats \cup {Start} : ServeSync(f)
              \/ ServeRegistry \/ Close

Dispatch == \/ Prepare \/ FlushFails \/ PollFails \/ Read \/ Dispatched
            \/ BindManager
            \/ \E s \in Seats : NewSeat(s) \/ RemoveSeat(s) \/ GetName(s) \/ GetSelection(s)
            \/ \E f \in Seats \cup {Start} : GetDone(f)
            \/ SourcePrepare \/ SourceCheck \/ SourceDispatch

Next == Compositor \/ Dispatch \/ Connect \/ InstallSource \/ Finalize

Spec == Init /\ [][Next]_vars

\* The one thread goes on with what it has begun, and a poll ends at its timeout.
\* Nothing is assumed of the compositor, or of when the connection is used.
FairSpec == Spec /\ WF_vars(Dispatch)

-----------------------------------------------------------------------------
(* Properties                                                                *)

Places == {"prepare", "poll", "drain", "pending", "blocked"}
Phases == {"new", "starting", "started", "failed", "prepare", "check", "dispatch",
           "error", "blocked", "stopped"}
Events   == {"global", "global_remove", "name", "done", "selection"}
               \X (Seats \cup {Manager, Start})
Requests == {GetRegistry} \cup ({"bind", "sync", "get_data_device"} \X (Seats \cup {Start}))

\* Every variable has its type.
TypeOK == /\ plugged \in SUBSET Seats /\ gone \in SUBSET Seats
          /\ told \in BOOLEAN /\ closed \in BOOLEAN /\ broken \in BOOLEAN
          /\ requests \in Seq(Requests)
          /\ wire \in Seq(Events) /\ queue \in Seq(Events)
          /\ readers \in Int /\ leaks \in 0..MaxFails
          /\ phase \in Phases
          /\ stack \in Seq([for : Seats \cup {Start}, at : Places,
                            done : BOOLEAN, named : BOOLEAN])
          /\ table \in SUBSET Seats /\ missed \in SUBSET Seats
          /\ manager \in BOOLEAN

Preparing == IF At("poll") \/ phase = "check" THEN 1 ELSE 0

\* Every read that is prepared is read or cancelled exactly once, by whichever of
\* the nested roundtrips and the source prepared it.  The exceptions: a flush
\* that fails inside a dispatch leaves its read prepared for ever, and a read
\* that fails is cancelled twice, which nobody notices since the error stays.
ReadsBalanced ==
    \/ readers = leaks + Preparing
    \/ broken /\ readers = leaks - 1

\* The one thread never waits in libwayland for a reader that is not there, unless
\* a flush that failed left its read prepared: then it waits for itself, for ever.
WaitsForLeakOnly == At("blocked") \/ phase = "blocked" => leaks > 0

\* The program catches up: no event or request is on its way.
Quiet == /\ phase \in {"started", "prepare", "check"}
         /\ requests = <<>> /\ wire = <<>> /\ queue = <<>>

\* When the program has caught up, every seat in the table is one that the
\* compositor has, except those whose removal was dispatched by a roundtrip
\* inside their own creation.
TableFollows == Quiet => table \subseteq plugged \cup missed

\* A roundtrip is never done before one that it is nested in: requests are
\* served, and events dispatched, in the order they were made.
DoneInOrder == \A i, j \in DOMAIN stack : i < j /\ stack[j].done => stack[i].done

\* Every roundtrip ends, however the compositor behaves, unless the read that a
\* failed flush left behind makes the thread wait for itself.
RoundtripEnds == stack # <<>> ~> stack = <<>> \/ leaks > 0

\* The main loop notices that the compositor is gone and stops the connection.
DeadIsNoticed ==
    closed /\ phase \in {"prepare", "check", "dispatch"} ~> phase = "stopped" \/ leaks > 0

\* wayland-connection.c:601 "Dispatch events until we get the done event or if
\* timeout is reached": a seat whose done event and name have arrived is created.
DoneIsEnough ==
    [][\A s \in Seats :
          /\ stack # <<>> /\ stack' = Front(stack)
          /\ Top.for = s /\ Top.done /\ Top.named /\ manager
          /\ ~closed /\ leaks' = leaks
          => s \in table']_vars

=============================================================================
