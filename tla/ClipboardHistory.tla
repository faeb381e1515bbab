-------------------------- MODULE ClipboardHistory --------------------------
(***************************************************************************)
(* The server of src/clippor-server.c from its start to its end, with the  *)
(* clipboards of src/clippor-clipboard.c on top of their database:         *)
(* selection_data_received stores and trims each entry that was received,  *)
(* set_database brings the newest one back when the server starts.  Before *)
(* that the server waits for its bus name in a main loop of its own, in    *)
(* which clipboards without a database may already receive.                *)
(*                                                                         *)
(* The steps of the two calls are those of ClipporDatabase; this module    *)
(* says when they are made, with which error pointer, and what the         *)
(* clipboards hold meanwhile.                                              *)
(***************************************************************************)
EXTENDS ClipporDatabase

VARIABLES
    proc,   \* the process: see Stages
    dbus,   \* "asked" for the name, has the "bus", the "name", or "nothing"
    loaded, \* labels whose clipboard has been given the database
    held,   \* cb->entry: the id of the entry each clipboard holds, or Null
    stage,  \* the call of selection_data_received that comes next or runs
    rcv,    \* the label of the clipboard that received
    gerr    \* its local error: "null", or "freed" and not reset

hist == <<proc, dbus, loaded, held, stage, rcv, gerr>>
all  == <<vars, hist>>

HistInit == /\ Init
            /\ proc = "naming"
            /\ dbus = "asked"
            /\ loaded = {}
            /\ held = [l \in Labels |-> Null]
            /\ stage = "none"
            /\ rcv = Null
            /\ gerr = "null"

-----------------------------------------------------------------------------
(* clippor_server_start_dbus: a main loop until the bus has answered         *)

OnBusAcquired == /\ dbus = "asked"
                 /\ dbus' = "bus"
                 /\ UNCHANGED <<vars, proc, loaded, held, stage, rcv, gerr>>

\* The loop that runs is quit: that of the start, and the server goes on without
\* the name too, or the main one.
Quits == proc' = IF proc = "naming" THEN "starting" ELSE "stopped"

OnNameAcquired == /\ dbus = "bus"
                  /\ dbus' = "name" /\ Quits
                  /\ UNCHANGED <<vars, loaded, held, stage, rcv, gerr>>

\* Mutant of OnNameLost: the loop is quit only if there was a bus.
OnNameLostOfBus == /\ proc \in {"naming", "running"} /\ stage = "none"
                   /\ dbus # "nothing"
                   /\ dbus' = "nothing"
                   /\ IF dbus = "asked" THEN UNCHANGED proc ELSE Quits
                   /\ UNCHANGED <<vars, loaded, held, stage, rcv, gerr>>

\* There is no bus, the name is taken, or it is lost later.
OnNameLost == /\ proc \in {"naming", "running"} /\ stage = "none"
              /\ dbus # "nothing"
              /\ dbus' = "nothing" /\ Quits
              /\ UNCHANGED <<vars, loaded, held, stage, rcv, gerr>>

HandleSignal == /\ proc = "running" /\ stage = "none"
                /\ proc' = "stopped"
                /\ UNCHANGED <<vars, dbus, loaded, held, stage, rcv, gerr>>

\* An update idle that was queued while the displays were started runs in this
\* loop; the clipboard has no database yet and only holds what it receives.
ReceiveEarly(l, i) ==
    /\ proc = "naming"
    /\ LabelOf[i] = l
    /\ i \notin Entries(db) /\ \A k \in Labels : held[k] # i
    /\ held' = [held EXCEPT ![l] = i]
    /\ UNCHANGED <<vars, proc, dbus, loaded, stage, rcv, gerr>>

-----------------------------------------------------------------------------
(* clippor_server_prepare and clippor_clipboard_set_database                 *)

\* Mutant of SetDatabase: an entry that was received before is kept.
SetDatabaseKeeps(l) ==
    /\ proc = "starting" /\ l \notin loaded
    /\ \/ /\ AtIndex(db, l, 0) = {} \/ held[l] # Null
          /\ loaded' = loaded \cup {l}
          /\ UNCHANGED <<proc, held>>
       \/ /\ held[l] = Null
          /\ \E i \in AtIndex(db, l, 0) :
                /\ Loadable(db, i)
                /\ held' = [held EXCEPT ![l] = i]
                /\ loaded' = loaded \cup {l}
                /\ UNCHANGED proc
    /\ UNCHANGED <<vars, dbus, stage, rcv, gerr>>

\* The newest entry of the label is loaded, in place of what the clipboard may
\* hold.  That there is none is not an error; that it cannot be read is one, and
\* the server does not start.
SetDatabase(l) ==
    /\ proc = "starting" /\ l \notin loaded
    /\ \/ /\ AtIndex(db, l, 0) = {}
          /\ held' = [held EXCEPT ![l] = Null]
          /\ loaded' = loaded \cup {l}
          /\ UNCHANGED proc
       \/ \E i \in AtIndex(db, l, 0) :
            \/ /\ Loadable(db, i)
               /\ held' = [held EXCEPT ![l] = i]
               /\ loaded' = loaded \cup {l}
               /\ UNCHANGED proc
            \/ ~Loadable(db, i) /\ proc' = "refused" /\ UNCHANGED <<held, loaded>>
    /\ UNCHANGED <<vars, dbus, stage, rcv, gerr>>

Started == /\ proc = "starting" /\ loaded = Labels
           /\ proc' = "running"
           /\ UNCHANGED <<vars, dbus, loaded, held, stage, rcv, gerr>>

-----------------------------------------------------------------------------
(* selection_data_received                                                   *)

\* BEGIN fails: the connection is still in the transaction of an earlier
\* call, or the statement fails like any other.
BeginFails == pc = "idle" /\ (intx \/ Faults) /\ UNCHANGED vars

\* The call ends, with TRUE or with an error.
Succeeds == Commit
Fails    == CommitFails \/ Rollback

\* All data of an entry with a new id has arrived: the clipboard holds it from
\* here on and starts to serialise it.
Receive(l, i, b) ==
    /\ proc = "running" /\ stage = "none"
    /\ LabelOf[i] = l
    /\ i \notin Entries(db) /\ \A k \in Labels : held[k] # i
    /\ held' = [held EXCEPT ![l] = i]
    /\ rcv' = l
    /\ \/ SerializeBegin(i, b) /\ stage' = "serialize" /\ gerr' = "null"
       \/ BeginFails /\ stage' = "trim" /\ gerr' = "freed"
    /\ UNCHANGED <<proc, dbus, loaded>>

\* The error is printed and freed, but the pointer keeps its value.
SerializeReturns ==
    /\ stage = "serialize" /\ stage' = "trim"
    /\ \/ Succeeds /\ UNCHANGED gerr
       \/ Fails /\ gerr' = "freed"
    /\ UNCHANGED <<proc, dbus, loaded, held, rcv>>

\* trim_entries begins with g_assert(error == NULL || *error == NULL).
AssertFails ==
    /\ proc = "running" /\ stage = "trim" /\ pc = "idle" /\ gerr = "freed"
    /\ proc' = "aborted"
    /\ UNCHANGED <<vars, dbus, loaded, held, stage, rcv, gerr>>

Received == stage' = "none" /\ rcv' = Null /\ gerr' = "null"

TrimCall ==
    /\ proc = "running" /\ stage = "trim" /\ pc = "idle" /\ gerr = "null"
    /\ \/ TrimBegin(rcv) /\ UNCHANGED <<stage, rcv, gerr>>
       \/ BeginFails /\ Received
    /\ UNCHANGED <<proc, dbus, loaded, held>>

TrimReturns ==
    /\ stage = "trim"
    /\ Succeeds \/ Fails
    /\ Received
    /\ UNCHANGED <<proc, dbus, loaded, held>>

\* The steps inside the two calls.
CallSteps == /\ \/ \E m \in Mimes : CleanupRow(m) \/ StoreMime(m) \/ PurgeRow(m)
                \/ \E i \in Ids : NextVictim(i)
                \/ CleanupDone \/ StoreDone \/ DeleteEntry \/ TrimDone \/ StepFails
             /\ UNCHANGED hist

-----------------------------------------------------------------------------
\* The process dies, or has ended by itself, and is started again.  While it
\* waits for its name nothing is lost with it but what it received early.
Restart ==
    /\ proc # "naming"
    /\ Crash
    /\ proc' = "naming" /\ dbus' = "asked"
    /\ loaded' = {}
    /\ held' = [l \in Labels |-> Null]
    /\ Received

HistNext == \/ OnBusAcquired \/ OnNameAcquired \/ OnNameLost \/ HandleSignal
            \/ \E l \in Labels : SetDatabase(l)
            \/ Started
            \/ \E l \in Labels, i \in Ids :
                  ReceiveEarly(l, i) \/ \E b \in Bodies : Receive(l, i, b)
            \/ SerializeReturns \/ AssertFails \/ TrimCall \/ TrimReturns
            \/ CallSteps
            \/ Restart

HistSpec == HistInit /\ [][HistNext]_all

\* The one thread goes on with what it has begun; when data arrives, and whether
\* a process that ended is started again, is up to others.  The library that asks
\* for the bus name answers in the end, whether there is a bus or not.
HistFairness ==
    /\ WF_all(proc = "naming" /\ (OnBusAcquired \/ OnNameAcquired \/ OnNameLost))
    /\ WF_all(SerializeReturns \/ AssertFails \/ TrimCall \/ TrimReturns \/ CallSteps)

HistFairSpec == HistSpec /\ HistFairness

-----------------------------------------------------------------------------
(* Properties                                                                *)

Stages == {"naming", "starting", "running", "stopped", "refused", "aborted"}

\* Every variable has its type, and a clipboard holds only entries of its own.
HistTypeOK == /\ proc \in Stages
              /\ dbus \in {"asked", "bus", "name", "nothing"}
              /\ loaded \in SUBSET Labels
              /\ held \in [Labels -> Ids \cup {Null}]
              /\ \A l \in Labels : held[l] # Null => LabelOf[held[l]] = l
              /\ stage \in {"none", "serialize", "trim"}
              /\ rcv \in Labels \cup {Null}
              /\ gerr \in {"null", "freed"}

\* A server starts again wherever its last run was interrupted and whatever
\* failed in it, although trims unlink files that a rollback brings the rows back
\* of: only an entry that a trim for some clipboard may select can have lost its
\* files.  With one clipboard the newest entry is none of these.
StartsAgain ==
    proc = "refused" =>
        \E l \in Labels : \E i \in AtIndex(db, l, 0) : ~Kept(db, i)

\* Outside of selection_data_received, a server killed now comes back with the
\* entry that each clipboard holds, or with none for a clipboard all of whose
\* entries the trims made for the others have removed: never with an older one.
\* A transaction that a failed COMMIT left open does not change that, since the
\* process does not get past its next use of the connection; and what was
\* received before the database was there is not held any more.
HeldIsNewest ==
    proc = "running" /\ stage = "none" =>
        \A l \in Labels :
            \/ AtIndex(saved, l, 0) = {held[l]} \ {Null}
            \/ /\ AtIndex(saved, l, 0) = {}
               /\ \E k \in Labels \ {l} : Cardinality(Entries(saved)) > LimitOf[k]

\* What was received is settled: stored, or given up with the process.
Settles == stage # "none" ~> stage = "none" \/ proc = "aborted"

\* The start gets past its first main loop, with or without a bus, and whether or
\* not another server has the name.
StartGoesOn == proc = "naming" ~> proc # "naming"

\* clippor-database.c:861 "g_assert(error == NULL || *error == NULL)", the
\* precondition of trim_entries.
ErrorIsNull == stage = "trim" /\ pc = "idle" => gerr = "null"

=============================================================================
