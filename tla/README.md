# Clippor: models and proofs

Clippor is a clipboard manager daemon: it watches the selections of Wayland
seats, receives what other clients copy, keeps it in clipboards, stores it in
an SQLite database with one file per piece of data, and offers it back when the
client that copied it goes away.  It is one thread around a GLib main loop, so
its hard behaviours are not data races but callbacks in an unexpected order,
objects that died between two callbacks, and failures between two steps.

This directory holds TLA+ modules of its core, TLC configurations that check
them on small instances, and proofs that TLAPS checks for all instances.  Paths
below are relative to the repository's `src/` unless they name a `.tla` file.

## 1. Inventory

| component | source | state | operations |
|---|---|---|---|
| Database | `clippor-database.c` | tables Entries, Mime_types and Data (with a Ref_count), the open transaction, the data files | serialize, trim, deserialize by index and by id, exists |
| Clipboard | `clippor-clipboard.c` | current entry, connected selections, the cancellable of the current receive, limit, allowed mime types | add selection, selection update, read callback, push to selections, load from database |
| Entry | `clippor-entry.c` | id, times, mime type -> bytes | new, add mime type |
| Selection (abstract) | `clippor-selection.c` | type, entry, the "update" signal | dispatch to the subclass |
| Wayland selection | `wayland/wayland-selection.c` | offer, source, active, idle source, seat | new offer, own, cancelled, send, make inert |
| Wayland seat | `wayland/wayland-seat.c` | device, manager, two selections, active | new, device events, finished, make inert |
| Wayland connection | `wayland/wayland-connection.c` | display, registry, globals, seats, a GSource with a read intent | start, stop, roundtrip, dispatch, prepare / check / dispatch, wrappers of two protocols |
| Server | `clippor-server.c` | main loop, name on the bus, signal sources | prepare, start, D-Bus callbacks, signals, stop |
| Configuration | `clippor-config.c` | clipboards, connections | populate from TOML |
| Modules, main | `modules.c`, `main.c` | the loaded Wayland functions | init, uninit, order of the start |
| TOML parser | `external/tomlc17.c` | | vendored |

How they interact:

* The **compositor** sends events; the connection's GSource dispatches them when
  the display's file descriptor is readable, at a priority above everything else.
  A seat's device listener turns a `selection` event into
  `wayland_selection_new_offer`, and the removal of a global into
  `wayland_seat_make_inert`.
* A **Wayland selection** does nothing with an offer at once: it queues
  `send_update_signal` (default idle priority) for an offer of another client, or
  `clipboard_own` (low idle priority) when the selection is empty and there is an
  entry to put there.
* The **update signal** makes the clipboard cancel the receive that is going on
  and start one of its own: a pipe per mime type, each read asynchronously, the
  callbacks at high priority, the next mime type requested in the callback that
  sees the end of file of the one before.
* When the last mime type has been read, the **clipboard** takes the entry,
  calls the **database** synchronously (serialize, then trim), and has every
  connected selection take the entry and become its source client, except the
  one the entry is from.  Owning a selection produces events again.
* A client that **pastes** gives the selection a pipe.  The data of the mime type it
  asks for is written asynchronously, as much at a time as the pipe has room for.
* The **connection** creates a seat while it dispatches the seat's global: it binds it,
  does a roundtrip to get the name, and by that dispatches whatever came behind it; then
  it asks for the seat's data device, whose first events come with the next read.
* At the start the configuration has started the displays.  The **server** then asks
  for its bus name and runs a main loop of its own until the bus has answered, gives
  every clipboard the database, from which it loads the newest entry of its label, and
  runs the main loop until a signal comes or the name is lost.

Which behaviours are hard:

* *Failure between steps.* Every SQLite statement and every file operation can
  fail.  Files are written and unlinked in the middle of a transaction, and no
  rollback undoes that.  One result, that of the DELETE at
  `clippor-database.c:429`, is not looked at; a failed COMMIT is not followed by
  a ROLLBACK; an error is freed and passed on (`clippor-clipboard.c:271`).
* *Crash and restart.* The process can be killed at any point and starts again
  from the last commit and whatever files there are.
* *Order of callbacks.* Offers, updates, the own idle, the answers of cancelled
  and of live reads, `cancelled` events of old sources and the removal of seats
  interleave in the main loop.
* *Stale state.* A callback works with the offer, cancellable, entry or seat as it
  is then, not as it was when the callback was queued.
* *Nesting.* Roundtrips inside of roundtrips take each other's events; a failed flush
  or read leaves a count in libwayland that the next reader waits for.
* *Limits.* The limit of a trim, the end of a list of mime types, the count that
  reaches zero, the pipe that is full, the timeout in two units.

What makes each component correct:

* *Database:* reference counts equal the rows; a call takes effect as a whole or
  not at all; a trim leaves as many entries as it is asked for; an entry that has to stay can always be loaded; files match the
  Data table when nothing fails.
* *Clipboard and history:* after a restart each clipboard has the entry it had, or
  none if trims removed all of its own; every receive is settled.
* *Clipboard and selections:* one live receive, which owns the cancellable; an
  entry never goes back to an older copy; no selection stays empty while there is an
  entry; what is offered is the clipboard's entry; the program comes to rest.
* *Wayland selection:* it never reads from an offer of its own, and it knows which
  of its sources is current.
* *Sending data:* every paste ends, and one that ends without an error has been
  given what was copied, whole and once.
* *Connection:* every prepared read is read or cancelled once, so that the only
  thread never waits for itself; a roundtrip ends; the table of seats follows the
  compositor; the end of the compositor is noticed.
* *Server:* it gets past the wait for its bus name on every answer, starts again after
  every end, and comes back with what its clipboards held.
* *Configuration* (not modelled): each selection that is named gets its clipboard.

All hazards, each at its line, are in `PROJECT.json` under "hazards"; those that no
property covers say why.

## 2. Modules

    History                   abstract: what a database promises
       ^ implemented by
    ClipporDatabase           tables, transaction, files, faults, crash
       ^ extended by   ^
       |               ClipporDatabase_proofs      theorems, TLAPS
       |                                ^ extended by
    ClipboardHistory  <-------  ClipboardHistory_proofs
                              the server: bus name, start, clipboards over
                              the database, signals, restarts

    WaylandSelection          selections, compositor, idles
       ^ extended by
    ClipporClipboard          receives, callbacks, pushing entries
       ^ extended by
    ClipporClipboard_proofs   the receives of a clipboard, TLAPS
       ^ extended by
    ClipporClipboard_types    types, events on their way, sources, TLAPS
       ^ extended by      ^ extended by
    ClipporClipboard_copies   ClipporClipboard_settled
       the order of copies       what selections offer at rest, TLAPS

    WaylandConnection         registry, seats, roundtrips, the source
       ^ extended by
    WaylandConnection_proofs  theorems, TLAPS

    WaylandDataSource         pastes, pipes, the callback that writes
       ^ extended by
    WaylandDataSource_proofs  theorems, TLAPS

    MCClipporDatabase, MCClipboardHistory, MCClipporClipboard,
    MCWaylandConnection, MCWaylandDataSource
                              values of the constants, symmetries

The three groups over Wayland meet at the listeners: `WaylandConnection` ends where a
seat is in the table, `WaylandSelection` begins with seats that exist, and
`WaylandDataSource` takes the selection's entry as something that changes at any time.
`ClipboardHistory` takes a receive as one step, at the moment its last data is there.

### ClipporDatabase

`db` is what the connection sees, `saved` what was committed last, `intx` whether a
transaction is open, `files` the data ids that have a file.  `pc`, `op`, `owner`,
`cur`, `body`, `todo` and `victims` are the place and the locals of the running
call.  A row that does not exist is a Position of 0, a Null datum, a count of 0.

| action | code |
|---|---|
| `SerializeBegin` | `serialize_entry`: BEGIN and the upsert of the Entries row |
| `CleanupRow`, `CleanupDone` | `cleanup_mime_types` for mime types the entry no longer has |
| `StoreMime`, `StoreDone` | `serialize_mime_types` and `ref_data`, one mime type per step |
| `TrimBegin`, `NextVictim`, `TrimDone` | `trim_entries`: the SELECT and its steps |
| `PurgeRow`, `DeleteEntry` | `cleanup_mime_types` for a victim, and the DELETE of its row |
| `Commit`, `CommitFails`, `Rollback` | the end of both calls |
| `StepFails` | a statement or file operation that fails before it has any effect |
| `Crash` | the process dies and starts again from `saved` and `files` |

`DropRow`, shared by the two cleanups, is `unref_data` with the DELETE before it:
the DELETE may fail unseen, the count goes down anyway, at zero the file is
unlinked before the Data row is deleted, and that DELETE fails when a row still
refers to it.  The mime types of an entry are visited in any order.

Abstractions: an entry is an id, a label and a function from mime types to data;
times and contents are left out, data is identified by its hash as in the code.
`IsNextPos` is AUTOINCREMENT; the sequence table and the largest Position agree
because a trim never removes the newest entry.  `Upsert = FALSE` says that only
entries with fresh ids are serialised.  That is what the program does: ids are hashes
of a creation time in microseconds and a label, made by `clippor_entry_new` for every
receive.  `Upsert = TRUE` covers what the function allows (and its tests do).

### History

Two variables, the place and the body of each entry, and three actions: `Record` a
new entry, `DropOldest(n)`, and `Forget` for a database in memory.  `DropOldest` promises
what callers rely on: only the oldest entries go, and the newest n stay; how many more
stay it leaves open, so that it does not repeat the code.  That n entries are left and no
more is a promise of its own, which a comment makes and the code breaks (`DbLimit`).
`ClipporDatabase!AtomicHistory` is its specification under the mapping
`hpos <- saved.pos, hbody <- saved.mime`.

### ClipboardHistory

The server from its start to its end, with the clipboards on top of the database,
which it extends.  `proc` is the stage of the process, `dbus` what it has got from the
bus, `loaded` the clipboards that `set_database` was called for, `held` each
clipboard's entry, `stage` and `rcv` where `selection_data_received` is and for whom,
`gerr` its local `GError *`.

| action | code |
|---|---|
| `OnBusAcquired`, `OnNameAcquired`, `OnNameLost` | the callbacks of `g_bus_own_name`; the last two quit the loop that runs, that of `clippor_server_start_dbus` or the main one |
| `ReceiveEarly` | a receive that ends in the first of the two loops, before there is a database |
| `SetDatabase`, `Started` | `clippor_server_prepare`: `set_database` for each clipboard, or the server refuses to start |
| `Receive`, `SerializeReturns`, `TrimCall`, `TrimReturns` | `selection_data_received` with its two calls, whose steps are those of the database (`CallSteps`) |
| `AssertFails` | the assertion of `trim_entries` on the freed error |
| `HandleSignal` | SIGINT or SIGTERM quits the main loop |
| `Restart` | a crash, or a start after the process has ended |

An early receive is possible because the roundtrip that one seat needs dispatches the
events of selections that were created before it, whose update idles wait for the next
main loop, which is that of the start.  `set_database` then replaces what was received.

### WaylandSelection

`offer`, `source`, `entry`, `active`, `ownIdle` are the fields of each selection;
`updates` is the queue of `send_update_signal` idles.  The compositor is external:
`owner` is the source client of each selection, `lists` the mime types of all copies
that clients made, `removed` the unplugged seats, and `evq` the events on their way.
An owner is a pair: nobody, the client of copy c, or this program by source number
k.  Events arrive in the order they were sent, after any delay.  A request takes
effect at once: it could be delayed only against other clients' requests, and those
can be made before or after it in the model too.  `Copy`, `Clear` and `RemoveSeat` are
what others do, `MaxMoves` times in all; `NewOffer`, `Cancelled`, `MakeInert` are the
listeners; `OwnIdle` is `clipboard_own`, `BecomeSource` is `wayland_selection_own`, and
`UpdateSelection` the update of an active selection with an entry.

Priorities of the main loop are kept where they decide an order: `batch` says that all
update idles that were pending when an iteration began run before anything else,
cancelled reads are answered (high priority) before an idle starts, and the own idle
(low priority) only runs when no update idle is pending.

### ClipporClipboard

`conns` is the array of selections, `cbEntry` and `cbCancel` the clipboard's entry and
cancellable, `ctxs` the set of ReceiveContexts whose read is not answered yet.  `stage` is
how far the server has come, which says what can run:

| `stage` | code | events | idles and callbacks |
|---|---|---|---|
| `displays` | the configuration starts the displays, one by one; roundtrips dispatch | yes | no, there is no loop |
| `naming` | the main loop of `clippor_server_start_dbus` | no, the displays have no source | yes |
| `running` | the main loop, after `set_database` | yes | yes |

| action | code |
|---|---|
| `StartLoop` | `clippor_server_start_dbus` up to its main loop |
| `LoadDatabase` | `set_database`, between the two loops: the clipboard's entry becomes the stored one, or NULL, whatever was received before |
| `Update` | `selection_update`, in an update idle |
| `ReadFails`, `NextMimeType`, `Finish` | the outcomes of `selection_data_async_ready_callback` |
| `UpdateNext`, `UpdatesDone` | the loop of `update_selections`, one step for each selection |
| `Own` | `clipboard_own`, in its idle |

The chunks that are read before the end of file change nothing that matters.  In
`update_selections`, `place` is the index and `cause` the second argument; `UpdateNext`
updates the selection there or removes it when it is inert, which passes over the next
one.  The program does nothing else meanwhile (`Busy`), but clients may act between two of
its requests.  An entry is a set of pairs of a mime type and the copy its data was read
from.  An offer of a client that has gone gives an empty read, which this module does not
tell from a full one.

### WaylandConnection

`stack` is the roundtrips that are going on, the innermost last, each with the seat it
is for (or `Start`), the place in `wayland_connection_dispatch` where it is, and the two
flags its callbacks set; `phase` is what the connection does outside of any roundtrip,
among it the three functions of its GSource; `table` and `manager` are `gobjects`.
`missed` and `leaks` only record what has happened: removals that found nothing, and
flushes that failed after a read was prepared.

libwayland-client is external, modelled as one queue, the count of readers and the error
that stays.  `PrepareRead`, `CancelRead`, `ReadEvents`, `ReadWaits` and `ReadFails` are its
calls: a read with events takes the whole socket, a read that the count says has company
waits, and a read that fails leaves the reader uncounted.  The compositor is external
too: it announces globals in any order, answers requests in theirs, sends no name of a
seat that is gone, and may close the socket at any time.

| action | code |
|---|---|
| `Connect` | `wayland_connection_start` up to its roundtrip |
| `Prepare`, `FlushFails`, `PollFails`, `Read`, `Dispatched` | `wayland_connection_dispatch` and the loop of `wayland_connection_roundtrip` around it |
| `BindManager`, `NewSeat`, `RemoveSeat` | the registry's listeners, and `wayland_seat_new` up to its roundtrip |
| `GetName`, `GetDone` | the listeners of `wl_seat.name` and of the callback |
| `Succeed`, `Fail` | the end of a roundtrip, and what its caller does then: a seat asks for its data device (`AskForDevice`) |
| `GetSelection` | the listener of that device, which only matters here because its events end a poll |
| `InstallSource`, `SourcePrepare`, `SourceCheck`, `SourceDispatch` | the GSource in the main loop |
| `Finalize` | the last reference goes |

Each event is dispatched by whatever runs innermost, so a roundtrip that is asked for
inside of a listener sits on top of the dispatching that called the listener.  The timeout
is a choice after each dispatch without a done event: at `wayland-connection.c:613`
milliseconds are compared with microseconds, so it may come after half a millisecond.

### WaylandDataSource

`stage` is where each paste is, `size` how much data it is served with.  `buf` and `rest`
name two `GBytes` by where they begin in the data: the one that is being written, and the
one the callback is given to count with, which is the *new* rest while the *old* bytes are
written again (`wayland-selection.c:153`).  `sent` is what went into the pipe, `taken` how
much of it the client has read, `gone` that it closed its end.  `Send`, `Write` and
`Callback` are the listener, the write in the stream and `send_data_async_callback`;
`Update` gives the selection another entry meanwhile.  From the second short write on the
bytes that are written were freed (`WriteFreed`): anything may be sent, or the process ends.

GIO and the pipes are external: a write of what fits writes it all, one of more than fits
writes some of it, and one to a client that has gone fails: GIO's sockets, which the bus
connection uses, ignore SIGPIPE for the whole process.

### MC modules

They only give values to constants and define symmetries.

## 3. Runs

Runs that pass:

| run | instance | shows |
|---|---|---|
| `DbFaults` | 3 entries of 2 clipboards with limits 1 and 2, 2 mime types, 3 pieces of data, faults | `TypeOK`, `RefsExact`, `NewestLoadable`, `WholeEntries`; `AtomicHistory`, the refinement |
| `DbUpsert` | 3 entries of one clipboard with limit 1, 2 mime types, 2 pieces of data, entries serialised again, no faults | `RefsCover`, `FilesMatch` |
| `HistRestart` | 3 entries of 2 clipboards with limits 1 and 2, 2 mime types, 2 pieces of data, faults, signals, the bus, restarts | `HistTypeOK`, `StartsAgain`, `HeldIsNewest`; liveness `Settles`, `StartGoesOn` |
| `CbOneSeat` | the two selections of a seat, lists of mime types that are empty, partly allowed or of 2, 2 moves of others, a stored entry, the two main loops of the start, failing pipes and reads | `TypeOK`, `NoOwnOffer`, `OneReceive`, `CancellableIsLive`, `Persists`, `OffersHeld`, `KnowsSource`, `NeverGoesBack`; liveness `Settles` |
| `ConnNested` | 2 seats that come and go, one failed flush, a compositor that may end at any time | `TypeOK`, `ReadsBalanced`, `WaitsForLeakOnly`, `TableFollows`, `DoneInOrder`; liveness `RoundtripEnds`, `DeadIsNoticed` |
| `SendPastes` | 2 pastes, entries with data that fits into the pipe, twice as much and none, a pipe with room for 2 | `TypeOK`, `NotShort`, `SmallIsWhole`; liveness `Settles` |

Runs that must find a violation, each of a sentence or an assertion of the source
(`PROJECT.json`, "findings"):

| run | what the code does |
|---|---|
| `DbLimit` | a trim to n entries commits n + 1 |
| `HistErrorIsNull` | after a failed `serialize_entry` the freed error reaches the assertion of `trim_entries` |
| `CbOneCopy` | an entry mixes the mime types of two copies |
| `CbInert` | `clipboard_own` runs on a selection whose seat is gone |
| `ConnDone` | a roundtrip polls on although its done event has been dispatched, and drops its seat |
| `SendWhole` | data that does not fit into the pipe at once is sent again from its beginning |

What some of the properties say about the code:

* `NewestLoadable`: files *are* lost by a rollback or a crash in a trim, but only those of
  entries that the trim selected: a file goes when its count reaches zero, so no other
  entry has it, and an entry with at most `n` newer ones is never selected by a trim with
  limit `n` or more.  What is at risk is the oldest entries, which the next trim removes.
* `LimitKept`: the comment at `clippor-database.c:852` says that entries are removed until n
  are left, and `max-entries` is the maximum number of entries in the history
  (`clippor-clipboard.c:152`); the statement at line 905 spares n + 1.  `Victims` has this
  as it is, and `DbLimit` finds it.  The refinement to `History` holds with n or n + 1.
* `StartsAgain`: with one clipboard a restart is never refused.  With several it is when
  the newest entry of a clipboard that is seldom used was the victim of a trim made for
  another one, and lost its files to a crash.  The property says that nothing else does it.
* `HeldIsNewest` holds in part because of the bug that `HistErrorIsNull` shows: a
  failed `serialize_entry` aborts the process, so it never runs on with an entry that
  was not stored.  A repair of the bug should be followed by a change of this property.
  Its second case is there because `trim_entries` counts and removes the entries of all
  labels.  An entry that was received before the database was there is not stored; it
  is replaced by the one that is loaded.
* `ReadsBalanced` and `WaitsForLeakOnly` name the one way into a wait for itself: a flush
  that fails inside `wayland_connection_dispatch` (line 494) leaves its read prepared.
  The second cancel of a failed read makes the count too low, but the error stays, so
  nobody prepares again.
* `TableFollows` has an exception that the code has: the removal of a seat that is
  dispatched by the roundtrip of its own creation finds nothing in the table, and the
  seat is put there afterwards, if its name has come too.
* `ConnDone` needs two seats that are announced together.  The second one's roundtrip
  runs inside of the loop that prepares a read for the first one, and takes the first
  one's done event; the first goes on to flush and poll for events that need not come.
  Usually they do: the second seat has asked for its data device, and its first events end
  the poll (`GetSelection`).  The seat is dropped when the compositor is silent for the
  timeout, or when it has run out by then.
* `NotShort` is not obvious since the callback counts with other bytes than the ones it
  writes; it holds because the rest it counts with begins where the data that was sent
  should end.  `SmallIsWhole` is what is left of the promise that `SendWhole` refutes.
* `update_selections` passes over the selection behind an inert one, since removing
  from the array moves it under the index (`clippor-clipboard.c:208`).  `UpdateNext` has
  this as it is.  It matters when the selections of several seats share a clipboard and
  one of the seats goes: with three selections of two seats TLC finds `OffersHeld` and
  `Persists` violated, since the selection that was passed over keeps its old entry, or
  none.  Where all selections of a clipboard are of one seat they become inert together,
  so `CbOneSeat` and the proofs of the two have one seat per clipboard.
* `Persists` holds with an entry in the database.  With an empty history, the first
  copy whose client exits while the last of its data is read becomes the clipboard's
  entry but is never offered on its own selection: the selection's entry was NULL when
  its offer went away, so no idle was queued, and `update_selections` leaves out the
  selection that the entry is from.  `CbOneSeat` therefore has a stored entry.
* `OffersHeld` is about clipboards that have an entry.  One may lose it: what is received in
  the loop of the start is offered in the other selections, and `set_database` then sets
  the clipboard's entry to NULL when the database is empty, without telling them.
* `NeverGoesBack` is about what receives do.  Loading the database does take a clipboard
  back, from an entry that it received in the loop of the start to the stored one, which
  is older; the property leaves out the step that does (`stage' = stage`), and nothing else.
  It speaks of entries with data of several copies too, which `CbOneCopy` shows to exist.

Bounds.  `MaxPos` caps the Positions given out (and with it the entries ever
serialised), `MaxRefs` the reference counts, both in the guard of `SerializeBegin`
only; `MaxMoves` caps what clients and seats do.  Three entries with a limit of 1 are
enough for a victim, two entries that stay and data shared by any of them; the second
mime type gives the data shared by two rows of one entry.  Two clipboards with
different limits give victims of either.  Two moves give a copy and its replacement before
its data is read, or a clear or an unplugged seat after it; with the stored entry and the
program as a source of its own there are more sources than moves, and that more moves change
nothing is what the theorems say.  Two seats let one
roundtrip nest in another and in that of the start, `MaxFails` = 1 lets one flush fail
at any of the levels; a third seat only nests one deeper.  Two pastes are enough for one
to go on while the other waits; with data of 4 units and a pipe with room for 2 there are
short writes of either length and a third write, of freed bytes.  Sets of ids,
mime types and data have no order in the modules; symmetry is used in runs without
liveness only, and over constants that the others do not distinguish.

Deadlock is checked in the runs over the database, which can always go on.  The runs
over `ClipporClipboard`, `WaylandConnection` and `WaylandDataSource` say `CHECK_DEADLOCK
FALSE`: with no moves left and everything settled, with the connection stopped, or with
every paste answered, the system really is at rest.  That the connection does not wait
for itself is `WaitsForLeakOnly`.

Fairness.  `HistFairness` is weak fairness of the steps of `selection_data_received` and
the two calls it makes: they are synchronous code of the one thread, which goes on with
what it has begun; and of the answers of the bus while the server waits for them, since
`g_bus_own_name` promises one of its callbacks in the end.  Receiving, starting and dying
are not fair: data may never come and nobody need restart the server.  `FairSpec` of
`ClipporClipboard` is weak fairness of `Program`, all steps of the main loop as one: the
loop goes on as long as something is ready.  It includes that events which were sent
arrive, and that a client which is asked for data sends it or closes the pipe: no timeout
of the code covers a client that does neither.  In `WaylandConnection` it is weak fairness
of `Dispatch`, what the one thread does in roundtrips and in the source, where a poll ends
at its timeout; a roundtrip ends with a compositor that never answers.  In
`WaylandDataSource` it is weak fairness per paste of what the main loop does for it, and of
its client's reading: a client that neither reads nor closes is covered by no timeout
either.  Nothing is assumed of other clients, users, seats and the compositor.

Every property of a passing run has a mutant of the code that violates it
(`PROJECT.json`, "mutants"); mutants are defined next to what they change.

## 4. Proofs

### The database

`ClipporDatabase_proofs` proves, for every set of ids, mime types and data, any number
of clipboards and limits, and with every fault:

| theorem | property | assumptions |
|---|---|---|
| `TypeCorrect` | `TypeOK` | none but those on the constants |
| `EntriesStayWhole` | `WholeEntries` | `~Upsert` |
| `RefsStayExact` | `RefsExact` | `~Upsert` |
| `NewestStayLoadable` | `NewestLoadable` | `~Upsert`, `~InMemory` |
| `ImplementsHistory` | `AtomicHistory` | `~Upsert` |
| `RefsStayCovered` | `RefsCover` | `~Faults` |
| `FilesStayMatched` | `FilesMatch` | `~Faults` |

The assumptions on the constants are those of `ClipporDatabase`: `Ids` and `Mimes` are
finite, `Null` is neither an id, a datum nor a label, every id has a label, every label a
limit of at least 1.  `~Upsert` is needed: an entry that is serialised again with other
data leaves a count too high (`clippor-database.c:502`).  `~InMemory` is needed because
loading looks for files even when data went to the in-memory store (line 676).

The argument is one inductive invariant in layers, each proved with the ones before:

1. `TypeInv` is `TypeOK` and `Iterates`: where a call loops over mime types it has an
   entry, and the mime types are among those of that entry.  Without it `TypeOK` is not
   inductive, since `db.mime[cur][m]` might be Null when it is unreferenced.
2. `CallsInv` adds `CallInv`, `SerializeInv` and `TrimInv`: the tables of the connection
   are at each step those committed last, changed by the part of the call that is done.
   A serialised entry has the last Position and the rows stored so far; the victims that
   are done are gone, the current one has lost some rows, everything else is untouched.
   From this `WholeEntries` follows at each commit, since a commit is only reached with
   nothing left to do.
3. `RefsInv` adds `RefsExact`.  Its second part counts rows inside a transaction, without
   those the purge has already passed (`Passed`): a row that a failing DELETE left behind
   has been unreferenced, and the DELETE of the entry then fails on the foreign key and
   rolls all of it back.  The cardinality arguments are those of adding and removing one
   row of a finite set.
4. `LoadInv` adds `NewestLoadable` and `FilesInv`, that the rows stored of the new entry
   have files.  An unlinked file belongs to data whose count is 1 in the middle of a purge;
   by 3 the row of the victim is the only one left, by 2 the entries that are kept still
   have all their rows, so it is not theirs (`UnlinkSparesKept`).  At a commit, an entry
   that is kept was kept before: a new entry only adds newer ones (`LoadSerialized`), and
   no entry newer than one that stays is a victim (`LoadTrimmed`).
5. `ImplementsHistory` uses 2: committing maps to `Record` or `DropOldest`, losing a
   database in memory to `Forget`, and every other step leaves `saved` as it is.  What a
   trim leaves is closed under newer entries and has the newest n (`CommitDropsOldest`).

`RefsStayCovered` and `FilesStayMatched` are about entries that are serialised again too, so
none of the layers after the first applies.  `CoverInv` says of every step that counts are at
least the rows, and that a file is there exactly when its count is not zero.  A row that is
deleted takes one from both, a row that is stored adds one to the count and at most one to
the rows; at zero no row is left, so the DELETE of the data does not fail and no call gives
up.  `~Faults` is needed: an ignored failure leaves a row that is not counted.

### The server and its clipboards

`ClipboardHistory_proofs` proves, for any number of clipboards, entries, limits, failures
and restarts:

| theorem | property | assumptions |
|---|---|---|
| `HistTypeCorrect` | `HistTypeOK` | none |
| `ServerRunsDatabase` | the database's `Spec` | none |
| `StartsAlways` | `StartsAgain` | `~Upsert`, `~InMemory` |
| `HeldStaysNewest` | `HeldIsNewest` | `~Upsert` |

`ServerRunsDatabase` says that each step of the server is one of the database or leaves it
alone, so that the invariants above hold in the server and can be cited.  `StartsAlways` adds
little to `NewestStayLoadable`: until the server runs, the tables are those committed last
(`Untouched`), and a refusal has a newest entry that cannot be loaded (`Refusal`).

`HeldStaysNewest` rests on `StoredInv`.  `StageInv` says which call of the database runs for
which clipboard, with which entry.  `HeldInv` says of each clipboard that it holds the newest
entry of its label, or has none any more because of others (`Holds`, `Lost`), except the one
that receives, until its entry is committed; from then to the end of its trim that entry is
the newest of all.  `SetDatabase` establishes it, because the statement with index 0 selects
the newest entry of a label whenever there is one: a set of entries that is not empty has
one that the fewest are newer than (`NewestOf`, by the well-foundedness of the naturals).  A
commit of `serialize_entry` gives the receiving clipboard the last Position and changes no
other label (`HeldSerialized`).  A trim spares the newest entries, so if it takes the newest
of a label it takes all of that label, and more than the limit are left (`TrimLeavesMore`,
`HeldTrimmed`); it is never the label it is made for.  A failed `serialize_entry` leaves the
process at the assertion, which is why nothing has to hold after it.

### The receives of a clipboard

`ClipporClipboard_proofs` proves, for every set of selections and seats, all mime types
and lists of them, any number of copies, and with every fault:

| theorem | property |
|---|---|
| `ReceivesOneAtATime` | `OneReceive` |
| `CancellableHasReceive` | `CancellableIsLive` |
| `NeverReadsItself` | `NoOwnOffer` |

This needs none of the assumptions on the constants.  The invariant `ReceiveInv` joins the three with
what makes them inductive: there are finitely many receives and their ids differ
(`Contexts`).  Without the second, clearing the cancellable of one receive might clear
that of another; without the first there need not be an id that no receive has
(`NewIdFresh`, a counting argument).  A start cancels the receive that has the
clipboard's cancellable, which is the only one that was not cancelled, so all of the old
ones are (`StartStep`); a callback clears the cancellable only when it is its own, and
then nobody else has it (`BailStep`); the next mime type is read from the offer that the
selection has then, which an event has kept only if it was another client's (`NextStep`,
`OfferStep`).

### What a clipboard and its selections hold

Three modules on top of that one prove, for the same instances:

| theorem | module | property | assumptions |
|---|---|---|---|
| `TypesHold` | `ClipporClipboard_types` | `TypeOK` | none |
| `SourcesKnown` | `ClipporClipboard_types` | `KnowsSource` | none |
| `EntryNeverGoesBack` | `ClipporClipboard_copies` | `NeverGoesBack`, an action property | none |
| `OffersAreHeld` | `ClipporClipboard_settled` | `OffersHeld`, for clipboards with an entry | one seat per clipboard |
| `SelectionsPersist` | `ClipporClipboard_settled` | `Persists` | one seat per clipboard, `{} \notin Stored` |

The assumptions on the constants are those that the modules name: `Sels` is finite,
`Nobody` is not a selection, lists are sequences of mime types, an allowed mime type is
one of `Mimes` and `Junk` is not, and what the database hands out counts as copy 0.

`TypesHold` needs `ReceiveInv`, since the callback indexes the list of its receive, and
three facts about choices in the model: there is a first allowed mime type or the end of
the list (`NextAllowedFound`, by the well-foundedness of the naturals), and a source
number and the id of a receive that nobody uses (`NewSourceFresh`, by counting what is on
its way; `NewIdFresh`).

`KnowsSource` only speaks of moments at rest.  Its invariant `SourceInv` says at all times
that a source of the program which the compositor has is the one the selection knows,
and that one which the selection still knows and the compositor has no more has its
`cancelled` event on its way.  Numbers of sources are told apart while an event with them
is on its way, which is why `NewSource` avoids them.

`NeverGoesBack` rests on `OrderInv`.  Copies are announced in the order they were made
(`EventOrder`).  The oldest copy that a live receive has read or is reading from is not
newer than anything that is still to be read: in an event, in an offer whose idle waits,
in the offer of its own selection (`Began`).  When the receive ends, the same is true of
the new entry (`Holds`), and of every live receive that comes after it, so that the entry
which replaces it has nothing older.  An update idle of the iteration that runs (`batch`)
may be for an older copy than that of the receive which another idle of the same iteration
has just started; it cancels that receive, and no callback runs before it.  A stored entry
counts as copy 0, older than all that is still to come, so that loading it establishes
`Holds` (`LoadOrder`), though not `NeverGoesBack`, which excepts that step.

`OffersHeld` rests on `HeldInv`: if the clipboard has an entry, every selection has it
outside of the loop, and inside of it those that the loop has passed.  For the selections to stay in the
array, none may be inert; at rest, selections of one seat are all active or all inert
(`ActiveTogether`).  Without that the property is false, as said above.

`Persists` rests on `PersistInv`.  `Tracks` says of each selection that the last event
about it which is on its way names its owner, or that none is on its way and the program
knows the owner, and has its own idle pending if there is nobody and the selection has the
loaded entry or a newer one (`Reached`; an entry of before that, which the loop of the start
may have given it, is no reason to own a selection whose offer has gone already).  `Loaded`
says that each selection has an entry once the loading has come to all of them, which is
what the second assumption is for: without it the property is false (above).  At rest no
event is on its way and no idle pending, so no selection with an entry has nobody.

### The connection

`WaylandConnection_proofs` proves, for any number of seats, roundtrips nested to any depth,
and whatever the compositor does:

| theorem | property |
|---|---|
| `TypeCorrect` | `TypeOK` |
| `ReadsStayBalanced` | `ReadsBalanced` |
| `WaitsForNothingElse` | `WaitsForLeakOnly` |
| `TableAlwaysFollows` | `TableFollows` |
| `AnswersInOrder` | `DoneInOrder` |

`ReadInv` joins the first two with `Nested`, that only the innermost roundtrip can be preparing
or polling and the others are dispatching, which is why one number is enough for the reads
that are prepared, and `Ending`, that after an error nothing prepares any more, which is why
the count that is too low then stays without effect.  From it `WaitsForLeakOnly` follows,
because a read waits when the count is not 1 and `ReadsBalanced` says what else it can be.

`TableInv` is needed for `TableFollows`, which only speaks of moments when nothing is on its
way: `Known`, a seat that is in the table or being created is there, or its removal is still
to come or came too early; `Announced`, behind each announcement that is on its way of a seat
that is gone there is its removal; `Untold`, before the registry is asked for there is nothing.
Removals overtake nothing, since reading keeps the order of the socket.

`OrderInv` is needed for `DoneInOrder`.  `Ordered` says of each roundtrip that its answer has
been dispatched or is `Coming`, as a request, on the wire or in the queue, and that the answers
of those inside of it come `Behind` that one.  The compositor serves requests in order and the
program dispatches events in order, so each step keeps this (`AnswersServed`, `AnswersSent`,
`AnswersRead`, `AnswersTaken`, `AnswersAsked`, and `AnswersStay` for the request of a data
device, which no answer is waited for), which rest on lemmas about one member of a
sequence coming ahead of another.  A roundtrip could take an old answer for its own if it had
been begun for the same seat before; `Fresh` excludes that: a seat is announced once, and asked
for its name only when it is, for which the registry must be asked for once (`AskedOnce`).

### Sending data

`WaylandDataSource_proofs` proves, for any number of pastes, any sizes of data and pipes, and
the process writing freed memory or not:

| theorem | property |
|---|---|
| `TypeCorrect` | `TypeOK` |
| `NeverShort` | `NotShort` |
| `SmallStaysWhole` | `SmallIsWhole` |

`CountInv` says where the bytes that the callback counts with begin: where the data that was
sent should end, so that they shrink by what was written, though what was written is other
data.  `AtOnceInv` says that data which fits goes with the first write, of everything.  A step
of one paste leaves the others alone (`OthersStay`), so both are proved for one paste.

### Only model-checked

Every safety invariant and every action property of the passing runs is a theorem.  Liveness
under fairness is out of the prover's reach and stays with TLC: `Settles` of
`ClipboardHistory`, `ClipporClipboard` and `WaylandDataSource`, `StartGoesOn`, `RoundtripEnds`
and `DeadIsNoticed`.  So do `OffersHeld` and `Persists` on any instance with several seats per
clipboard, where they do not hold.  The runs that find a violation are examples by nature.

## 5. What is not modelled

* Loss of power: with a WAL journal and `synchronous = NORMAL` the last commits can be
  lost while files stay unlinked.  `Crash` is the death of the process.
* An ignored DELETE whose failure makes SQLite roll the transaction back by itself.
* `entry_exists` and `deserialize_entry_with_id`, which change nothing and which nothing in
  the program calls, and failing statements while the server starts.
* `clippor_clipboard_add_selection`, which only tests call: the configuration connects
  selections before the start, as in `Init`; one selection that is connected to two
  clipboards, which a configuration can ask for.
* Which entry a paste is owed: the one the selection has when it is asked for is served, which
  may be newer than the one that was announced.  Data cut short by an early end of file.
* The `finished` event of a device, on which the seat gets a new one, and the
  `capabilities` event of a seat, which only sets fields.
* The wrappers of the two data control protocols, the lookup of seats by name, the names
  themselves (two seats of one name), and a restart of a connection that was stopped,
  which nothing does.
* The configuration.  It runs once and keeps nothing but what it wires up, which the
  modules take as constants (`SeatOf`, `LabelOf`, `LimitOf`, `Allowed`).  Reading it showed
  that the loop at `clippor-config.c:115` indexes the patterns of a clipboard by the
  number of the clipboard, and that a seat which does not exist is passed on as NULL (line
  224) to an assertion.
* Two servers on one database: the one that is refused the name goes on with the database
  all the same (`OnNameLost` while it starts), but each model has one process.
* Counts of references (the context that is released twice after a failed start,
  `clippor-server.c:167`), the loading and unloading of the Wayland library
  (`main.c:80` closes it while automatic cleanups of `main` are still to come), the abstract
  dispatch of `clippor_selection`, and the D-Bus object, which has no methods.
* Pipes that block the program, and the vendored parser.

## 6. Plan

Done: the database and its abstract specification, the server and its clipboards over it,
selections and clipboards, the connection, the sending of data, and the proofs about each.
What remains, in this order:

1. Loss of power in `ClipporDatabase`, as a second form of `Crash` that also takes back the
   last commits but not the files.
2. The configuration, as operators that wire selections to clipboards, checked against a
   reference definition over small inputs.
3. The `finished` event in `WaylandSelection`, and pastes composed with it, to say which
   entry a source announced.
4. What `OffersHeld` and `Persists` are on clipboards of several seats: which selections are
   passed over, as an invariant that says when the next entry reaches them.

Runs over the database and the history can be merged or shrunk in favour of new ones where
theorems cover what they check.

## 7. Running

    tlc -workers 2 -config DbFaults.cfg MCClipporDatabase
    tlapm ClipporDatabase_proofs.tla
    tlapm ClipboardHistory_proofs.tla
    tlapm ClipporClipboard_proofs.tla
    tlapm ClipporClipboard_types.tla
    tlapm ClipporClipboard_copies.tla
    tlapm ClipporClipboard_settled.tla
    tlapm WaylandConnection_proofs.tla
    tlapm WaylandDataSource_proofs.tla

The module of each run is in `PROJECT.json`.  All runs together take some ten minutes, all
proofs a few.
