------------------------- MODULE WaylandDataSource -------------------------
(***************************************************************************)
(* The sending of data to clients that paste: the data source listener of  *)
(* src/wayland/wayland-selection.c.  Each paste has a pipe of its own and   *)
(* asks for one mime type; its data is written asynchronously, as much at  *)
(* a time as the pipe has room for, by a callback that goes on with what   *)
(* it takes for the rest.                                                  *)
(*                                                                         *)
(* A GBytes that is a part of another one is named by where it begins in   *)
(* the data; all of them extend to its end.                                *)
(***************************************************************************)
EXTENDS Integers, Sequences

CONSTANTS
    Pastes,   \* requests of clients, each with its pipe
    Entries,  \* entries that the selection may be given
    Size,     \* how much data an entry has for the mime type, or NoData
    NoData,   \* stands for an entry without the mime type
    Room      \* what a pipe holds

ASSUME SizesAreNat == \A e \in Entries : Size[e] \in Nat \cup {NoData}
ASSUME PipeHasRoom == Room \in Nat \ {0}
ASSUME NoDataIsNone == NoData \notin Nat

VARIABLES
    entry,  \* the selection's entry
    stage,  \* of each paste: see Stages
    size,   \* the size of the data that the paste is served with
    buf,    \* where the bytes begin that are being written
    rest,   \* where those begin that the callback is given
    w,      \* what the last write wrote, or -1
    sent,   \* everything written into the pipe, as places in the data
    taken,  \* how much of it the client has read
    gone,   \* the client has closed its end
    alive   \* the process runs

pastes == <<stage, size, buf, rest, w, sent, taken, gone>>
vars   == <<entry, alive, pastes>>

Stages == {"none", "asked", "writing", "written", "ended", "failed", "refused"}

Lost == 0  \* stands for a byte of memory that was freed

Init == /\ entry \in Entries
        /\ alive = TRUE
        /\ stage = [p \in Pastes |-> "none"]
        /\ size = [p \in Pastes |-> 0]
        /\ buf = [p \in Pastes |-> 0]
        /\ rest = [p \in Pastes |-> 0]
        /\ w = [p \in Pastes |-> 0]
        /\ sent = [p \in Pastes |-> <<>>]
        /\ taken = [p \in Pastes |-> 0]
        /\ gone = [p \in Pastes |-> FALSE]

Goes(p, from, to) == alive /\ stage[p] = from /\ stage' = [stage EXCEPT ![p] = to]

-----------------------------------------------------------------------------
(* Clients, and the clipboard                                                *)

Ask(p) == /\ Goes(p, "none", "asked")
          /\ UNCHANGED <<entry, alive, size, buf, rest, w, sent, taken, gone>>

Reads(p) == /\ ~gone[p] /\ taken[p] < Len(sent[p])
            /\ taken' = [taken EXCEPT ![p] = Len(sent[p])]
            /\ UNCHANGED <<entry, alive, stage, size, buf, rest, w, sent, gone>>

Leaves(p) == /\ ~gone[p] /\ stage[p] # "none"
             /\ gone' = [gone EXCEPT ![p] = TRUE]
             /\ UNCHANGED <<entry, alive, stage, size, buf, rest, w, sent, taken>>

\* The selection is given another entry; the bytes that are being sent have
\* references of their own.
Update(e) == /\ alive /\ e # entry
             /\ entry' = e
             /\ UNCHANGED <<alive, pastes>>

-----------------------------------------------------------------------------
(* data_source_listener_event_send                                           *)

\* Mutant of Refuse: the pipe is not closed.
RefuseOnly(p) == /\ Size[entry] = NoData
                 /\ Goes(p, "asked", "asked")
                 /\ UNCHANGED size

Refuse(p) == /\ Size[entry] = NoData
             /\ Goes(p, "asked", "refused")
             /\ UNCHANGED size

Send(p) == /\ \/ Refuse(p)
              \/ /\ Size[entry] # NoData
                 /\ Goes(p, "asked", "writing")
                 /\ size' = [size EXCEPT ![p] = Size[entry]]
           /\ UNCHANGED <<entry, alive, buf, rest, w, sent, taken, gone>>

-----------------------------------------------------------------------------
(* The writes, and send_data_async_callback                                  *)

Free(p) == Room - (Len(sent[p]) - taken[p])
Left(p) == size[p] - buf[p]

Writes(p, bytes) == /\ ~gone[p]
                    /\ sent' = [sent EXCEPT ![p] = @ \o bytes]
                    /\ w' = [w EXCEPT ![p] = Len(bytes)]
                    /\ UNCHANGED alive

WriteFails(p) == /\ w' = [w EXCEPT ![p] = -1]
                 /\ UNCHANGED <<alive, sent>>

\* All is written if there is room for it, or else some of it.
Lengths(p) == IF Left(p) <= Free(p) THEN {Left(p)} ELSE 1..Free(p)

\* The bytes that begin inside of the data belong to the callback alone, which
\* has dropped them before it writes them: memory that was freed is written, or
\* is not accessible, or libc stops the process.
WriteFreed(p) ==
    /\ buf[p] > 0
    /\ \/ \E n \in 1..Free(p) : Writes(p, [k \in 1..n |-> Lost])
       \/ w' = [w EXCEPT ![p] = -1] /\ alive' \in BOOLEAN /\ UNCHANGED sent

Write(p) == /\ Goes(p, "writing", "written")
            /\ \/ \E n \in Lengths(p) : Writes(p, [k \in 1..n |-> buf[p] + k])
               \/ gone[p] /\ WriteFails(p)
               \/ WriteFreed(p)
            /\ UNCHANGED <<entry, size, buf, rest, taken, gone>>

\* Mutants of More: off by one, no second write, and a failed write goes on.
MoreIfEqual(p) == w[p] > 0 /\ w[p] <= size[p] - rest[p]
NoMore(p)      == w[p] > size[p]
MoreIfFailed(p) == w[p] # 0 /\ w[p] < size[p] - rest[p]

More(p) == w[p] > 0 /\ w[p] < size[p] - rest[p]

\* There is more to write.  The callback is given the new rest, and the old one
\* is written once more.
Continue(p) == /\ More(p) /\ Goes(p, "written", "writing")
               /\ buf' = [buf EXCEPT ![p] = rest[p]]
               /\ rest' = [rest EXCEPT ![p] = @ + w[p]]

Callback(p) == /\ \/ Continue(p)
                  \/ /\ ~More(p)
                     /\ Goes(p, "written", IF w[p] = -1 THEN "failed" ELSE "ended")
                     /\ UNCHANGED <<buf, rest>>
               /\ UNCHANGED <<entry, alive, size, w, sent, taken, gone>>

-----------------------------------------------------------------------------
Dispatch(p) == Send(p) \/ Write(p) \/ Callback(p)

Next == \/ \E p \in Pastes : Ask(p) \/ Reads(p) \/ Leaves(p) \/ Dispatch(p)
        \/ \E e \in Entries : Update(e)

Spec == Init /\ [][Next]_vars

\* The main loop goes on with every stream, and clients read what they asked for
\* or go away: no timeout of the code covers one that does neither.
FairSpec == /\ Spec
            /\ \A p \in Pastes : WF_vars(Dispatch(p)) /\ WF_vars(Reads(p))

-----------------------------------------------------------------------------
(* Properties                                                                *)

\* Every variable has its type.
TypeOK == /\ entry \in Entries /\ alive \in BOOLEAN
          /\ stage \in [Pastes -> Stages] /\ gone \in [Pastes -> BOOLEAN]
          /\ size \in [Pastes -> Nat] /\ buf \in [Pastes -> Nat] /\ rest \in [Pastes -> Nat]
          /\ w \in [Pastes -> Nat \cup {-1}] /\ taken \in [Pastes -> Nat]
          /\ sent \in [Pastes -> Seq(Nat)]

Whole(p) == [k \in 1..size[p] |-> k]

\* A paste that ends without an error never ends early: at least as much was
\* written as the data has, although the callback counts with other bytes than
\* those that it has written.
NotShort == \A p \in Pastes : stage[p] = "ended" => Len(sent[p]) >= size[p]

\* What fits into the pipe is sent whole and once, and nothing after it, even if
\* the entry is replaced or the client leaves meanwhile.  What does not fit is
\* not: the callback writes the old bytes again, or bytes that it has freed.
SmallIsWhole ==
    \A p \in Pastes : stage[p] = "ended" /\ size[p] <= Room => sent[p] = Whole(p)

\* Every request is answered: the pipe is closed in the end, with all written,
\* after an error or at once.
Settles ==
    \A p \in Pastes : stage[p] = "asked" ~>
        stage[p] \in {"ended", "failed", "refused"} \/ ~alive

\* wayland-selection.c:160 "Done writing everything or an error occured": all of
\* the data has been written, and nothing else, when the callback is done.
DoneIsWhole == \A p \in Pastes : stage[p] = "ended" => sent[p] = Whole(p)

=============================================================================
