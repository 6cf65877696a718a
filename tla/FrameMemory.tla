---------------------------- MODULE FrameMemory -----------------------------
(***************************************************************************)
(* What the frame store promises its callers: every live frame is a cell   *)
(* that holds what the last call that returned has stored in it, so        *)
(* residency, eviction, swap, waiting and failed calls cannot be observed; *)
(* a copy is filled with a content its source had; and what a shared file  *)
(* frame held when it went away is in the file, unless the file's          *)
(* write-back error has been latched, after which the file is never written*)
(* again.                                                                  *)
(*                                                                         *)
(* written is the callers' side: it moves when a call returns, with the    *)
(* value that the caller passed.  A cell may only follow it.               *)
(***************************************************************************)
CONSTANTS Frames, Threads, Values, Zero, Pages, BackingOf, Gone, NoPage

VARIABLES
    cell,       \* the content of a frame, Gone when it is not allocated
    written,    \* what the calls that returned have stored in the frame
    home,       \* the file page a shared frame is written back to
    buf,        \* the content a copy in progress has taken
    stored,     \* the content of each file page
    latched     \* files with a latched write-back error

vars == <<cell, written, home, buf, stored, latched>>

Init ==
    /\ cell = [f \in Frames |-> Gone]
    /\ written = cell
    /\ home = [f \in Frames |-> NoPage]
    /\ buf = [t \in Threads |-> Gone]
    /\ stored = [p \in Pages |-> Zero]
    /\ latched = {}

\* The caller stores v in the frame, and the frame holds v.
Set(f, v) ==
    /\ written' = [written EXCEPT ![f] = v]
    /\ cell' = [cell EXCEPT ![f] = v]

\* A new frame holds zeros or its file page; a page has one shared frame.
Create(f) ==
    /\ cell[f] = Gone
    /\ \/ /\ Set(f, Zero)
          /\ UNCHANGED home
       \/ \E p \in Pages :
            /\ \A g \in Frames : home[g] # p
            /\ Set(f, stored[p])
            /\ home' = home \/ home' = [home EXCEPT ![f] = p]
    /\ UNCHANGED buf

Write(f, v) ==
    /\ cell[f] # Gone
    /\ Set(f, v)
    /\ UNCHANGED <<home, buf>>

Take(t, f) ==
    /\ cell[f] # Gone
    /\ buf[t] = Gone
    /\ buf' = [buf EXCEPT ![t] = cell[f]]
    /\ UNCHANGED <<cell, written, home>>

Fill(t, f) ==
    /\ cell[f] # Gone
    /\ buf[t] # Gone
    /\ Set(f, buf[t])
    /\ buf' = [buf EXCEPT ![t] = Gone]
    /\ UNCHANGED home

Abandon(t) ==
    /\ buf' = [buf EXCEPT ![t] = Gone]
    /\ UNCHANGED <<cell, written, home>>

Drop(f) ==
    /\ home[f] # NoPage =>
        stored'[home[f]] = cell[f] \/ BackingOf[home[f]] \in latched'
    /\ Set(f, Gone)
    /\ home' = [home EXCEPT ![f] = NoPage]
    /\ UNCHANGED buf

\* A file page changes to the content of its frame, or its file's error is
\* latched by the step that damages it.
FileStep ==
    /\ stored' \in [Pages -> Values]
    /\ latched \subseteq latched'
    /\ \A p \in Pages : stored'[p] # stored[p] =>
        /\ BackingOf[p] \notin latched
        /\ \/ BackingOf[p] \in latched'
           \/ \E f \in Frames : home[f] = p /\ stored'[p] = cell[f]

CellStep ==
    \/ UNCHANGED <<cell, written, home, buf>>
    \/ \E f \in Frames :
        \/ Create(f)
        \/ Drop(f)
        \/ \E v \in Values : Write(f, v)
        \/ \E t \in Threads : Take(t, f) \/ Fill(t, f)
    \/ \E t \in Threads : Abandon(t)

Next == CellStep /\ FileStep

Spec == Init /\ [][Next]_vars

=============================================================================
