-------------------------- MODULE FrameStoreMemory --------------------------
(***************************************************************************)
(* The frame store seen as memory: what the calls that returned have stored*)
(* in the frames, what callers find in them, and that the two are one      *)
(* memory, that of FrameMemory.                                            *)
(***************************************************************************)
EXTENDS FrameStore

\* A history of the calls: the value each frame was given by the last call on it
\* that returned, NoFrame when the frame is not allocated.  No step of the store
\* looks at it.
VARIABLE written

allVars == <<vars, written>>

\* The call returns MINIMM_OK, or it fails, or it goes to sleep.
Served(t, o) ==
    /\ Runs(t, o)
    /\ Hit(t, o) \/ PageIn(t, o) \/ \E v \in Frames : PageInEvicting(t, o, v)

Unserved(t, o) ==
    /\ Runs(t, o)
    /\ (\E v \in Frames : EvictionFails(t, o, v)) \/ ReadFails(t, o) \/ Busy(t, o) \/ Wait(t, o)

\* What a new frame is created with.
Fresh(k, p) == IF k = "zero" THEN Zero ELSE file_data[p]

\* A step of the thread that gives no frame a value.
Silent(t) ==
    \/ \E o \in CallOps : Unserved(t, o)
    \/ SpuriousWakeup(t)
    \/ \E f \in Frames : Retain(t, f) \/ Release(t, f) \/ Control(t, f)
    \/ CreateCopyFails(t)
    \/ Reclaim(t)

Record(f, v) == written' = [written EXCEPT ![f] = v]

ObservedNext ==
    \/ \E t \in Threads :
        \/ \E o \in CallOps : Served(t, o) /\ (IF Writes(o) THEN Record(o.f, o.v) ELSE UNCHANGED written)
        \/ \E f \in Frames, k \in Kinds, p \in Pages \cup {NoPage} : Create(t, f, k, p) /\ Record(f, Fresh(k, p))
        \/ \E f \in Frames : /\ CreateCopy(t, f)
                             /\ Record(f, Fresh(IF op[t].p = NoPage THEN "zero" ELSE "shared", op[t].p))
        \/ Drop(t) /\ Record(op[t].f, NoFrame)
        \/ Silent(t) /\ UNCHANGED written
    \/ (StoreDestroy \/ Freed) /\ UNCHANGED written

ObservedInit == Init /\ written = [f \in Frames |-> NoFrame]

\* The store with the history of its calls.
ObservedSpec == ObservedInit /\ [][ObservedNext]_allVars

\* What a caller finds in frame f: its slot of the arena, or the swap slot or
\* file page it is read back from.
Content(f) ==
    IF kind[f] = "none" THEN NoFrame
    ELSE IF f \in Resident THEN Data(f)
    ELSE BackingData(f)

\* The cells, the file page each of them is kept in, and what copies have read.
Cells == [f \in Frames |-> Content(f)]
Homes == [f \in Frames |-> IF IsSharedFile(f) THEN page[f] ELSE NoPage]
Taken == [t \in Threads |-> IF op[t].k \in {"create", "fill"} THEN op[t].v ELSE NoFrame]

Memory == INSTANCE FrameMemory WITH
    Gone <- NoFrame, cell <- Cells, home <- Homes, buf <- Taken,
    stored <- file_data, latched <- writeback_error

\* The store with its arena, swap file and waits implements FrameMemory: a frame
\* holds what the last call that returned has stored in it (frame.c:587-640), no
\* write is lost, and none happens that no call made.
ImplementsMemory == Memory!Spec

=============================================================================
