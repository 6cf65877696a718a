----------------------------- MODULE FrameStore -----------------------------
(***************************************************************************)
(* The frame store (src/frame.c): page frames that live in a fixed arena   *)
(* of resident slots, are written back to a swap file or to the file page  *)
(* they cache, and are evicted cold-first and least recently used.  One    *)
(* mutex, store->lock, serialises every operation; an operation is one     *)
(* step here unless it gives the mutex up (the condition wait of           *)
(* make_resident, the three calls of frame_copy, the decrement that comes  *)
(* before the lock in frame_release, the iterations of store_reclaim,      *)
(* which keep it).                                                         *)
(*                                                                         *)
(* Counters that only count holders are kept as the set of the holders:    *)
(* references, pin_count and transient_pin_count of a frame are the sizes  *)
(* of refs[f], pins[f] and transient_pins[f].  A page of bytes is one      *)
(* value.  The order of last_access stamps among resident frames is the    *)
(* relation older.  Free slots are sets: which free slot is taken does not *)
(* matter to any property.                                                 *)
(***************************************************************************)
EXTENDS Integers, FiniteSets

CONSTANTS
    Frames,         \* frame objects; a freed one may be allocated again
    Threads,        \* users of frames: each holds at most one reference to a frame
    Values, Zero,   \* page contents; Zero is the zero-filled page
    Backings,       \* open note files (minimm_file_backing_t)
    Pages,          \* their pages
    BackingOf,      \* the file a page belongs to
    Kinds,          \* the kinds of frames created: "zero", "shared", "private"
    Calls,          \* the calls made on frames: "read", "write", "copy"
    Lockers,        \* the users that pin frames for long (LOCKED mappings)
    Accessors,      \* the users that pin frames for an access
    ResidentLimit,  \* resident_limit
    MaxSwap,        \* slots the swap file has room for
    MaxTarget,      \* largest target_pages of a reclaim
    MaxCount,       \* where counters saturate (UINT64_MAX)
    NoFrame, NoPage, NoThread

ASSUME ConstantsAssumption ==
    /\ Zero \in Values
    /\ BackingOf \in [Pages -> Backings]
    /\ Kinds \subseteq {"zero", "shared", "private"}
    /\ Calls \subseteq {"read", "write", "copy"}
    /\ Lockers \subseteq Threads /\ Accessors \subseteq Threads
    /\ ResidentLimit \in Nat \ {0}
    /\ MaxSwap \in Nat
    /\ MaxTarget \in Nat
    /\ MaxCount \in Nat
    /\ NoFrame \notin Frames \cup Values
    /\ NoPage \notin Pages
    /\ NoThread \notin Threads
    /\ IsFiniteSet(Frames)

NoSlot == -1
Slots == 0 .. ResidentLimit - 1
SwapSlots == 0 .. MaxSwap - 1

VARIABLES
    store,          \* "open", "closing" (destroy_requested) or "freed"
    kind, page,     \* source and file_shared, file_backing and file_offset
    refs, pins, transient_pins,
    resident_slot,  \* the slot of a frame whose data is not NULL
    arena, free_slots, resident_count,
    swap_slot, swap_file, free_swap, high_water,
    file_data, writeback_error,
    dirty, cold, reclaim_pending, older,
    reclaim_count, refault_count,
    op,             \* what each thread is in the middle of
    waiters,        \* threads blocked on transient_unpinned
    lock, left      \* the thread inside store_reclaim, and how many it still wants

frameVars == <<kind, page>>
holdVars == <<refs, pins, transient_pins>>
slotVars == <<resident_slot, free_slots, resident_count>>
swapVars == <<swap_slot, swap_file, free_swap, high_water>>
fileVars == <<file_data, writeback_error>>
ageVars == <<cold, reclaim_pending, older, reclaim_count, refault_count>>
callVars == <<op, waiters>>
lockVars == <<lock, left>>
vars == <<store, frameVars, holdVars, slotVars, arena, swapVars, fileVars,
          dirty, ageVars, callVars, lockVars>>

Idle == [k |-> "idle", f |-> NoFrame, v |-> Zero, p |-> NoPage]
Ops == [k : {"idle", "read", "write", "copy", "create", "fill", "drop"},
        f : Frames \cup {NoFrame}, v : Values, p : Pages \cup {NoPage}]

\* A copy that has read data and must create its frame, then fill it; a last
\* release on its way to the lock.
Creating(o, data) == [k |-> "create", f |-> o.f, v |-> data, p |-> o.p]
Filling(f, data) == [k |-> "fill", f |-> f, v |-> data, p |-> NoPage]
Dropping(f) == [k |-> "drop", f |-> f, v |-> Zero, p |-> NoPage]

Init ==
    /\ store = "open"
    /\ kind = [f \in Frames |-> "none"]
    /\ page = [f \in Frames |-> NoPage]
    /\ refs = [f \in Frames |-> {}]
    /\ pins = [f \in Frames |-> {}]
    /\ transient_pins = [f \in Frames |-> {}]
    /\ resident_slot = [f \in Frames |-> NoSlot]
    /\ arena = [s \in Slots |-> Zero]
    /\ free_slots = Slots
    /\ resident_count = 0
    /\ swap_slot = [f \in Frames |-> NoSlot]
    /\ swap_file = [s \in SwapSlots |-> Zero]
    /\ free_swap = {}
    /\ high_water = 0
    /\ file_data = [p \in Pages |-> Zero]
    /\ writeback_error = {}
    /\ dirty = {} /\ cold = {} /\ reclaim_pending = {}
    /\ older = [f \in Frames |-> {}]
    /\ reclaim_count = 0 /\ refault_count = 0
    /\ op = [t \in Threads |-> Idle]
    /\ waiters = {}
    /\ lock = NoThread /\ left = 0

-----------------------------------------------------------------------------
(* Views of a frame.                                                       *)

Live == {f \in Frames : kind[f] # "none"}
Resident == {f \in Frames : resident_slot[f] # NoSlot}
Data(f) == arena[resident_slot[f]]
IsSharedFile(f) == kind[f] = "shared"

\* What a page-in reads: the swap slot if there is one, else the file page,
\* else zeros.
BackingData(f) ==
    IF swap_slot[f] # NoSlot THEN swap_file[swap_slot[f]]
    ELSE IF kind[f] \in {"shared", "private"} THEN file_data[page[f]]
    ELSE Zero

Saturating(n) == IF n < MaxCount THEN n + 1 ELSE n

-----------------------------------------------------------------------------
(* Write-back of a dirty resident frame.  A failed write leaves any value  *)
(* behind, since the page may have been written in part.                   *)

FileWriteOk(f) ==
    /\ BackingOf[page[f]] \notin writeback_error
    /\ file_data' = [file_data EXCEPT ![page[f]] = Data(f)]
    /\ UNCHANGED writeback_error

FileWriteFail(f) ==
    \/ /\ BackingOf[page[f]] \in writeback_error
       /\ UNCHANGED fileVars
    \/ /\ BackingOf[page[f]] \notin writeback_error
       /\ \E v \in Values : file_data' = [file_data EXCEPT ![page[f]] = v]
       /\ writeback_error' = writeback_error \cup {BackingOf[page[f]]}

\* acquire_swap_slot: the frame's own slot, else a free one, else a new one.
SwapChoices(f) ==
    IF swap_slot[f] # NoSlot THEN {swap_slot[f]}
    ELSE IF free_swap # {} THEN free_swap
    ELSE IF high_water < MaxSwap THEN {high_water}
    ELSE {}

\* Seeded fault: a reused slot stays on the free list.
AcquireSwapSlotStillFree(f, s) ==
    /\ s \in SwapChoices(f)
    /\ swap_slot' = [swap_slot EXCEPT ![f] = s]
    /\ UNCHANGED free_swap
    /\ high_water' = IF s = high_water THEN high_water + 1 ELSE high_water

AcquireSwapSlot(f, s) ==
    /\ s \in SwapChoices(f)
    /\ swap_slot' = [swap_slot EXCEPT ![f] = s]
    /\ free_swap' = free_swap \ {s}
    /\ high_water' = IF s = high_water THEN high_water + 1 ELSE high_water

SwapWriteOk(f) ==
    \E s \in SwapSlots :
        /\ AcquireSwapSlot(f, s)
        /\ swap_file' = [swap_file EXCEPT ![s] = Data(f)]

\* No slot (no space, or no memory for a new one), or the slot is acquired and
\* kept and the write fails.
SwapWriteFail(f) ==
    \/ /\ swap_slot[f] = NoSlot /\ free_swap = {}
       /\ UNCHANGED swapVars
    \/ \E s \in SwapSlots, v \in Values :
        /\ AcquireSwapSlot(f, s)
        /\ swap_file' = [swap_file EXCEPT ![s] = v]

\* Seeded fault: a dirty private page is dropped as if it were clean.
WriteBackSharedOnly(f) ==
    \/ ~(f \in dirty /\ IsSharedFile(f)) /\ UNCHANGED <<swapVars, fileVars>>
    \/ f \in dirty /\ IsSharedFile(f) /\ FileWriteOk(f) /\ UNCHANGED swapVars

\* The caller takes f out of dirty when the write-back succeeds.
WriteBackOk(f) ==
    \/ f \notin dirty /\ UNCHANGED <<swapVars, fileVars>>
    \/ f \in dirty /\ IsSharedFile(f) /\ FileWriteOk(f) /\ UNCHANGED swapVars
    \/ f \in dirty /\ ~IsSharedFile(f) /\ SwapWriteOk(f) /\ UNCHANGED fileVars

WriteBackFail(f) ==
    \/ f \in dirty /\ IsSharedFile(f) /\ FileWriteFail(f) /\ UNCHANGED swapVars
    \/ f \in dirty /\ ~IsSharedFile(f) /\ SwapWriteFail(f) /\ UNCHANGED fileVars

-----------------------------------------------------------------------------
(* Victim selection.                                                       *)

\* Seeded fault: victim selection looks at long pins only.
UnpinnedForLong(f) == pins[f] = {}

Unpinned(f) == pins[f] = {} /\ transient_pins[f] = {}
Candidates(excluded) == {f \in Resident \ {excluded} : Unpinned(f)}

\* v is the candidate that precedes all others: cold before warm, then the
\* smallest last_access (stamps are distinct, so ids never break a tie).
IsVictim(v, excluded) ==
    LET candidates == Candidates(excluded)
        first == IF candidates \cap cold # {} THEN candidates \cap cold ELSE candidates
    IN  v \in first /\ older[v] \cap first = {}

HasTransientVictim(excluded) ==
    \E f \in Resident \ {excluded} : pins[f] = {} /\ transient_pins[f] # {}

\* Seeded fault: an access does not stamp last_access.
NotTouched(o, f, others) == o

\* The order o after f is stamped with the clock, others being the other
\* resident frames, and after f leaves the arena.
Touched(o, f, others) == [g \in Frames |-> IF g = f THEN others ELSE o[g] \ {f}]
Forgotten(o, f) == [g \in Frames |-> IF g = f THEN {} ELSE o[g] \ {f}]

-----------------------------------------------------------------------------
(* Calls that make a frame resident: ensure_resident and read ("read"),    *)
(* write ("write"), the read of frame_copy and copy_file ("copy") and the  *)
(* write that fills the copy ("fill").                                     *)

CallOps == [k : {"read", "write", "copy", "fill"}, f : Frames, v : Values,
            p : Pages \cup {NoPage}]

\* The note layer keeps one frame per file page: a page gets a frame only
\* while no live frame caches it and no copy is on its way to it.  (After a
\* shrink the frames of the cut pages, clean and unreachable, are released
\* outside the lineage lock: NoteLineage shows that they write nothing back.)
PageUnused(p) ==
    /\ \A f \in Frames : page[f] # p
    /\ \A t \in Threads : op[t].p # p

\* A caller holds a reference to the frame.  A thread that holds a transient
\* pin reads or writes the pinned frame and nothing else before it unpins
\* (access.c); move_ptes_fixed makes no call at all.
NewCall(t, o) ==
    /\ op[t] = Idle
    /\ o.k \in Calls
    /\ t \in refs[o.f]
    /\ o.k # "write" => o.v = Zero
    /\ o.p # NoPage => o.k = "copy" /\ "shared" \in Kinds /\ PageUnused(o.p)
    /\ \A f \in Frames : t \in transient_pins[f] => f = o.f /\ o.k # "copy"

Runs(t, o) ==
    /\ lock = NoThread
    /\ \/ NewCall(t, o)
       \/ op[t] = o /\ t \notin waiters

Writes(o) == o.k \in {"write", "fill"}
Stored(o, data) == IF Writes(o) THEN o.v ELSE data
Dirtied(o) == IF Writes(o) THEN {o.f} ELSE {}

\* The call succeeds; a copy goes on to create its frame with what it read.
Returned(t, o, data) ==
    op' = [op EXCEPT ![t] = IF o.k = "copy" THEN Creating(o, data) ELSE Idle]

\* The call fails; frame_copy then releases the frame it could not fill.
Failed(t, o) ==
    /\ op' = [op EXCEPT ![t] = IF o.k = "fill" THEN Dropping(o.f) ELSE Idle]
    /\ refs' = IF o.k = "fill" THEN [refs EXCEPT ![o.f] = @ \ {t}] ELSE refs

\* One iteration of make_resident_locked for a call that runs: Hit to Wait.
\* frame->data is there: only the clock moves.
Hit(t, o) ==
    /\ o.f \in Resident
    /\ arena' = [arena EXCEPT ![resident_slot[o.f]] = Stored(o, @)]
    /\ dirty' = dirty \cup Dirtied(o)
    /\ cold' = cold \ {o.f}
    /\ older' = Touched(older, o.f, Resident \ {o.f})
    /\ Returned(t, o, Data(o.f))
    /\ UNCHANGED <<store, frameVars, holdVars, slotVars, swapVars, fileVars, waiters,
                   reclaim_pending, reclaim_count, refault_count, lockVars>>

\* The first page-in after a policy reclaim counts as a refault.
CountRefault(f) ==
    refault_count' = IF f \in reclaim_pending THEN Saturating(refault_count) ELSE refault_count

\* A page-in while the arena has room.
PageIn(t, o) ==
    /\ o.f \notin Resident
    /\ resident_count < ResidentLimit
    /\ \E s \in free_slots :
        /\ free_slots' = free_slots \ {s}
        /\ resident_slot' = [resident_slot EXCEPT ![o.f] = s]
        /\ arena' = [arena EXCEPT ![s] = Stored(o, BackingData(o.f))]
    /\ resident_count' = resident_count + 1
    /\ dirty' = dirty \cup Dirtied(o)
    /\ cold' = cold \ {o.f}
    /\ older' = Touched(older, o.f, Resident)
    /\ reclaim_pending' = reclaim_pending \ {o.f}
    /\ CountRefault(o.f)
    /\ Returned(t, o, BackingData(o.f))
    /\ UNCHANGED <<store, frameVars, holdVars, swapVars, fileVars, waiters, reclaim_count,
                   lockVars>>

\* A page-in that reclaims victim v first.  The backing was read before the
\* victim's write-back; the slot v gives up is the one on top of the free list.
PageInEvicting(t, o, v) ==
    /\ o.f \notin Resident
    /\ resident_count >= ResidentLimit
    /\ IsVictim(v, o.f)
    /\ WriteBackOk(v)
    /\ resident_slot' = [resident_slot EXCEPT ![v] = NoSlot, ![o.f] = resident_slot[v]]
    /\ arena' = [arena EXCEPT ![resident_slot[v]] = Stored(o, BackingData(o.f))]
    /\ dirty' = (dirty \ {v}) \cup Dirtied(o)
    /\ cold' = cold \ {v, o.f}
    /\ older' = Touched(Forgotten(older, v), o.f, Resident \ {v})
    /\ reclaim_pending' = (reclaim_pending \ {o.f}) \cup {v}
    /\ reclaim_count' = Saturating(reclaim_count)
    /\ CountRefault(o.f)
    /\ Returned(t, o, BackingData(o.f))
    /\ UNCHANGED <<store, frameVars, holdVars, free_slots, resident_count, waiters, lockVars>>

\* The victim cannot be written back: the page-in of the other frame fails.
EvictionFails(t, o, v) ==
    /\ o.f \notin Resident
    /\ resident_count >= ResidentLimit
    /\ IsVictim(v, o.f)
    /\ WriteBackFail(v)
    /\ Failed(t, o)
    /\ UNCHANGED <<store, frameVars, pins, transient_pins, slotVars, arena, dirty, ageVars,
                   waiters, lockVars>>

\* The backing cannot be read (a page of zeros always can).
ReadFails(t, o) ==
    /\ o.f \notin Resident
    /\ swap_slot[o.f] # NoSlot \/ kind[o.f] # "zero"
    /\ Failed(t, o)
    /\ UNCHANGED <<store, frameVars, pins, transient_pins, slotVars, arena, swapVars, fileVars,
                   dirty, ageVars, waiters, lockVars>>

NothingToEvict(f) ==
    f \notin Resident /\ resident_count >= ResidentLimit /\ Candidates(f) = {}

\* Every resident frame is pinned for long: the call returns BUSY.
Busy(t, o) ==
    /\ NothingToEvict(o.f)
    /\ ~HasTransientVictim(o.f)
    /\ Failed(t, o)
    /\ UNCHANGED <<store, frameVars, pins, transient_pins, slotVars, arena, swapVars, fileVars,
                   dirty, ageVars, waiters, lockVars>>

\* Some resident frame is only pinned by an access in progress: wait for it.
Wait(t, o) ==
    /\ NothingToEvict(o.f)
    /\ HasTransientVictim(o.f)
    /\ op' = [op EXCEPT ![t] = o]
    /\ waiters' = waiters \cup {t}
    /\ UNCHANGED <<store, frameVars, holdVars, slotVars, arena, swapVars, fileVars, dirty,
                   ageVars, lockVars>>

\* pthread_cond_wait may return without a broadcast.
SpuriousWakeup(t) ==
    /\ t \in waiters
    /\ waiters' = waiters \ {t}
    /\ UNCHANGED <<store, frameVars, holdVars, slotVars, arena, swapVars, fileVars, dirty,
                   ageVars, op, lockVars>>

-----------------------------------------------------------------------------
(* Allocation and references.                                              *)

\* A new frame joins the list with one reference and no data.
Allocate(t, f, k, p) ==
    /\ lock = NoThread
    /\ store = "open"
    /\ kind[f] = "none"
    /\ kind' = [kind EXCEPT ![f] = k]
    /\ page' = [page EXCEPT ![f] = p]
    /\ refs' = [refs EXCEPT ![f] = {t}]
    /\ UNCHANGED <<store, pins, transient_pins, slotVars, arena, swapVars, fileVars, dirty,
                   ageVars, waiters, lockVars>>

\* create_zero, create_file and create_file_backing.
Create(t, f, k, p) ==
    /\ op[t] = Idle
    /\ k \in Kinds
    /\ IF k = "zero" THEN p = NoPage ELSE p \in Pages /\ PageUnused(p)
    /\ Allocate(t, f, k, p)
    /\ UNCHANGED op

\* The second call of frame_copy (a zero frame) and of copy_file (a shared one).
CreateCopy(t, f) ==
    /\ op[t].k = "create"
    /\ Allocate(t, f, IF op[t].p = NoPage THEN "zero" ELSE "shared", op[t].p)
    /\ op' = [op EXCEPT ![t] = Filling(f, op[t].v)]

\* No memory, no more ids, or destroy was requested.
CreateCopyFails(t) ==
    /\ op[t].k = "create"
    /\ op' = [op EXCEPT ![t] = Idle]
    /\ UNCHANGED <<store, frameVars, holdVars, slotVars, arena, swapVars, fileVars, dirty,
                   ageVars, waiters, lockVars>>

\* Whoever can reach the frame may take a reference: the copy that is being
\* filled is reachable by its maker only.
Retain(t, f) ==
    /\ op[t] = Idle /\ lock # t
    /\ t \notin refs[f]
    /\ \E u \in refs[f] : op[u].k # "fill" \/ op[u].f # f
    /\ refs' = [refs EXCEPT ![f] = @ \cup {t}]
    /\ UNCHANGED <<store, frameVars, pins, transient_pins, slotVars, arena, swapVars, fileVars,
                   dirty, ageVars, callVars, lockVars>>

\* The atomic decrement of frame_release, outside the lock.  A holder unpins
\* before it releases (page_table.c, access.c).
Release(t, f) ==
    /\ op[t] = Idle /\ lock # t
    /\ t \in refs[f] /\ t \notin pins[f] /\ t \notin transient_pins[f]
    /\ refs' = [refs EXCEPT ![f] = @ \ {t}]
    /\ op' = IF refs[f] = {t} THEN [op EXCEPT ![t] = Dropping(f)] ELSE op
    /\ UNCHANGED <<store, frameVars, pins, transient_pins, slotVars, arena, swapVars, fileVars,
                   dirty, ageVars, waiters, lockVars>>

\* The last write-back of a frame that is going away; its status is ignored.
FinalWriteBack(f) ==
    IF IsSharedFile(f) /\ f \in dirty THEN FileWriteOk(f) \/ FileWriteFail(f)
    ELSE UNCHANGED fileVars

\* The rest of frame_release after the last reference: write back, unlink,
\* give the slots back, and free the store if this was its last frame.  The
\* freed slot wakes nobody.
Drop(t) ==
    LET f == op[t].f IN
    /\ lock = NoThread
    /\ op[t].k = "drop"
    /\ FinalWriteBack(f)
    /\ kind' = [kind EXCEPT ![f] = "none"]
    /\ page' = [page EXCEPT ![f] = NoPage]
    /\ resident_slot' = [resident_slot EXCEPT ![f] = NoSlot]
    /\ free_slots' = IF f \in Resident THEN free_slots \cup {resident_slot[f]} ELSE free_slots
    /\ resident_count' = IF f \in Resident THEN resident_count - 1 ELSE resident_count
    /\ swap_slot' = [swap_slot EXCEPT ![f] = NoSlot]
    /\ free_swap' = IF swap_slot[f] # NoSlot THEN free_swap \cup {swap_slot[f]} ELSE free_swap
    /\ dirty' = dirty \ {f}
    /\ cold' = cold \ {f}
    /\ older' = Forgotten(older, f)
    /\ reclaim_pending' = reclaim_pending \ {f}
    /\ store' = IF store = "closing" /\ Live = {f} THEN "freed" ELSE store
    /\ op' = [op EXCEPT ![t] = Idle]
    /\ UNCHANGED <<holdVars, arena, swap_file, high_water, reclaim_count, refault_count,
                   waiters, lockVars>>

\* store_destroy: the store goes away now or with its last frame.
StoreDestroy ==
    /\ lock = NoThread
    /\ store = "open"
    /\ store' = IF Live = {} THEN "freed" ELSE "closing"
    /\ UNCHANGED <<frameVars, holdVars, slotVars, arena, swapVars, fileVars, dirty, ageVars,
                   callVars, lockVars>>

-----------------------------------------------------------------------------
(* Single calls on a frame the caller holds.                               *)

Holds(t, f) == lock = NoThread /\ op[t] = Idle /\ t \in refs[f]

Sync(t, f) ==
    /\ Holds(t, f)
    /\ IsSharedFile(f) /\ f \in Resident
    /\ \/ WriteBackOk(f) /\ dirty' = dirty \ {f}
       \/ WriteBackFail(f) /\ UNCHANGED dirty
    /\ UNCHANGED <<store, frameVars, holdVars, slotVars, arena, ageVars, callVars, lockVars>>

\* page_out_locked after the write-back.
GiveUpSlot(f) ==
    /\ dirty' = dirty \ {f}
    /\ resident_slot' = [resident_slot EXCEPT ![f] = NoSlot]
    /\ free_slots' = free_slots \cup {resident_slot[f]}
    /\ resident_count' = resident_count - 1
    /\ cold' = cold \ {f}
    /\ older' = Forgotten(older, f)

\* MADV_PAGEOUT; not a policy reclaim.  Pinned frames are refused.
PageOut(t, f) ==
    /\ Holds(t, f)
    /\ f \in Resident /\ Unpinned(f)
    /\ \/ /\ WriteBackOk(f)
          /\ GiveUpSlot(f)
       \/ /\ WriteBackFail(f)
          /\ UNCHANGED <<dirty, slotVars, cold, older>>
    /\ UNCHANGED <<store, frameVars, holdVars, arena, reclaim_pending, reclaim_count,
                   refault_count, callVars, lockVars>>

MarkCold(t, f) ==
    /\ Holds(t, f)
    /\ f \in Resident
    /\ cold' = cold \cup {f}
    /\ UNCHANGED <<store, frameVars, holdVars, slotVars, arena, swapVars, fileVars, dirty,
                   reclaim_pending, older, reclaim_count, refault_count, callVars, lockVars>>

PinStep ==
    UNCHANGED <<store, frameVars, refs, slotVars, arena, swapVars, fileVars, dirty, ageVars, op,
                lockVars>>

\* A LOCKED page-table entry pins its frame, resident or not.
Pin(t, f) ==
    /\ Holds(t, f)
    /\ t \in Lockers
    /\ t \notin pins[f]
    /\ pins' = [pins EXCEPT ![f] = @ \cup {t}]
    /\ PinStep /\ UNCHANGED <<transient_pins, waiters>>

Unpin(t, f) ==
    /\ Holds(t, f)
    /\ t \in pins[f]
    /\ pins' = [pins EXCEPT ![f] = @ \ {t}]
    /\ PinStep /\ UNCHANGED <<transient_pins, waiters>>

TryPinResident(t, f) ==
    /\ Holds(t, f)
    /\ t \in Accessors
    /\ f \in Resident
    /\ t \notin transient_pins[f]
    /\ transient_pins' = [transient_pins EXCEPT ![f] = @ \cup {t}]
    /\ PinStep /\ UNCHANGED <<pins, waiters>>

\* Seeded fault: the end of an access does not broadcast.
UnpinSilently(t, f) ==
    /\ Holds(t, f)
    /\ t \in transient_pins[f]
    /\ transient_pins' = [transient_pins EXCEPT ![f] = @ \ {t}]
    /\ PinStep /\ UNCHANGED <<pins, waiters>>

UnpinResident(t, f) ==
    /\ Holds(t, f)
    /\ t \in transient_pins[f]
    /\ transient_pins' = [transient_pins EXCEPT ![f] = @ \ {t}]
    /\ waiters' = {}
    /\ PinStep /\ UNCHANGED pins

-----------------------------------------------------------------------------
(* store_reclaim keeps the lock from its first victim to its last.         *)

ReclaimStart(t, target) ==
    /\ lock = NoThread
    /\ op[t] = Idle
    /\ store = "open"
    /\ lock' = t
    /\ left' = target
    /\ UNCHANGED <<store, frameVars, holdVars, slotVars, arena, swapVars, fileVars, dirty,
                   ageVars, callVars>>

ReclaimVictim(t, v) ==
    /\ lock = t
    /\ left > 0
    /\ IsVictim(v, NoFrame)
    /\ WriteBackOk(v)
    /\ GiveUpSlot(v)
    /\ reclaim_pending' = reclaim_pending \cup {v}
    /\ reclaim_count' = Saturating(reclaim_count)
    /\ left' = left - 1
    /\ UNCHANGED <<store, frameVars, holdVars, arena, refault_count, callVars, lock>>

ReclaimFails(t, v) ==
    /\ lock = t
    /\ left > 0
    /\ IsVictim(v, NoFrame)
    /\ WriteBackFail(v)
    /\ lock' = NoThread
    /\ left' = 0
    /\ UNCHANGED <<store, frameVars, holdVars, slotVars, arena, dirty, ageVars, callVars>>

\* Enough reclaimed, or nothing left to reclaim.
ReclaimEnd(t) ==
    /\ lock = t
    /\ left = 0 \/ Candidates(NoFrame) = {}
    /\ lock' = NoThread
    /\ left' = 0
    /\ UNCHANGED <<store, frameVars, holdVars, slotVars, arena, swapVars, fileVars, dirty,
                   ageVars, callVars>>

-----------------------------------------------------------------------------
Access(t, o) ==
    /\ Runs(t, o)
    /\ \/ Hit(t, o)
       \/ PageIn(t, o)
       \/ \E v \in Frames : PageInEvicting(t, o, v) \/ EvictionFails(t, o, v)
       \/ ReadFails(t, o)
       \/ Busy(t, o)
       \/ Wait(t, o)

Lifetime(t) ==
    \/ \E f \in Frames, k \in Kinds, p \in Pages \cup {NoPage} : Create(t, f, k, p)
    \/ \E f \in Frames : CreateCopy(t, f) \/ Retain(t, f) \/ Release(t, f)
    \/ CreateCopyFails(t)
    \/ Drop(t)

Control(t, f) ==
    \/ Sync(t, f)
    \/ PageOut(t, f)
    \/ MarkCold(t, f)
    \/ Pin(t, f)
    \/ Unpin(t, f)
    \/ TryPinResident(t, f)
    \/ UnpinResident(t, f)

Reclaim(t) ==
    \/ \E target \in 1 .. MaxTarget : ReclaimStart(t, target)
    \/ \E v \in Frames : ReclaimVictim(t, v) \/ ReclaimFails(t, v)
    \/ ReclaimEnd(t)

\* The freed store stays freed.
Freed == store = "freed" /\ UNCHANGED vars

Next ==
    \/ \E t \in Threads :
        \/ \E o \in CallOps : Access(t, o)
        \/ SpuriousWakeup(t)
        \/ Lifetime(t)
        \/ \E f \in Frames : Control(t, f)
        \/ Reclaim(t)
    \/ StoreDestroy
    \/ Freed

Spec == Init /\ [][Next]_vars

-----------------------------------------------------------------------------
(* Properties.                                                             *)

\* Frames, their references and pins.
FramesTyped ==
    /\ store \in {"open", "closing", "freed"}
    /\ kind \in [Frames -> {"none", "zero", "shared", "private"}]
    /\ page \in [Frames -> Pages \cup {NoPage}]
    /\ refs \in [Frames -> SUBSET Threads]
    /\ pins \in [Frames -> SUBSET Threads]
    /\ transient_pins \in [Frames -> SUBSET Threads]

\* Resident slots and what they hold.
ArenaTyped ==
    /\ resident_slot \in [Frames -> Slots \cup {NoSlot}]
    /\ arena \in [Slots -> Values]
    /\ free_slots \in SUBSET Slots
    /\ resident_count \in 0 .. ResidentLimit
    /\ dirty \in SUBSET Frames

\* The swap file and the note files.
BackingsTyped ==
    /\ swap_slot \in [Frames -> SwapSlots \cup {NoSlot}]
    /\ swap_file \in [SwapSlots -> Values]
    /\ free_swap \in SUBSET SwapSlots
    /\ high_water \in 0 .. MaxSwap
    /\ file_data \in [Pages -> Values]
    /\ writeback_error \in SUBSET Backings

\* Eviction order and counters.
AgesTyped ==
    /\ cold \in SUBSET Frames
    /\ reclaim_pending \in SUBSET Frames
    /\ older \in [Frames -> SUBSET Frames]
    /\ reclaim_count \in 0 .. MaxCount
    /\ refault_count \in 0 .. MaxCount

\* Calls in progress, waits and the reclaim under the lock.
CallsTyped ==
    /\ op \in [Threads -> Ops]
    /\ waiters \in SUBSET Threads
    /\ lock \in Threads \cup {NoThread}
    /\ left \in 0 .. MaxTarget

TypeOK == FramesTyped /\ ArenaTyped /\ BackingsTyped /\ AgesTyped /\ CallsTyped

\* Two resident frames never share a slot, no slot is both used and free, none
\* is lost, and resident_count counts them: make_resident_locked always finds
\* the slot it has made room for, and no abort of
\* release_resident_slot_locked is reached.
ArenaPartition ==
    /\ \A f, g \in Resident : resident_slot[f] = resident_slot[g] => f = g
    /\ \A f \in Resident : resident_slot[f] \notin free_slots
    /\ Slots = free_slots \cup {resident_slot[f] : f \in Resident}
    /\ resident_count = Cardinality(Resident)

\* The same for swap slots: up to the high-water mark each is free or belongs
\* to one frame, through failed writes and reuse.
SwapPartition ==
    /\ \A f, g \in Frames : swap_slot[f] # NoSlot /\ swap_slot[f] = swap_slot[g] => f = g
    /\ \A f \in Frames : swap_slot[f] \notin free_swap
    /\ 0 .. high_water - 1 =
        free_swap \cup {swap_slot[f] : f \in {g \in Frames : swap_slot[g] # NoSlot}}

\* A clean resident frame equals its backing and only resident frames are
\* dirty: a page-out that writes nothing loses nothing, also after a swap
\* write that failed half-way into a slot the frame keeps.
CleanIsBacked ==
    /\ dirty \subseteq Resident
    /\ \A f \in Resident \ dirty : Data(f) = BackingData(f)

\* Only live frames are referenced or own a slot; only holders pin; a transient
\* pin is on a resident frame.
FrameOwnership ==
    \A f \in Frames :
        /\ kind[f] = "none" =>
            refs[f] = {} /\ resident_slot[f] = NoSlot /\ swap_slot[f] = NoSlot
        /\ pins[f] \subseteq refs[f]
        /\ transient_pins[f] \subseteq refs[f]
        /\ transient_pins[f] # {} => f \in Resident

\* A call in progress is on a frame its thread holds, alone if it fills a copy;
\* a frame being dropped is live and has one dropper and no holder left.
CallOwnership ==
    \A t \in Threads :
        /\ op[t].k # "idle" => op[t].f \in Frames
        /\ op[t].k \in {"read", "write", "copy", "create", "fill"} => t \in refs[op[t].f]
        /\ op[t].k = "fill" => /\ refs[op[t].f] = {t}
                               /\ pins[op[t].f] = {}
                               /\ transient_pins[op[t].f] = {}
        /\ op[t].k = "drop" => /\ refs[op[t].f] = {}
                               /\ kind[op[t].f] # "none"
        /\ op[t].k = "drop" =>
            \A u \in Threads : op[u].k = "drop" /\ op[u].f = op[t].f => u = t

\* A file page has one frame, or one copy on its way to it; shared frames never
\* own a swap slot.
PageOwnership ==
    /\ \A f \in Frames :
        /\ page[f] # NoPage <=> kind[f] \in {"shared", "private"}
        /\ kind[f] = "shared" => swap_slot[f] = NoSlot
    /\ \A f, g \in Frames : page[f] # NoPage /\ page[f] = page[g] => f = g
    /\ \A t \in Threads :
        /\ op[t].p # NoPage => op[t].k \in {"copy", "create"}
        /\ op[t].p # NoPage => \A f \in Frames : page[f] # op[t].p
        /\ \A u \in Threads : op[t].p # NoPage /\ op[t].p = op[u].p => t = u

\* A thread waits on transient_unpinned only while some access still holds a
\* transient pin, whose release will broadcast.
WaitersHavePinner ==
    waiters # {} => \E f \in Frames : transient_pins[f] # {}

\* A freed store has no frame, and no thread is inside it or holds a frame.
FreedIsUnused ==
    store = "freed" =>
        /\ Live = {}
        /\ lock = NoThread
        /\ \A t \in Threads : op[t] = Idle
        /\ \A f \in Frames : refs[f] = {}

\* Waiting threads are inside a call, and store_reclaim is entered by an idle
\* thread of an open store.
Bookkeeping ==
    /\ \A t \in waiters : op[t].k \in {"read", "write", "copy", "fill"}
    /\ lock # NoThread => op[lock] = Idle /\ store = "open"
    /\ \A t \in Threads : op[t].k = "idle" => op[t] = Idle

\* The access stamps order the resident frames: one of any two is older, and any
\* of them have an oldest.
AgesOrdered ==
    /\ \A f, g \in Resident : f # g => f \in older[g] \/ g \in older[f]
    /\ \A S \in SUBSET Resident : S # {} => \E f \in S : older[f] \cap S = {}

\* If an unpinned frame can be evicted, exactly one is the victim: the order
\* of the access stamps has no ties and no gaps.
VictimIsUnique ==
    \A excluded \in Frames \cup {NoFrame} :
        Candidates(excluded) # {} =>
            \E v \in Frames : \A w \in Frames : IsVictim(w, excluded) <=> w = v

\* The inductive invariant behind the safety properties above.
Inv ==
    /\ TypeOK
    /\ ArenaPartition
    /\ SwapPartition
    /\ CleanIsBacked
    /\ FrameOwnership
    /\ CallOwnership
    /\ PageOwnership
    /\ WaitersHavePinner
    /\ Bookkeeping
    /\ FreedIsUnused

\* No step moves or evicts the data of a frame that is pinned either way, so
\* the pointer try_pin_resident protects stays valid until the unpin.
PinnedStay ==
    [][\A f \in Resident : pins[f] # {} \/ transient_pins[f] # {}
            => resident_slot'[f] = resident_slot[f]]_vars

=============================================================================
