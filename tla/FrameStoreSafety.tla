-------------------------- MODULE FrameStoreSafety --------------------------
(***************************************************************************)
(* The part of the induction about who holds, pins, fills, drops and waits *)
(* for a frame, about file pages, about the replacement order, the count   *)
(* of live frames and the end of the store, and that pinned frames stay;   *)
(* then the induction put together, and the theorems.                      *)
(***************************************************************************)
EXTENDS FrameStoreProofs

USE DEF frameVars, holdVars, slotVars, swapVars, fileVars, ageVars, callVars, lockVars

-----------------------------------------------------------------------------
(* Calls in progress.                                                      *)

\* A thread's call moves on and nothing is held differently.
LEMMA CallMoves ==
    ASSUME Inv, NEW t \in Threads, NEW c \in Ops, op' = [op EXCEPT ![t] = c],
           UNCHANGED <<kind, refs, pins, transient_pins>>,
           c.k # "drop",
           c.k # "idle" => c.f \in Frames /\ t \in refs[c.f],
           c.k = "fill" => /\ refs[c.f] = {t}
                           /\ pins[c.f] = {}
                           /\ transient_pins[c.f] = {}
    PROVE  CallOwnership'
<1>1. op'[t] = c /\ \A u \in Threads \ {t} : op'[u] = op[u]
  BY Zenon DEF Inv, TypeOK, CallsTyped
<1> QED BY <1>1 DEF Inv, CallOwnership

\* A call that fills a copy fails: the copy loses its only holder.
LEMMA FillFails ==
    ASSUME Inv, NEW t \in Threads, NEW f \in Frames,
           op[t].k \in {"idle", "fill"},
           refs[f] = {t}, kind[f] # "none",
           op' = [op EXCEPT ![t] = Dropping(f)],
           refs' = [refs EXCEPT ![f] = @ \ {t}],
           UNCHANGED <<kind, pins, transient_pins>>
    PROVE  CallOwnership'
<1>1. op'[t] = Dropping(f) /\ \A u \in Threads \ {t} : op'[u] = op[u]
  BY Zenon DEF Inv, TypeOK, CallsTyped
<1>2. Dropping(f).k = "drop" /\ Dropping(f).f = f
  BY Zenon DEF Dropping
<1>3. refs'[f] = {} /\ \A g \in Frames \ {f} : refs'[g] = refs[g]
  BY Zenon DEF Inv, TypeOK, FramesTyped
<1>4. \A u \in Threads \ {t} : op[u].k # "idle" => op[u].f # f
  <2>1. \A u \in Threads : op[u].k \in {"idle", "read", "write", "copy", "create", "fill", "drop"}
    BY Zenon DEF Inv, TypeOK, CallsTyped, Ops
  <2> QED BY Zenon, <2>1 DEF Inv, CallOwnership
<1> QED BY <1>1, <1>2, <1>3, <1>4 DEF Inv, CallOwnership

\* An access keeps the ownership of frames and of running calls.
LEMMA OwnershipAccess ==
    ASSUME Inv, NEW t \in Threads, NEW o \in CallOps, Access(t, o)
    PROVE  FrameOwnership' /\ CallOwnership'
<1>h. /\ o.f \in Frames /\ o.k \in {"read", "write", "copy", "fill"}
      /\ t \in refs[o.f] /\ kind[o.f] # "none"
      /\ op[t].k \in {"idle", o.k}
      /\ o.k = "fill" => /\ op[t] = o
                         /\ refs[o.f] = {t}
                         /\ pins[o.f] = {}
                         /\ transient_pins[o.f] = {}
  BY Zenon, RunsHolds DEF Access
<1>s. /\ UNCHANGED <<kind, page, pins, transient_pins, store, lock>>
      /\ \A g \in Frames : kind[g] = "none" =>
            resident_slot'[g] = NoSlot /\ swap_slot'[g] = NoSlot
      /\ \A g \in Resident : ~Unpinned(g) => resident_slot'[g] = resident_slot[g]
  BY Zenon, AccessSlots
<1>p. \A g \in Frames : transient_pins[g] # {} => g \in Resident'
  BY Zenon, <1>s DEF Inv, FrameOwnership, Resident, Unpinned
<1>1. CASE UNCHANGED refs /\ \E d \in Values : Returned(t, o, d)
  <2>1. PICK d \in Values : Returned(t, o, d)
    BY Zenon, <1>1
  <2> DEFINE c == IF o.k = "copy" THEN Creating(o, d) ELSE Idle
  <2>2. c \in Ops /\ c.k \in {"idle", "create"} /\ (c.k # "idle" => c.f = o.f)
    BY Zenon, IdleType DEF Creating, Idle, Ops, CallOps
  <2>3. op' = [op EXCEPT ![t] = c]
    BY Zenon, <2>1 DEF Returned
  <2> HIDE DEF c
  <2>4. CallOwnership'
    BY Zenon, <1>1, <1>h, <1>s, <2>2, <2>3, CallMoves
  <2> QED BY Zenon, <1>1, <1>s, <1>p, <2>4 DEF Inv, FrameOwnership
<1>2. CASE Failed(t, o) /\ o.k # "fill"
  <2>1. UNCHANGED refs /\ op' = [op EXCEPT ![t] = Idle]
    BY Zenon, <1>2 DEF Failed
  <2>2. Idle.k = "idle" /\ Idle \in Ops
    BY Zenon, IdleType DEF Idle
  <2>3. CallOwnership'
    BY Zenon, <1>s, <2>1, <2>2, CallMoves
  <2> QED BY Zenon, <1>s, <1>p, <2>1, <2>3 DEF Inv, FrameOwnership
<1>3. CASE Failed(t, o) /\ o.k = "fill"
  <2>1. /\ refs' = [refs EXCEPT ![o.f] = @ \ {t}]
        /\ op' = [op EXCEPT ![t] = Dropping(o.f)]
    BY Zenon, <1>3 DEF Failed
  <2>3. CallOwnership'
    <3>1. op[t].k \in {"idle", "fill"} /\ refs[o.f] = {t} /\ kind[o.f] # "none" /\ o.f \in Frames
      BY Zenon, <1>3, <1>h
    <3>2. UNCHANGED <<kind, pins, transient_pins>>
      BY Zenon, <1>s
    <3> QED BY Zenon, <2>1, <3>1, <3>2, FillFails
  <2>4. \A g \in Frames : g # o.f => refs'[g] = refs[g]
    BY <2>1 DEF Inv, TypeOK
  <2> QED BY Zenon, <1>3, <1>h, <1>s, <1>p, <2>3, <2>4 DEF Inv, FrameOwnership
<1>4. CASE UNCHANGED refs /\ op' = [op EXCEPT ![t] = o]
  <2>1. CallOwnership'
    BY Zenon, <1>4, <1>h, <1>s, CallOpsType, CallMoves
  <2> QED BY Zenon, <1>4, <1>s, <1>p, <2>1 DEF Inv, FrameOwnership
<1> QED BY Zenon, <1>1, <1>2, <1>3, <1>4, AccessCalls

-----------------------------------------------------------------------------
\* A new frame is held by its maker only.
LEMMA OwnershipAllocate ==
    ASSUME Inv, NEW t \in Threads, NEW f \in Frames,
           NEW k \in {"zero", "shared", "private"}, NEW p \in Pages \cup {NoPage},
           Allocate(t, f, k, p),
           \/ UNCHANGED op
           \/ op[t].k = "create" /\ op' = [op EXCEPT ![t] = Filling(f, op[t].v)]
    PROVE  FrameOwnership' /\ CallOwnership'
<1> USE DEF Inv
<1>1. /\ refs'[f] = {t} /\ \A g \in Frames \ {f} : refs'[g] = refs[g]
      /\ kind'[f] = k /\ \A g \in Frames \ {f} : kind'[g] = kind[g]
      /\ UNCHANGED <<pins, transient_pins, resident_slot, swap_slot>>
  BY Zenon DEF Allocate, TypeOK, FramesTyped
<1>2. kind[f] = "none" /\ refs[f] = {} /\ pins[f] = {} /\ transient_pins[f] = {}
  BY Zenon DEF Allocate, FrameOwnership
<1>3. FrameOwnership'
  BY Zenon, <1>1, <1>2 DEF FrameOwnership, Resident
<1>4. \A u \in Threads : op[u].k # "idle" => op[u].f \in Frames \ {f}
  <2>1. \A u \in Threads : op[u].k \in {"idle", "read", "write", "copy", "create", "fill", "drop"}
    BY Zenon DEF TypeOK, CallsTyped, Ops
  <2> QED BY Zenon, <1>2, <2>1 DEF CallOwnership
<1>5. CASE UNCHANGED op
  BY <1>1, <1>3, <1>4, <1>5 DEF CallOwnership
<1>6. CASE op[t].k = "create" /\ op' = [op EXCEPT ![t] = Filling(f, op[t].v)]
  <2>1. op'[t] = Filling(f, op[t].v) /\ \A u \in Threads \ {t} : op'[u] = op[u]
    BY Zenon, <1>6 DEF TypeOK, CallsTyped
  <2>2. Filling(f, op[t].v).k = "fill" /\ Filling(f, op[t].v).f = f
    BY Zenon DEF Filling
  <2> QED BY <1>1, <1>2, <1>3, <1>4, <2>1, <2>2 DEF CallOwnership
<1> QED BY Zenon, <1>3, <1>5, <1>6

\* Retain and release keep the ownership of frames and calls.
LEMMA OwnershipReferences ==
    ASSUME Inv, NEW t \in Threads, NEW f \in Frames, Retain(t, f) \/ Release(t, f)
    PROVE  FrameOwnership' /\ CallOwnership'
<1> USE DEF Inv
<1>1. /\ UNCHANGED <<kind, pins, transient_pins, resident_slot, swap_slot>>
      /\ op[t] = Idle /\ op[t].k = "idle"
  BY DEF Retain, Release, Idle
<1>2. \A g \in Frames \ {f} : refs'[g] = refs[g]
  BY Zenon DEF Retain, Release, TypeOK, FramesTyped
<1>3. CASE Retain(t, f)
  <2>1. refs'[f] = refs[f] \cup {t} /\ UNCHANGED op
    BY Zenon, <1>3 DEF Retain, TypeOK, FramesTyped
  <2>2. refs[f] # {}
    BY Zenon, <1>3 DEF Retain
  <2>3. \A u \in Threads : op[u].k \in {"fill", "drop"} => op[u].f # f
    BY <1>3, <2>2 DEF Retain, CallOwnership
  <2>4. FrameOwnership'
    BY Zenon, <1>1, <1>2, <2>1, <2>2 DEF FrameOwnership, Resident
  <2>5. \A u \in Threads : op[u].k \in {"fill", "drop"} => refs'[op[u].f] = refs[op[u].f]
    BY Zenon, <1>2, <2>3 DEF CallOwnership
  <2>6. \A u \in Threads, g \in Frames : u \in refs[g] => u \in refs'[g]
    BY Zenon, <1>2, <2>1
  <2>7. CallOwnership'
    <3> SUFFICES ASSUME NEW u \in Threads
                 PROVE  /\ op[u].k # "idle" => op[u].f \in Frames
                        /\ op[u].k \in {"read", "write", "copy", "create", "fill"} => u \in refs'[op[u].f]
                        /\ op[u].k = "fill" => /\ refs'[op[u].f] = {u} /\ pins[op[u].f] = {}
                                               /\ transient_pins[op[u].f] = {}
                        /\ op[u].k = "drop" => refs'[op[u].f] = {} /\ kind[op[u].f] # "none"
                        /\ op[u].k = "drop" =>
                             \A w \in Threads : op[w].k = "drop" /\ op[w].f = op[u].f => w = u
      BY Zenon, <1>1, <2>1 DEF CallOwnership
    <3>1. op[u].k \in {"read", "write", "copy", "create", "fill"} => op[u].f \in Frames /\ u \in refs[op[u].f]
      BY DEF CallOwnership
    <3> QED BY Zenon, <2>5, <2>6, <3>1 DEF CallOwnership
  <2> QED BY Zenon, <2>4, <2>7
<1>4. CASE Release(t, f)
  <2>1. refs'[f] = refs[f] \ {t} /\ t \in refs[f] /\ t \notin pins[f] /\ t \notin transient_pins[f]
    BY Zenon, <1>4 DEF Release, TypeOK, FramesTyped
  <2>2. FrameOwnership'
    BY Zenon, <1>1, <1>2, <2>1 DEF FrameOwnership, Resident
  <2>3. \A u \in Threads : op[u].k \in {"fill", "drop"} => op[u].f # f
    BY <1>1, <2>1 DEF CallOwnership
  <2>4. CASE refs[f] = {t}
    <3>1. op' = [op EXCEPT ![t] = Dropping(f)] /\ refs' = [refs EXCEPT ![f] = @ \ {t}]
      BY Zenon, <1>4, <2>4 DEF Release
    <3>2. kind[f] # "none"
      BY Zenon, <2>1 DEF FrameOwnership
    <3> QED BY Zenon, <1>1, <2>2, <2>4, <3>1, <3>2, FillFails
  <2>5. CASE refs[f] # {t}
    <3>1. UNCHANGED op
      BY Zenon, <1>4, <2>5 DEF Release
    <3> QED BY Zenon, <1>1, <1>2, <2>1, <2>2, <2>3, <3>1 DEF CallOwnership
  <2> QED BY Zenon, <2>4, <2>5
<1> QED BY Zenon, <1>3, <1>4

\* The last release of a frame keeps the ownership of the other frames and calls.
LEMMA OwnershipDrop ==
    ASSUME Inv, NEW t \in Threads, Drop(t)
    PROVE  FrameOwnership' /\ CallOwnership'
<1> USE DEF Inv
<1> DEFINE f == op[t].f
<1>1. f \in Frames /\ op[t].k = "drop" /\ refs[f] = {}
  BY Zenon DEF Drop, CallOwnership
<1>2. /\ kind'[f] = "none" /\ resident_slot'[f] = NoSlot /\ swap_slot'[f] = NoSlot
      /\ \A g \in Frames \ {f} : /\ kind'[g] = kind[g]
                                 /\ resident_slot'[g] = resident_slot[g]
                                 /\ swap_slot'[g] = swap_slot[g]
      /\ UNCHANGED <<refs, pins, transient_pins>>
  BY Zenon, <1>1 DEF Drop, TypeOK, FramesTyped, ArenaTyped, BackingsTyped
<1>3. op'[t] = Idle /\ \A u \in Threads \ {t} : op'[u] = op[u]
  BY Zenon DEF Drop, TypeOK, CallsTyped
<1>4. Idle.k = "idle"
  BY Zenon DEF Idle
<1>5. \A u \in Threads \ {t} : op[u].k # "idle" => op[u].f \in Frames \ {f}
  <2>1. \A u \in Threads : op[u].k \in {"idle", "read", "write", "copy", "create", "fill", "drop"}
    BY Zenon DEF TypeOK, CallsTyped, Ops
  <2> QED BY Zenon, <1>1, <2>1 DEF CallOwnership
<1> HIDE DEF f
<1>6. FrameOwnership'
  BY Zenon, <1>1, <1>2 DEF FrameOwnership, Resident
<1>7. CallOwnership'
  <2>1. /\ op'[t].k = "idle"
        /\ \A u \in Threads \ {t} : op[u].k # "idle" => kind'[op[u].f] = kind[op[u].f]
    BY Zenon, <1>2, <1>3, <1>4, <1>5
  <2> QED BY <1>2, <1>3, <1>5, <2>1 DEF CallOwnership
<1> QED BY Zenon, <1>6, <1>7

\* A frame is pinned and unpinned by a holder that is in no call.
LEMMA OwnershipPins ==
    ASSUME Inv, NEW t \in Threads, NEW f \in Frames,
           Pin(t, f) \/ Unpin(t, f) \/ TryPinResident(t, f) \/ UnpinResident(t, f)
    PROVE  FrameOwnership' /\ CallOwnership'
<1> USE DEF Inv
<1>1. /\ UNCHANGED <<kind, refs, op, resident_slot, swap_slot>>
      /\ op[t].k = "idle" /\ t \in refs[f]
  BY DEF Pin, Unpin, TryPinResident, UnpinResident, PinStep, Holds, Idle
<1>2. /\ \A g \in Frames \ {f} : pins'[g] = pins[g] /\ transient_pins'[g] = transient_pins[g]
      /\ pins'[f] \subseteq refs[f]
      /\ transient_pins'[f] \subseteq refs[f]
      /\ transient_pins'[f] # {} => f \in Resident
  BY <1>1 DEF Pin, Unpin, TryPinResident, UnpinResident, TypeOK, FramesTyped, FrameOwnership
<1>3. FrameOwnership'
  <2>1. Resident' = Resident
    BY Zenon, <1>1 DEF Resident
  <2> QED BY Zenon, <1>1, <1>2, <2>1 DEF FrameOwnership
<1>4. \A u \in Threads : op[u].k = "fill" => op[u].f # f
  BY Zenon, <1>1 DEF CallOwnership
<1>5. CallOwnership'
  BY Zenon, <1>1, <1>2, <1>4 DEF CallOwnership
<1> QED BY Zenon, <1>3, <1>5

\* A step that leaves references, pins and calls alone keeps ownership.
LEMMA OwnershipSame ==
    ASSUME Inv, UNCHANGED <<kind, refs, pins, transient_pins, op>>,
           \A g \in Frames : kind[g] = "none" =>
                resident_slot'[g] = NoSlot /\ swap_slot'[g] = NoSlot,
           \A g \in Frames : transient_pins[g] # {} => g \in Resident'
    PROVE  FrameOwnership' /\ CallOwnership'
  BY Zenon DEF Inv, FrameOwnership, CallOwnership

\* Page-out and write-back of a resident frame: an unpinned one may leave.
LEMMA OwnershipPageOut ==
    ASSUME Inv, NEW v \in Resident, WriteBackOk(v) \/ WriteBackFail(v),
           \/ UNCHANGED resident_slot
           \/ Unpinned(v) /\ resident_slot' = [resident_slot EXCEPT ![v] = NoSlot],
           UNCHANGED <<kind, page, refs, pins, transient_pins, op>>
    PROVE  FrameOwnership' /\ CallOwnership'
<1> USE DEF Inv
<1>1. v \in Frames /\ kind[v] # "none"
  BY Zenon DEF Resident, FrameOwnership
<1>2. \A g \in Frames \ {v} : swap_slot'[g] = swap_slot[g] /\ resident_slot'[g] = resident_slot[g]
  <2>1. \A g \in Frames : swap_slot'[g] # swap_slot[g] => g = v
    BY Zenon, WriteBackContent
  <2>2. \A g \in Frames \ {v} : resident_slot'[g] = resident_slot[g]
    BY Zenon DEF TypeOK, ArenaTyped
  <2> QED BY Zenon, <2>1, <2>2
<1>3. \A g \in Frames : kind[g] = "none" => resident_slot'[g] = NoSlot /\ swap_slot'[g] = NoSlot
  BY Zenon, <1>1, <1>2 DEF FrameOwnership
<1>4. ASSUME NEW g \in Frames, transient_pins[g] # {} PROVE g \in Resident'
  <2>1. resident_slot[g] # NoSlot
    BY Zenon, <1>4 DEF FrameOwnership, Resident
  <2>2. resident_slot'[g] = resident_slot[g]
    BY Zenon, <1>2, <1>4 DEF Unpinned
  <2> QED BY Zenon, <2>1, <2>2 DEF Resident
<1> QED BY Zenon, <1>3, <1>4, OwnershipSame

\* Every step of the store keeps ownership.
LEMMA OwnershipStep == Inv /\ [Next]_vars => FrameOwnership' /\ CallOwnership'
<1> SUFFICES ASSUME Inv, [Next]_vars PROVE FrameOwnership' /\ CallOwnership'
  OBVIOUS
<1>1. ASSUME NEW t \in Threads, NEW o \in CallOps, Access(t, o)
      PROVE  FrameOwnership' /\ CallOwnership'
  BY Zenon, <1>1, OwnershipAccess
<1>2. ASSUME NEW t \in Threads, NEW f \in Frames, NEW k \in Kinds,
             NEW p \in Pages \cup {NoPage}, Create(t, f, k, p)
      PROVE  FrameOwnership' /\ CallOwnership'
  <2>1. k \in {"zero", "shared", "private"}
    BY Zenon, ConstantsAssumption
  <2> QED BY Zenon, <1>2, <2>1, OwnershipAllocate DEF Create
<1>3. ASSUME NEW t \in Threads, NEW f \in Frames, CreateCopy(t, f)
      PROVE  FrameOwnership' /\ CallOwnership'
  <2>1. op[t].p \in Pages \cup {NoPage}
    BY Zenon DEF Inv, TypeOK, CallsTyped, Ops
  <2> QED BY Zenon, <1>3, <2>1, OwnershipAllocate DEF CreateCopy
<1>4. ASSUME NEW t \in Threads, CreateCopyFails(t)
      PROVE  FrameOwnership' /\ CallOwnership'
  <2>1. Idle.k = "idle" /\ Idle \in Ops
    BY Zenon, IdleType DEF Idle
  <2>2. CallOwnership'
    BY Zenon, <1>4, <2>1, CallMoves DEF CreateCopyFails
  <2> QED BY Zenon, <1>4, <2>2 DEF CreateCopyFails, Inv, FrameOwnership, Resident
<1>5. ASSUME NEW t \in Threads, NEW f \in Frames, Retain(t, f) \/ Release(t, f)
      PROVE  FrameOwnership' /\ CallOwnership'
  BY Zenon, <1>5, OwnershipReferences
<1>6. ASSUME NEW t \in Threads, Drop(t) PROVE FrameOwnership' /\ CallOwnership'
  BY Zenon, <1>6, OwnershipDrop
<1>7. ASSUME NEW t \in Threads, NEW f \in Frames, Sync(t, f) \/ PageOut(t, f)
      PROVE  FrameOwnership' /\ CallOwnership'
  BY Zenon, <1>7, OwnershipPageOut DEF Sync, PageOut, GiveUpSlot
<1>8. ASSUME NEW t \in Threads, NEW v \in Frames, ReclaimVictim(t, v) \/ ReclaimFails(t, v)
      PROVE  FrameOwnership' /\ CallOwnership'
  <2>1. v \in Resident /\ Unpinned(v)
    BY Zenon, <1>8 DEF ReclaimVictim, ReclaimFails, IsVictim, Candidates
  <2> QED BY Zenon, <1>8, <2>1, OwnershipPageOut DEF ReclaimVictim, ReclaimFails, GiveUpSlot
<1>9. ASSUME NEW t \in Threads, NEW f \in Frames,
             Pin(t, f) \/ Unpin(t, f) \/ TryPinResident(t, f) \/ UnpinResident(t, f)
      PROVE  FrameOwnership' /\ CallOwnership'
  BY Zenon, <1>9, OwnershipPins
<1>10. CASE UNCHANGED <<kind, refs, pins, transient_pins, op, resident_slot, swap_slot>>
  BY Zenon, <1>10 DEF Inv, FrameOwnership, CallOwnership, Resident
<1>11. ASSUME NEW t \in Threads, NEW f \in Frames, MarkCold(t, f)
       PROVE  FrameOwnership' /\ CallOwnership'
  BY Zenon, <1>10, <1>11 DEF MarkCold
<1>12. ASSUME NEW t \in Threads, NEW target \in 1 .. MaxTarget, ReclaimStart(t, target)
       PROVE  FrameOwnership' /\ CallOwnership'
  BY Zenon, <1>10, <1>12 DEF ReclaimStart
<1>13. ASSUME NEW t \in Threads, SpuriousWakeup(t) \/ ReclaimEnd(t)
       PROVE  FrameOwnership' /\ CallOwnership'
  BY Zenon, <1>10, <1>13 DEF SpuriousWakeup, ReclaimEnd
<1>14. CASE StoreDestroy \/ UNCHANGED vars
  BY Zenon, <1>10, <1>14 DEF StoreDestroy, vars
<1> QED BY Zenon, <1>1, <1>2, <1>3, <1>4, <1>5, <1>6, <1>7, <1>8, <1>9, <1>11, <1>12, <1>13, <1>14
        DEF Next, Lifetime, Control, Reclaim, Freed

-----------------------------------------------------------------------------
(* One frame per file page.                                                *)

\* Frames that cache a shared file page still own no swap slot.
NoSharedSwap == \A g \in Frames : kind[g] = "shared" => swap_slot'[g] = NoSlot

\* A step that leaves pages and calls alone keeps one frame per file page.
LEMMA PageSame ==
    ASSUME Inv, UNCHANGED <<kind, page, op>>, NoSharedSwap
    PROVE  PageOwnership'
  BY Zenon DEF Inv, PageOwnership, NoSharedSwap

\* A call that starts, goes on or ends keeps one frame per file page.
LEMMA PageCall ==
    ASSUME Inv, NEW t \in Threads, NEW c \in Ops, op' = [op EXCEPT ![t] = c],
           UNCHANGED <<kind, page>>, NoSharedSwap,
           c.p # NoPage => c.k \in {"copy", "create"} /\ (c.p = op[t].p \/ PageUnused(c.p))
    PROVE  PageOwnership'
<1> USE DEF Inv
<1>1. op'[t] = c /\ \A u \in Threads \ {t} : op'[u] = op[u]
  BY Zenon DEF TypeOK, CallsTyped
<1>2. \A f \in Frames : /\ page'[f] # NoPage <=> kind'[f] \in {"shared", "private"}
                        /\ kind'[f] = "shared" => swap_slot'[f] = NoSlot
  BY Zenon DEF PageOwnership, NoSharedSwap
<1>3. \A f, g \in Frames : page'[f] # NoPage /\ page'[f] = page'[g] => f = g
  BY Zenon DEF PageOwnership
<1>4. \A u \in Threads \ {t} : c.p # NoPage => op[u].p # c.p
  BY Zenon DEF PageOwnership, PageUnused
<1>5. c.p # NoPage => \A f \in Frames : page[f] # c.p
  BY Zenon DEF PageOwnership, PageUnused
<1>6. \A u \in Threads : /\ op'[u].p # NoPage => op'[u].k \in {"copy", "create"}
                         /\ op'[u].p # NoPage => \A f \in Frames : page'[f] # op'[u].p
  BY <1>1, <1>5 DEF PageOwnership
<1>7. \A u, w \in Threads : op'[u].p # NoPage /\ op'[u].p = op'[w].p => u = w
  BY <1>1, <1>4 DEF PageOwnership
<1> QED BY Zenon, <1>2, <1>3, <1>6, <1>7 DEF PageOwnership

\* A write-back gives no swap slot to a shared-file frame.
LEMMA SharedWriteBack ==
    ASSUME Inv, NEW v \in Resident, WriteBackOk(v) \/ WriteBackFail(v), UNCHANGED frameVars
    PROVE  NoSharedSwap
<1>1. \A g \in Frames : swap_slot'[g] # swap_slot[g] => g = v /\ ~IsSharedFile(v)
  BY Zenon, WriteBackContent
<1> QED BY Zenon, <1>1 DEF Inv, PageOwnership, IsSharedFile, NoSharedSwap

\* An access keeps one frame per file page.
LEMMA PageAccess ==
    ASSUME Inv, NEW t \in Threads, NEW o \in CallOps, Access(t, o)
    PROVE  PageOwnership'
<1>1. NoSharedSwap
  <2>1. ASSUME NEW v \in Frames, PageInEvicting(t, o, v) \/ EvictionFails(t, o, v)
        PROVE  NoSharedSwap
    <3>1. v \in Resident
      BY Zenon, <2>1 DEF PageInEvicting, EvictionFails, IsVictim, Candidates
    <3> QED BY Zenon, <2>1, <3>1, SharedWriteBack DEF PageInEvicting, EvictionFails
  <2>2. UNCHANGED swap_slot => NoSharedSwap
    BY Zenon DEF Inv, PageOwnership, NoSharedSwap
  <2> QED BY Zenon, <2>1, <2>2 DEF Access, Hit, PageIn, ReadFails, Busy, Wait
<1>2. UNCHANGED <<kind, page>>
  BY Zenon, AccessSlots
<1>3. o.p # NoPage => o.k = "copy" /\ (o.p = op[t].p \/ PageUnused(o.p))
  <2>1. CASE NewCall(t, o)
    BY Zenon, <2>1 DEF NewCall
  <2>2. CASE op[t] = o
    <3>1. o.p # NoPage => o.k \in {"copy", "create"}
      BY Zenon, <2>2 DEF Inv, PageOwnership
    <3> QED BY Zenon, <2>2, <3>1 DEF CallOps
  <2> QED BY Zenon, <2>1, <2>2 DEF Access, Runs
<1>i. Idle \in Ops /\ Idle.p = NoPage
  BY Zenon, IdleType DEF Idle
<1>4. ASSUME NEW d \in Values, Returned(t, o, d) PROVE PageOwnership'
  <2>1. CASE o.k = "copy"
    <3>1. op' = [op EXCEPT ![t] = Creating(o, d)]
      BY Zenon, <1>4, <2>1 DEF Returned
    <3>2. Creating(o, d) \in Ops /\ Creating(o, d).p = o.p /\ Creating(o, d).k = "create"
      BY Zenon DEF Creating, Ops, CallOps
    <3> QED BY Zenon, <1>1, <1>2, <1>3, <3>1, <3>2, PageCall
  <2>2. CASE o.k # "copy"
    <3>1. op' = [op EXCEPT ![t] = Idle]
      BY Zenon, <1>4, <2>2 DEF Returned
    <3> QED BY Zenon, <1>1, <1>2, <1>i, <3>1, PageCall
  <2> QED BY Zenon, <2>1, <2>2
<1>5. CASE Failed(t, o)
  <2>1. Dropping(o.f) \in Ops /\ Dropping(o.f).p = NoPage
    BY Zenon, ConstantsAssumption DEF Dropping, Ops, CallOps
  <2>2. op' = [op EXCEPT ![t] = Dropping(o.f)] \/ op' = [op EXCEPT ![t] = Idle]
    BY Zenon, <1>5 DEF Failed
  <2> QED BY Zenon, <1>1, <1>2, <1>i, <2>1, <2>2, PageCall
<1>6. CASE op' = [op EXCEPT ![t] = o]
  BY Zenon, <1>1, <1>2, <1>3, <1>6, CallOpsType, PageCall
<1> QED BY Zenon, <1>4, <1>5, <1>6, AccessCalls

\* A new file frame is for a page without frame and without copy on its way.
LEMMA PageAllocate ==
    ASSUME Inv, NEW t \in Threads, NEW f \in Frames,
           NEW k \in {"zero", "shared", "private"}, NEW p \in Pages \cup {NoPage},
           Allocate(t, f, k, p),
           p = NoPage <=> k = "zero",
           \/ UNCHANGED op /\ (p # NoPage => PageUnused(p))
           \/ op[t].p = p /\ op' = [op EXCEPT ![t] = Filling(f, op[t].v)]
    PROVE  PageOwnership'
<1>o. TypeOK /\ FrameOwnership /\ PageOwnership
  BY Zenon DEF Inv
<1>1. /\ kind'[f] = k /\ page'[f] = p /\ swap_slot' = swap_slot
      /\ \A g \in Frames \ {f} : kind'[g] = kind[g] /\ page'[g] = page[g]
  BY Zenon, <1>o DEF Allocate, TypeOK, FramesTyped
<1>2. page[f] = NoPage /\ swap_slot[f] = NoSlot
  BY Zenon, <1>o DEF Allocate, FrameOwnership, PageOwnership
<1>3. p # NoPage => \A g \in Frames : page[g] # p
  <2>1. CASE UNCHANGED op /\ (p # NoPage => PageUnused(p))
    BY Zenon, <2>1 DEF PageUnused
  <2>2. CASE op[t].p = p
    BY Zenon, <1>o, <2>2 DEF PageOwnership
  <2> QED BY Zenon, <2>1, <2>2
<1>4. \A u \in Threads : op'[u].p # NoPage => op'[u] = op[u] /\ op[u].p # p
  <2>1. CASE UNCHANGED op /\ (p # NoPage => PageUnused(p))
    BY Zenon, <2>1 DEF PageUnused
  <2>2. CASE op[t].p = p /\ op' = [op EXCEPT ![t] = Filling(f, op[t].v)]
    <3>1. op'[t].p = NoPage
      BY Zenon, <1>o, <2>2 DEF TypeOK, CallsTyped, Filling
    <3>2. \A u \in Threads \ {t} : op'[u] = op[u]
      BY <1>o, <2>2 DEF TypeOK
    <3> QED BY Zenon, <1>o, <2>2, <3>1, <3>2 DEF PageOwnership
  <2> QED BY Zenon, <2>1, <2>2
<1>5. ASSUME NEW g \in Frames
      PROVE  /\ page'[g] # NoPage <=> kind'[g] \in {"shared", "private"}
             /\ kind'[g] = "shared" => swap_slot'[g] = NoSlot
  <2>1. CASE g = f
    BY Zenon, <1>1, <1>2, <2>1
  <2>2. CASE g # f
    <3>1. /\ page[g] # NoPage <=> kind[g] \in {"shared", "private"}
          /\ kind[g] = "shared" => swap_slot[g] = NoSlot
      BY Zenon, <1>o DEF PageOwnership
    <3> QED BY Zenon, <1>1, <2>2, <3>1
  <2> QED BY Zenon, <2>1, <2>2
<1>6. ASSUME NEW g \in Frames, NEW h \in Frames, page'[g] # NoPage, page'[g] = page'[h]
      PROVE  g = h
  <2>1. page[g] # NoPage /\ page[g] = page[h] => g = h
    BY Zenon, <1>o DEF PageOwnership
  <2> QED BY Zenon, <1>1, <1>3, <1>6, <2>1
<1>7. ASSUME NEW u \in Threads, op'[u].p # NoPage
      PROVE  op'[u].k \in {"copy", "create"} /\ \A g \in Frames : page'[g] # op'[u].p
  <2>1. op'[u] = op[u] /\ op[u].p # p
    BY Zenon, <1>4, <1>7
  <2>2. op[u].k \in {"copy", "create"} /\ \A g \in Frames : page[g] # op[u].p
    BY Zenon, <1>o, <1>7, <2>1 DEF PageOwnership
  <2>3. \A g \in Frames : page'[g] = p \/ page'[g] = page[g]
    BY Zenon, <1>1
  <2> QED BY Zenon, <2>1, <2>2, <2>3
<1>8. ASSUME NEW u \in Threads, NEW w \in Threads, op'[u].p # NoPage, op'[u].p = op'[w].p
      PROVE  u = w
  <2>1. op'[u] = op[u] /\ op'[w] = op[w]
    BY Zenon, <1>4, <1>8
  <2>2. op[u].p # NoPage /\ op[u].p = op[w].p
    BY Zenon, <1>8, <2>1
  <2> QED BY Zenon, <1>o, <2>2 DEF PageOwnership
<1> QED BY Zenon, <1>5, <1>6, <1>7, <1>8 DEF PageOwnership

\* Every step of the store keeps one frame per file page.
LEMMA PageStep == Inv /\ [Next]_vars => PageOwnership'
<1> SUFFICES ASSUME Inv, [Next]_vars PROVE PageOwnership'
  OBVIOUS
<1>0. UNCHANGED swap_slot => NoSharedSwap
  BY Zenon DEF Inv, PageOwnership, NoSharedSwap
<1>1. ASSUME NEW t \in Threads, NEW o \in CallOps, Access(t, o) PROVE PageOwnership'
  BY Zenon, <1>1, PageAccess
<1>2. ASSUME NEW t \in Threads, NEW f \in Frames, NEW k \in Kinds,
             NEW p \in Pages \cup {NoPage}, Create(t, f, k, p)
      PROVE  PageOwnership'
  <2>1. k \in {"zero", "shared", "private"}
    BY Zenon, ConstantsAssumption
  <2>2. (p = NoPage <=> k = "zero") /\ (p # NoPage => PageUnused(p))
    BY Zenon, <1>2, ConstantsAssumption DEF Create
  <2> QED BY Zenon, <1>2, <2>1, <2>2, PageAllocate DEF Create
<1>3. ASSUME NEW t \in Threads, NEW f \in Frames, CreateCopy(t, f) PROVE PageOwnership'
  <2>1. op[t].p \in Pages \cup {NoPage}
    BY Zenon DEF Inv, TypeOK, CallsTyped, Ops
  <2> QED BY Zenon, <1>3, <2>1, PageAllocate DEF CreateCopy
<1>4. ASSUME NEW t \in Threads, CreateCopyFails(t) PROVE PageOwnership'
  <2>1. Idle.p = NoPage /\ Idle \in Ops
    BY Zenon, IdleType DEF Idle
  <2> QED BY Zenon, <1>0, <1>4, <2>1, PageCall DEF CreateCopyFails
<1>5. ASSUME NEW t \in Threads, NEW f \in Frames, Retain(t, f) \/ Release(t, f)
      PROVE  PageOwnership'
  <2>1. Dropping(f).p = NoPage /\ Dropping(f) \in Ops
    BY Zenon, ConstantsAssumption DEF Dropping, Ops
  <2>2. CASE UNCHANGED op
    BY Zenon, <1>0, <1>5, <2>2, PageSame DEF Retain, Release
  <2>3. CASE op' = [op EXCEPT ![t] = Dropping(f)]
    BY Zenon, <1>0, <1>5, <2>1, <2>3, PageCall DEF Release, Retain
  <2> QED BY Zenon, <1>5, <2>2, <2>3 DEF Retain, Release
<1>6. ASSUME NEW t \in Threads, Drop(t) PROVE PageOwnership'
  <2> USE DEF Inv
  <2> DEFINE f == op[t].f
  <2>1. f \in Frames
    BY Zenon, <1>6 DEF Drop, CallOwnership
  <2>2. /\ kind'[f] = "none" /\ page'[f] = NoPage
        /\ \A g \in Frames \ {f} : /\ kind'[g] = kind[g] /\ page'[g] = page[g]
                                   /\ swap_slot'[g] = swap_slot[g]
    BY <1>6, <2>1 DEF Drop, TypeOK, FramesTyped
  <2>3. \A u \in Threads : op'[u].p # NoPage => op'[u] = op[u]
    BY Zenon, <1>6 DEF Drop, TypeOK, CallsTyped, Idle
  <2> HIDE DEF f
  <2> QED BY <2>1, <2>2, <2>3 DEF PageOwnership
<1>7. ASSUME NEW t \in Threads, NEW f \in Frames, Sync(t, f) \/ PageOut(t, f)
      PROVE  PageOwnership'
  BY Zenon, <1>7, SharedWriteBack, PageSame DEF Sync, PageOut
<1>8. ASSUME NEW t \in Threads, NEW v \in Frames, ReclaimVictim(t, v) \/ ReclaimFails(t, v)
      PROVE  PageOwnership'
  <2>1. v \in Resident
    BY Zenon, <1>8 DEF ReclaimVictim, ReclaimFails, IsVictim, Candidates
  <2> QED BY Zenon, <1>8, <2>1, SharedWriteBack, PageSame DEF ReclaimVictim, ReclaimFails
<1>9. ASSUME NEW t \in Threads, NEW f \in Frames,
             \/ Pin(t, f) \/ Unpin(t, f) \/ TryPinResident(t, f) \/ UnpinResident(t, f)
             \/ MarkCold(t, f)
      PROVE  PageOwnership'
  BY Zenon, <1>0, <1>9, PageSame DEF Pin, Unpin, TryPinResident, UnpinResident, PinStep, MarkCold
<1>10. ASSUME NEW t \in Threads, NEW target \in 1 .. MaxTarget, ReclaimStart(t, target)
       PROVE  PageOwnership'
  BY Zenon, <1>0, <1>10, PageSame DEF ReclaimStart
<1>11. ASSUME NEW t \in Threads, SpuriousWakeup(t) \/ ReclaimEnd(t) PROVE PageOwnership'
  BY Zenon, <1>0, <1>11, PageSame DEF SpuriousWakeup, ReclaimEnd
<1>12. CASE StoreDestroy \/ UNCHANGED vars
  BY Zenon, <1>0, <1>12, PageSame DEF StoreDestroy, vars
<1> QED BY Zenon, <1>1, <1>2, <1>3, <1>4, <1>5, <1>6, <1>7, <1>8, <1>9, <1>10, <1>11, <1>12
        DEF Next, Lifetime, Control, Reclaim, Freed

-----------------------------------------------------------------------------
(* Waits, the replacement order, the live count and the end of the store.  *)

\* A thread starts to wait because a transient pin is held, and only the end of
\* an access gives one up, with a broadcast.
LEMMA WaitersStep == Inv /\ [Next]_vars => WaitersHavePinner'
<1> SUFFICES ASSUME Inv, [Next]_vars PROVE WaitersHavePinner'
  OBVIOUS
<1> USE DEF Inv
<1>0. ASSUME waiters' \subseteq waiters, UNCHANGED transient_pins PROVE WaitersHavePinner'
  BY Zenon, <1>0 DEF WaitersHavePinner
<1>1. ASSUME NEW t \in Threads, NEW o \in CallOps, Access(t, o) PROVE WaitersHavePinner'
  <2>1. UNCHANGED transient_pins
    BY Zenon, <1>1, AccessSlots
  <2>2. UNCHANGED waiters \/ HasTransientVictim(o.f)
    BY Zenon, <1>1, AccessCalls
  <2>3. HasTransientVictim(o.f) => \E f \in Frames : transient_pins[f] # {}
    BY Zenon DEF HasTransientVictim, Resident
  <2> QED BY Zenon, <1>0, <2>1, <2>2, <2>3 DEF WaitersHavePinner
<1>2. ASSUME NEW t \in Threads, NEW f \in Frames, TryPinResident(t, f)
      PROVE  WaitersHavePinner'
  BY <1>2 DEF TryPinResident, TypeOK, WaitersHavePinner
<1>3. ASSUME NEW t \in Threads, NEW f \in Frames, UnpinResident(t, f)
      PROVE  WaitersHavePinner'
  BY Zenon, <1>3 DEF UnpinResident, WaitersHavePinner
<1>4. ASSUME NEW t \in Threads, SpuriousWakeup(t) PROVE WaitersHavePinner'
  BY Zenon, <1>0, <1>4 DEF SpuriousWakeup
<1>5. ASSUME NEW t \in Threads, Lifetime(t) PROVE WaitersHavePinner'
  BY Zenon, <1>0, <1>5 DEF Lifetime, Create, CreateCopy, Allocate, Retain, Release,
                    CreateCopyFails, Drop
<1>6. ASSUME NEW t \in Threads, NEW f \in Frames,
             Sync(t, f) \/ PageOut(t, f) \/ MarkCold(t, f) \/ Pin(t, f) \/ Unpin(t, f)
      PROVE  WaitersHavePinner'
  BY Zenon, <1>0, <1>6 DEF Sync, PageOut, MarkCold, Pin, Unpin
<1>7. ASSUME NEW t \in Threads, Reclaim(t) PROVE WaitersHavePinner'
  BY Zenon, <1>0, <1>7 DEF Reclaim, ReclaimStart, ReclaimVictim, ReclaimFails, ReclaimEnd
<1>8. CASE StoreDestroy \/ UNCHANGED vars
  BY Zenon, <1>0, <1>8 DEF StoreDestroy, vars
<1> QED BY Zenon, <1>1, <1>2, <1>3, <1>4, <1>5, <1>6, <1>7, <1>8 DEF Next, Control, Freed

\* A thread's call moves on: Bookkeeping needs that the thread does not wait
\* unless it is in a call, and that the lock is not its own.
LEMMA BookkeepingCall ==
    ASSUME Inv, NEW t \in Threads, NEW c \in Ops, op' = [op EXCEPT ![t] = c],
           UNCHANGED <<store, lock>>,
           lock # t,
           c.k = "idle" => c = Idle,
           \/ UNCHANGED waiters /\ t \notin waiters
           \/ waiters' = waiters \cup {t} /\ c.k \in {"read", "write", "copy", "fill"}
    PROVE  Bookkeeping'
<1> USE DEF Inv
<1>1. op'[t] = c /\ \A u \in Threads \ {t} : op'[u] = op[u]
  BY Zenon DEF TypeOK, CallsTyped
<1>2. \A u \in waiters' : op'[u].k \in {"read", "write", "copy", "fill"}
  BY <1>1 DEF Bookkeeping, TypeOK
<1>3. lock' # NoThread => op'[lock'] = Idle /\ store' = "open"
  BY <1>1 DEF Bookkeeping, TypeOK
<1>4. \A u \in Threads : op'[u].k = "idle" => op'[u] = Idle
  BY Zenon, <1>1 DEF Bookkeeping
<1> QED BY Zenon, <1>2, <1>3, <1>4 DEF Bookkeeping

\* An access keeps the waiters, the lock and the idle threads consistent.
LEMMA BookkeepingAccess ==
    ASSUME Inv, NEW t \in Threads, NEW o \in CallOps, Access(t, o)
    PROVE  Bookkeeping'
<1> USE DEF Inv
<1>1. UNCHANGED <<store, lock>> /\ lock # t
  BY Zenon, AccessSlots, ConstantsAssumption DEF Access, Runs
<1>2. t \notin waiters
  <2>1. op[t] = Idle => t \notin waiters
    BY DEF Bookkeeping, Idle
  <2> QED BY Zenon, <2>1 DEF Access, Runs, NewCall
<1>3. o \in Ops /\ o.k \in {"read", "write", "copy", "fill"} /\ o.f \in Frames
  BY Zenon, CallOpsType DEF CallOps
<1>4. ASSUME NEW d \in Values, Returned(t, o, d), UNCHANGED waiters PROVE Bookkeeping'
  <2>1. Creating(o, d) \in Ops /\ Creating(o, d).k = "create"
    BY Zenon DEF Creating, Ops, CallOps
  <2>2. op' = [op EXCEPT ![t] = Creating(o, d)] \/ op' = [op EXCEPT ![t] = Idle]
    BY Zenon, <1>4 DEF Returned
  <2> QED BY Zenon, <1>1, <1>2, <1>4, <2>1, <2>2, IdleType, BookkeepingCall
<1>5. ASSUME Failed(t, o), UNCHANGED waiters PROVE Bookkeeping'
  <2>1. Dropping(o.f) \in Ops /\ Dropping(o.f).k = "drop"
    BY Zenon, <1>3, ConstantsAssumption DEF Dropping, Ops
  <2>2. op' = [op EXCEPT ![t] = Dropping(o.f)] \/ op' = [op EXCEPT ![t] = Idle]
    BY Zenon, <1>5 DEF Failed
  <2> QED BY Zenon, <1>1, <1>2, <1>5, <2>1, <2>2, IdleType, BookkeepingCall
<1>6. ASSUME op' = [op EXCEPT ![t] = o], waiters' = waiters \cup {t} PROVE Bookkeeping'
  BY Zenon, <1>1, <1>3, <1>6, BookkeepingCall
<1> QED BY Zenon, <1>4, <1>5, <1>6, AccessCalls

\* Every step of the store keeps the waiters, the lock and the idle threads consistent.
LEMMA BookkeepingStep == Inv /\ [Next]_vars => Bookkeeping'
<1> SUFFICES ASSUME Inv, [Next]_vars PROVE Bookkeeping'
  OBVIOUS
<1> USE DEF Inv
<1>w. \A t \in Threads : op[t].k \in {"idle", "create", "drop"} => t \notin waiters
  BY Zenon DEF Bookkeeping
<1>i. Idle.k = "idle"
  BY Zenon DEF Idle
<1>0. ASSUME UNCHANGED <<op, waiters, store, lock>> PROVE Bookkeeping'
  BY Zenon, <1>0 DEF Bookkeeping
<1>1. ASSUME NEW t \in Threads, NEW o \in CallOps, Access(t, o) PROVE Bookkeeping'
  BY Zenon, <1>1, BookkeepingAccess
<1>2. ASSUME NEW t \in Threads, SpuriousWakeup(t) PROVE Bookkeeping'
  BY Zenon, <1>2 DEF SpuriousWakeup, Bookkeeping
<1>3. ASSUME NEW t \in Threads, NEW f \in Frames, NEW k \in Kinds,
             NEW p \in Pages \cup {NoPage}, Create(t, f, k, p)
      PROVE  Bookkeeping'
  BY Zenon, <1>0, <1>3 DEF Create, Allocate
<1>4. ASSUME NEW t \in Threads, NEW f \in Frames, CreateCopy(t, f) PROVE Bookkeeping'
  <2>1. Filling(f, op[t].v) \in Ops /\ Filling(f, op[t].v).k = "fill"
    BY Zenon DEF Filling, Ops, TypeOK, CallsTyped
  <2>2. lock # t /\ UNCHANGED <<store, lock, waiters>>
    BY Zenon, <1>4, ConstantsAssumption DEF CreateCopy, Allocate
  <2> QED BY Zenon, <1>4, <1>w, <2>1, <2>2, BookkeepingCall DEF CreateCopy
<1>5. ASSUME NEW t \in Threads, CreateCopyFails(t) PROVE Bookkeeping'
  <2>1. lock # t
    BY Zenon, <1>5, <1>i, ConstantsAssumption DEF CreateCopyFails, Bookkeeping
  <2> QED BY Zenon, <1>5, <1>w, <2>1, IdleType, BookkeepingCall DEF CreateCopyFails
<1>6. ASSUME NEW t \in Threads, NEW f \in Frames, Retain(t, f) PROVE Bookkeeping'
  BY Zenon, <1>0, <1>6 DEF Retain
<1>7. ASSUME NEW t \in Threads, NEW f \in Frames, Release(t, f) PROVE Bookkeeping'
  <2>1. Dropping(f) \in Ops /\ Dropping(f).k = "drop"
    BY Zenon, ConstantsAssumption DEF Dropping, Ops
  <2>2. t \notin waiters
    BY Zenon, <1>7, <1>w, <1>i DEF Release
  <2> QED BY Zenon, <1>0, <1>7, <2>1, <2>2, BookkeepingCall DEF Release
<1>8. ASSUME NEW t \in Threads, Drop(t) PROVE Bookkeeping'
  <2>1. UNCHANGED <<waiters, lock>> /\ lock = NoThread /\ op' = [op EXCEPT ![t] = Idle]
    BY Zenon, <1>8 DEF Drop
  <2>2. \A u \in Threads : op'[u] = op[u] \/ op'[u] = Idle
    BY <2>1 DEF TypeOK
  <2>3. t \notin waiters
    BY Zenon, <1>8, <1>w DEF Drop
  <2>4. \A u \in waiters : op'[u] = op[u]
    BY <2>1, <2>3 DEF TypeOK
  <2> QED BY Zenon, <2>1, <2>2, <2>4 DEF Bookkeeping
<1>9. ASSUME NEW t \in Threads, NEW f \in Frames, Control(t, f) PROVE Bookkeeping'
  <2>1. UNCHANGED <<op, store, lock>> /\ waiters' \subseteq waiters
    BY Zenon, <1>9 DEF Control, Sync, PageOut, MarkCold, Pin, Unpin, TryPinResident,
                UnpinResident, PinStep
  <2> QED BY Zenon, <2>1 DEF Bookkeeping
<1>10. ASSUME NEW t \in Threads, Reclaim(t) PROVE Bookkeeping'
  <2>1. UNCHANGED <<op, waiters, store>>
    BY Zenon, <1>10 DEF Reclaim, ReclaimStart, ReclaimVictim, ReclaimFails, ReclaimEnd
  <2>2. \/ lock' = NoThread \/ lock' = lock
        \/ lock' = t /\ op[t] = Idle /\ store = "open"
    BY Zenon, <1>10 DEF Reclaim, ReclaimStart, ReclaimVictim, ReclaimFails, ReclaimEnd
  <2> QED BY Zenon, <2>1, <2>2 DEF Bookkeeping
<1>11. CASE StoreDestroy
  BY Zenon, <1>11 DEF StoreDestroy, Bookkeeping
<1>12. CASE UNCHANGED vars
  BY Zenon, <1>0, <1>12 DEF vars
<1> QED BY Zenon, <1>1, <1>2, <1>3, <1>4, <1>5, <1>6, <1>7, <1>8, <1>9, <1>10, <1>11, <1>12
        DEF Next, Lifetime, Freed

\* A thread in a call is in it on a live frame.
LEMMA CallsOnLive ==
    ASSUME Inv
    PROVE  /\ \A t \in Threads : op[t] # Idle => op[t].f \in Live
           /\ \A f \in Frames : refs[f] # {} => f \in Live
<1> USE DEF Inv
<1>1. \A t \in Threads : op[t].k \in {"idle", "read", "write", "copy", "create", "fill", "drop"}
  BY Zenon DEF TypeOK, CallsTyped, Ops
<1>2. \A f \in Frames : refs[f] # {} => f \in Live
  BY Zenon DEF FrameOwnership, Live
<1>3. ASSUME NEW t \in Threads, op[t] # Idle PROVE op[t].f \in Live
  <2>1. op[t].k # "idle"
    BY Zenon, <1>3 DEF Bookkeeping
  <2>2. op[t].f \in Frames
    BY Zenon, <2>1 DEF CallOwnership
  <2>3. CASE op[t].k = "drop"
    BY Zenon, <2>2, <2>3 DEF CallOwnership, Live
  <2>4. CASE op[t].k # "drop"
    BY Zenon, <1>1, <1>2, <2>1, <2>2, <2>4 DEF CallOwnership
  <2> QED BY Zenon, <2>3, <2>4
<1> QED BY Zenon, <1>2, <1>3

\* Every step keeps a freed store unused.
LEMMA FreedStep == Inv /\ [Next]_vars => FreedIsUnused'
<1> SUFFICES ASSUME Inv, [Next]_vars, store' = "freed" PROVE FreedIsUnused'
  BY Zenon DEF FreedIsUnused
<1> USE DEF Inv
<1>0. ASSUME store = "freed", UNCHANGED <<kind, lock, op, refs>> PROVE FreedIsUnused'
  BY Zenon, <1>0 DEF FreedIsUnused, Live
<1>1. ASSUME NEW t \in Threads, NEW o \in CallOps, Access(t, o) PROVE FALSE
  <2>1. t \in refs[o.f] /\ o.f \in Frames
    BY Zenon, <1>1, RunsHolds DEF Access
  <2>2. store = "freed"
    BY Zenon, <1>1, AccessSlots
  <2> QED BY Zenon, <2>1, <2>2 DEF FreedIsUnused
<1>2. ASSUME NEW t \in Threads, NEW f \in Frames,
             \/ \E k \in Kinds, p \in Pages \cup {NoPage} : Create(t, f, k, p)
             \/ CreateCopy(t, f) \/ Retain(t, f) \/ Release(t, f)
      PROVE  FALSE
  BY Zenon, <1>2 DEF Create, CreateCopy, Allocate, Retain, Release, FreedIsUnused
<1>3. ASSUME NEW t \in Threads, CreateCopyFails(t) PROVE FALSE
  <2>1. store = "freed" /\ op[t].k = "create"
    BY Zenon, <1>3 DEF CreateCopyFails
  <2>2. op[t] = Idle
    BY Zenon, <2>1 DEF FreedIsUnused
  <2> QED BY <2>1, <2>2 DEF Idle
<1>4. ASSUME NEW t \in Threads, Drop(t) PROVE FreedIsUnused'
  <2> DEFINE f == op[t].f
  <2>1. op[t].k = "drop" /\ f \in Frames /\ refs[f] = {}
    BY Zenon, <1>4 DEF Drop, CallOwnership
  <2>2. store # "freed"
    BY <2>1 DEF FreedIsUnused, Idle
  <2>3. Live = {f}
    BY Zenon, <1>4, <2>2 DEF Drop
  <2>4. Live' = {}
    BY Zenon, <1>4, <2>1, <2>3 DEF Drop, Live, TypeOK, FramesTyped
  <2>5. \A u \in Threads : op'[u] = Idle
    <3>1. ASSUME NEW u \in Threads \ {t} PROVE op[u] = Idle
      <4>1. SUFFICES ASSUME op[u] # Idle PROVE FALSE
        OBVIOUS
      <4>2. op[u].f = f /\ op[u].k # "idle"
        BY Zenon, <2>3, <4>1, CallsOnLive DEF Bookkeeping
      <4>3. op[u].k \in {"read", "write", "copy", "create", "fill", "drop"}
        BY Zenon, <4>2 DEF TypeOK, CallsTyped, Ops
      <4> QED BY Zenon, <2>1, <4>2, <4>3 DEF CallOwnership
    <3> QED BY Zenon, <1>4, <3>1 DEF Drop, TypeOK, CallsTyped
  <2>6. \A g \in Frames : refs'[g] = {}
    BY Zenon, <1>4, <2>1, <2>3, CallsOnLive DEF Drop
  <2>7. lock' = NoThread
    BY Zenon, <1>4 DEF Drop
  <2> QED BY Zenon, <2>4, <2>5, <2>6, <2>7 DEF FreedIsUnused
<1>5. ASSUME NEW t \in Threads, NEW f \in Frames, Control(t, f) PROVE FALSE
  <2>1. store = "freed" /\ t \in refs[f]
    BY Zenon, <1>5 DEF Control, Sync, PageOut, MarkCold, Pin, Unpin, TryPinResident, UnpinResident,
                PinStep, Holds
  <2> QED BY Zenon, <2>1 DEF FreedIsUnused
<1>6. ASSUME NEW t \in Threads, Reclaim(t) PROVE FALSE
  <2>1. store = "open"
    BY Zenon, <1>6, ConstantsAssumption
       DEF Reclaim, ReclaimStart, ReclaimVictim, ReclaimFails, ReclaimEnd, Bookkeeping
  <2> QED BY Zenon, <1>6, <2>1 DEF Reclaim, ReclaimStart, ReclaimVictim, ReclaimFails, ReclaimEnd
<1>7. CASE StoreDestroy
  <2>1. Live = {}
    BY Zenon, <1>7 DEF StoreDestroy
  <2> QED BY Zenon, <1>7, <2>1, CallsOnLive DEF StoreDestroy, FreedIsUnused, Live
<1>8. ASSUME NEW t \in Threads, SpuriousWakeup(t) PROVE FreedIsUnused'
  BY Zenon, <1>0, <1>8 DEF SpuriousWakeup
<1>9. CASE UNCHANGED vars
  BY Zenon, <1>0, <1>9 DEF vars
<1> QED BY Zenon, <1>1, <1>2, <1>3, <1>4, <1>5, <1>6, <1>7, <1>8, <1>9 DEF Next, Lifetime, Freed

\* No step moves a pinned resident frame.
LEMMA PinnedStep ==
    ASSUME Inv, [Next]_vars, NEW f \in Resident, ~Unpinned(f)
    PROVE  resident_slot'[f] = resident_slot[f]
<1> USE DEF Inv
<1>f. f \in Frames
  BY Zenon DEF Resident
<1>1. ASSUME NEW t \in Threads, NEW o \in CallOps, Access(t, o)
      PROVE  resident_slot'[f] = resident_slot[f]
  BY Zenon, <1>1, AccessSlots
<1>2. ASSUME NEW t \in Threads, Drop(t) PROVE resident_slot'[f] = resident_slot[f]
  <2>1. Unpinned(op[t].f)
    BY Zenon, <1>2 DEF Drop, CallOwnership, FrameOwnership, Unpinned
  <2> QED BY Zenon, <1>2, <1>f, <2>1 DEF Drop, TypeOK, ArenaTyped
<1>3. ASSUME NEW t \in Threads, NEW g \in Frames, PageOut(t, g)
      PROVE  resident_slot'[f] = resident_slot[f]
  BY Zenon, <1>3, <1>f DEF PageOut, GiveUpSlot, TypeOK, ArenaTyped
<1>4. ASSUME NEW t \in Threads, NEW v \in Frames, ReclaimVictim(t, v)
      PROVE  resident_slot'[f] = resident_slot[f]
  <2>1. Unpinned(v)
    BY Zenon, <1>4 DEF ReclaimVictim, IsVictim, Candidates
  <2> QED BY <1>4, <1>f, <2>1 DEF ReclaimVictim, GiveUpSlot, TypeOK
<1>5. ASSUME NEW t \in Threads, NEW g \in Frames,
             \/ \E k \in Kinds, p \in Pages \cup {NoPage} : Create(t, g, k, p)
             \/ CreateCopy(t, g) \/ Retain(t, g) \/ Release(t, g)
      PROVE  UNCHANGED resident_slot
  BY Zenon, <1>5 DEF Create, CreateCopy, Allocate, Retain, Release
<1>6. ASSUME NEW t \in Threads, NEW g \in Frames,
             \/ Sync(t, g) \/ MarkCold(t, g) \/ Pin(t, g) \/ Unpin(t, g)
             \/ TryPinResident(t, g) \/ UnpinResident(t, g) \/ ReclaimFails(t, g)
      PROVE  UNCHANGED resident_slot
  BY Zenon, <1>6 DEF Sync, MarkCold, Pin, Unpin, TryPinResident, UnpinResident, PinStep,
                     ReclaimFails
<1>7. ASSUME NEW t \in Threads,
             \/ CreateCopyFails(t) \/ SpuriousWakeup(t) \/ ReclaimEnd(t)
             \/ \E target \in 1 .. MaxTarget : ReclaimStart(t, target)
      PROVE  UNCHANGED resident_slot
  BY Zenon, <1>7 DEF CreateCopyFails, SpuriousWakeup, ReclaimEnd, ReclaimStart
<1>8. CASE StoreDestroy \/ UNCHANGED vars
  BY Zenon, <1>8 DEF StoreDestroy, vars
<1> QED BY Zenon, <1>1, <1>2, <1>3, <1>4, <1>5, <1>6, <1>7, <1>8
        DEF Next, Lifetime, Control, Reclaim, Freed

-----------------------------------------------------------------------------
(* The induction put together, and the theorems.                           *)

\* The inductive invariant holds of a new store (frame_store_create).
LEMMA InitInv == Init => Inv
<1> SUFFICES ASSUME Init PROVE Inv
  OBVIOUS
<1> USE ConstantsAssumption DEF Init
<1>1. TypeOK
  BY IdleType
     DEF TypeOK, FramesTyped, ArenaTyped, BackingsTyped, AgesTyped, CallsTyped, Slots, SwapSlots, NoSlot
<1>2. ArenaPartition
  <2>1. Resident = {}
    BY Zenon DEF Resident
  <2> QED BY Zenon, <2>1, FS_EmptySet DEF ArenaPartition
<1>3. SwapPartition
  BY DEF SwapPartition
<1>4. CleanIsBacked
  BY Zenon DEF CleanIsBacked, Resident
<1>5. FrameOwnership
  BY Zenon DEF FrameOwnership
<1>6. \A t \in Threads : op[t].k = "idle" /\ op[t].p = NoPage /\ op[t] = Idle
  BY Zenon DEF Idle
<1>7. CallOwnership
  BY Zenon, <1>6 DEF CallOwnership
<1>8. PageOwnership
  BY Zenon, <1>6 DEF PageOwnership
<1>9. WaitersHavePinner /\ Bookkeeping /\ FreedIsUnused
  BY Zenon, <1>6 DEF WaitersHavePinner, Bookkeeping, FreedIsUnused
<1> QED BY Zenon, <1>1, <1>2, <1>3, <1>4, <1>5, <1>7, <1>8, <1>9 DEF Inv

\* Every operation of frame.c keeps the whole invariant: slots of the arena and
\* of the swap file are neither lost nor shared, clean frames equal their
\* backing, holders, pins, calls and waiters stay consistent.
THEOREM Safety == Spec => []Inv
<1>1. Inv /\ [Next]_vars => Inv'
  BY Zenon, TypeStep, StorageStep, OwnershipStep, PageStep, WaitersStep, BookkeepingStep, FreedStep
     DEF Inv, Storage
<1> QED BY InitInv, <1>1, PTL DEF Spec

\* The state always has its type: indices are slots, counters within bounds.
THEOREM TypeCorrect == Spec => []TypeOK
<1>1. Inv => TypeOK
  BY Zenon DEF Inv
<1> QED BY <1>1, Safety, PTL

\* resident_count, the free list and the frames' slots partition the arena.
THEOREM ArenaIsPartitioned == Spec => []ArenaPartition
<1>1. Inv => ArenaPartition
  BY Zenon DEF Inv
<1> QED BY <1>1, Safety, PTL

\* Swap slots below the high-water mark are free or owned by one frame, also
\* after failed writes.
THEOREM SwapIsPartitioned == Spec => []SwapPartition
<1>1. Inv => SwapPartition
  BY Zenon DEF Inv
<1> QED BY <1>1, Safety, PTL

\* Dropping a clean resident page loses nothing.
THEOREM CleanFramesAreBacked == Spec => []CleanIsBacked
<1>1. Inv => CleanIsBacked
  BY Zenon DEF Inv
<1> QED BY <1>1, Safety, PTL

\* No thread sleeps on transient_unpinned without a pin left to broadcast it.
THEOREM NoLostWakeup == Spec => []WaitersHavePinner
<1>1. Inv => WaitersHavePinner
  BY Zenon DEF Inv
<1> QED BY <1>1, Safety, PTL

\* store_free runs when no thread can reach the store any more.
THEOREM NoUseAfterFree == Spec => []FreedIsUnused
<1>1. Inv => FreedIsUnused
  BY Zenon DEF Inv
<1> QED BY <1>1, Safety, PTL

\* No operation of any thread evicts or moves a frame while it is pinned.
THEOREM PinnedFramesStay == Spec => PinnedStay
<1>1. Inv /\ [Next]_vars =>
        [\A f \in Resident : pins[f] # {} \/ transient_pins[f] # {}
            => resident_slot'[f] = resident_slot[f]]_vars
  BY Zenon, PinnedStep DEF Unpinned
<1> QED BY <1>1, Safety, PTL DEF Spec, PinnedStay

=============================================================================
