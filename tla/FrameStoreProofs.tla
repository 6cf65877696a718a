-------------------------- MODULE FrameStoreProofs --------------------------
(***************************************************************************)
(* Proofs about FrameStore for every number of frames, threads and slots:  *)
(* the lemmas the proofs share, about the swap area, write-back and what   *)
(* an access does to slots and calls; then the part of the induction about *)
(* types, resident slots, swap slots and backings.                         *)
(***************************************************************************)
EXTENDS FrameStore, FiniteSetTheorems, TLAPS

USE DEF frameVars, holdVars, slotVars, swapVars, fileVars, ageVars, callVars, lockVars

\* The value of op for a thread outside a call has its type.
LEMMA IdleType == Idle \in Ops
  BY Zenon, ConstantsAssumption DEF Idle, Ops

\* Every call a thread can make has the type of op.
LEMMA CallOpsType == \A o \in CallOps : o \in Ops
  BY Zenon DEF CallOps, Ops

\* A resident frame has a slot, and the slot a content.
LEMMA DataType ==
    ASSUME TypeOK, NEW f \in Resident
    PROVE  f \in Frames /\ resident_slot[f] \in Slots /\ Data(f) \in Values
  BY Zenon DEF TypeOK, ArenaTyped, Resident, Data

\* What a page-in reads for a frame is a page content.
LEMMA BackingType == ASSUME TypeOK, PageOwnership, NEW f \in Frames PROVE BackingData(f) \in Values
<1>1. swap_slot[f] # NoSlot => swap_slot[f] \in SwapSlots BY Zenon DEF TypeOK, BackingsTyped
<1>2. kind[f] \in {"shared", "private"} => page[f] \in Pages
  BY Zenon DEF TypeOK, FramesTyped, PageOwnership
<1> QED BY Zenon, <1>1, <1>2, ConstantsAssumption DEF BackingData, TypeOK, BackingsTyped

-----------------------------------------------------------------------------
(* The swap file.                                                          *)

\* A step that leaves the swap area alone keeps its partition.
LEMMA SwapSame ==
    ASSUME SwapPartition, UNCHANGED <<swap_slot, free_swap, high_water>>
    PROVE  SwapPartition'
  BY Zenon DEF SwapPartition

\* Acquiring a swap slot, new or reused, keeps the partition of the swap area.
LEMMA SwapAcquire ==
    ASSUME TypeOK, SwapPartition, NEW f \in Frames, NEW s \in SwapSlots,
           AcquireSwapSlot(f, s)
    PROVE  /\ SwapPartition'
           /\ \A g \in Frames \ {f} : swap_slot'[g] = swap_slot[g] /\ swap_slot[g] # s
           /\ swap_slot'[f] = s
<1>1. \A g \in Frames \ {f} : swap_slot'[g] = swap_slot[g]
  BY DEF AcquireSwapSlot, TypeOK
<1>2. swap_slot'[f] = s
  BY Zenon DEF AcquireSwapSlot, TypeOK, BackingsTyped
<1>3. s # NoSlot /\ s \in Int
  BY ConstantsAssumption DEF SwapSlots, NoSlot
<1>h. high_water \in Nat
  BY ConstantsAssumption DEF TypeOK, BackingsTyped
<1>4. \A g \in Frames : swap_slot[g] # NoSlot => swap_slot[g] \in 0 .. high_water - 1
  BY Zenon DEF SwapPartition
<1>5. free_swap \subseteq 0 .. high_water - 1
  BY Zenon DEF SwapPartition
<1>6. CASE swap_slot[f] # NoSlot
  <2>1. s = swap_slot[f]
    BY Zenon, <1>6 DEF AcquireSwapSlot, SwapChoices
  <2>2. s \notin free_swap /\ s # high_water
    BY <1>4, <1>6, <1>h, <2>1 DEF SwapPartition
  <2>3. swap_slot' = swap_slot /\ free_swap' = free_swap /\ high_water' = high_water
    BY Zenon, <2>1, <2>2 DEF AcquireSwapSlot, TypeOK, BackingsTyped
  <2> QED BY Zenon, <1>1, <1>2, <1>6, <2>1, <2>3 DEF SwapPartition
<1>7. CASE swap_slot[f] = NoSlot /\ free_swap # {}
  <2>1. s \in free_swap /\ s # high_water
    BY <1>7, <1>5, <1>h DEF AcquireSwapSlot, SwapChoices
  <2>2. free_swap' = free_swap \ {s} /\ high_water' = high_water
    BY Zenon, <2>1 DEF AcquireSwapSlot
  <2>3. \A g \in Frames : swap_slot[g] # s
    BY Zenon, <2>1 DEF SwapPartition
  <2> QED BY <1>1, <1>2, <1>3, <1>7, <2>1, <2>2, <2>3 DEF SwapPartition
<1>8. CASE swap_slot[f] = NoSlot /\ free_swap = {}
  <2>1. s = high_water
    BY Zenon, <1>8 DEF AcquireSwapSlot, SwapChoices
  <2>2. free_swap' = {} /\ high_water' = high_water + 1
    BY Zenon, <1>8, <2>1 DEF AcquireSwapSlot
  <2>3. \A g \in Frames : swap_slot[g] # s
    BY <1>3, <1>4, <1>h, <2>1
  <2>4. 0 .. high_water' - 1 = (0 .. high_water - 1) \cup {s}
    BY <1>h, <2>1, <2>2
  <2> QED BY <1>1, <1>2, <1>3, <1>8, <2>2, <2>3, <2>4 DEF SwapPartition
<1> QED BY Zenon, <1>6, <1>7, <1>8

\* Releasing a swap slot keeps the partition of the swap area.
LEMMA SwapRelease ==
    ASSUME TypeOK, SwapPartition, NEW f \in Frames,
           swap_slot' = [swap_slot EXCEPT ![f] = NoSlot],
           free_swap' = IF swap_slot[f] # NoSlot THEN free_swap \cup {swap_slot[f]}
                        ELSE free_swap,
           UNCHANGED high_water
    PROVE  SwapPartition'
<1>1. \A g \in Frames \ {f} : swap_slot'[g] = swap_slot[g]
  BY DEF TypeOK
<1>2. swap_slot'[f] = NoSlot
  BY Zenon DEF TypeOK, BackingsTyped
<1>3. NoSlot \notin free_swap
  BY ConstantsAssumption DEF TypeOK, BackingsTyped, SwapSlots, NoSlot
<1> QED BY <1>1, <1>2, <1>3 DEF SwapPartition

-----------------------------------------------------------------------------
(* Contents.                                                               *)

\* Write-back of v leaves every other frame's backing alone, and a successful
\* one leaves v's content in v's backing.
LEMMA WriteBackContent ==
    ASSUME Inv, NEW v \in Resident, WriteBackOk(v) \/ WriteBackFail(v), UNCHANGED frameVars
    PROVE  /\ SwapPartition'
           /\ \A g \in Frames \ {v} : BackingData(g)' = BackingData(g)
           /\ WriteBackOk(v) => BackingData(v)' = Data(v)
           /\ \A g \in Frames : swap_slot'[g] # swap_slot[g] => g = v /\ ~IsSharedFile(v)
<1> USE DEF Inv
<1>1. v \in Frames /\ Data(v) \in Values
  BY Zenon, DataType
<1>2. CASE v \notin dirty /\ UNCHANGED <<swapVars, fileVars>>
  <2>1. \A g \in Frames : BackingData(g)' = BackingData(g)
    BY Zenon, <1>2 DEF BackingData
  <2>2. BackingData(v) = Data(v)
    BY Zenon, <1>2 DEF CleanIsBacked
  <2> QED BY Zenon, <1>1, <1>2, <2>1, <2>2, SwapSame
<1>3. CASE IsSharedFile(v) /\ UNCHANGED swapVars /\ (FileWriteOk(v) \/ FileWriteFail(v))
  <2>1. page[v] \in Pages /\ page[v] # NoPage /\ swap_slot[v] = NoSlot
    BY Zenon, <1>1, <1>3, ConstantsAssumption DEF PageOwnership, IsSharedFile, TypeOK, FramesTyped
  <2>2. \A p \in Pages \ {page[v]} : file_data'[p] = file_data[p]
    BY Zenon, <1>3 DEF FileWriteOk, FileWriteFail, TypeOK, BackingsTyped
  <2>3. \A g \in Frames \ {v} : kind[g] \in {"shared", "private"} =>
            page[g] \in Pages \ {page[v]}
    BY Zenon, <1>1, <2>1 DEF PageOwnership, TypeOK, FramesTyped
  <2>4. \A g \in Frames \ {v} : BackingData(g)' = BackingData(g)
    BY Zenon, <1>3, <2>2, <2>3 DEF BackingData
  <2>5. FileWriteOk(v) => BackingData(v)' = Data(v)
    BY Zenon, <1>3, <2>1 DEF FileWriteOk, BackingData, IsSharedFile, TypeOK, BackingsTyped
  <2>6. WriteBackOk(v) => FileWriteOk(v) \/ (v \notin dirty /\ UNCHANGED fileVars)
    BY Zenon, <1>3 DEF WriteBackOk
  <2>7. v \notin dirty /\ UNCHANGED fileVars => BackingData(v)' = Data(v)
    BY Zenon, <1>3 DEF BackingData, CleanIsBacked
  <2> QED BY Zenon, <1>1, <1>3, <2>4, <2>5, <2>6, <2>7, SwapSame
<1>4. ASSUME ~IsSharedFile(v), UNCHANGED fileVars, NEW s \in SwapSlots, NEW d \in Values,
             AcquireSwapSlot(v, s), swap_file' = [swap_file EXCEPT ![s] = d]
      PROVE  /\ SwapPartition'
             /\ \A g \in Frames \ {v} : BackingData(g)' = BackingData(g)
             /\ BackingData(v)' = d
             /\ \A g \in Frames : swap_slot'[g] # swap_slot[g] => g = v
  <2>1. /\ SwapPartition'
        /\ \A g \in Frames \ {v} : swap_slot'[g] = swap_slot[g] /\ swap_slot[g] # s
        /\ swap_slot'[v] = s
    BY Zenon, <1>1, <1>4, SwapAcquire
  <2>2. s # NoSlot
    BY ConstantsAssumption DEF SwapSlots, NoSlot
  <2>3. \A g \in Frames \ {v} : BackingData(g)' = BackingData(g)
    BY <1>4, <2>1 DEF BackingData, TypeOK
  <2>4. BackingData(v)' = d
    BY Zenon, <1>4, <2>1, <2>2 DEF BackingData, TypeOK, BackingsTyped
  <2> QED BY Zenon, <2>1, <2>3, <2>4
<1>5. CASE v \in dirty /\ ~IsSharedFile(v) /\ UNCHANGED fileVars /\ SwapWriteOk(v)
  BY Zenon, <1>1, <1>4, <1>5 DEF SwapWriteOk
<1>6. CASE v \in dirty /\ ~IsSharedFile(v) /\ UNCHANGED fileVars /\ SwapWriteFail(v)
          /\ ~WriteBackOk(v)
  <2>1. CASE UNCHANGED swapVars
    BY Zenon, <1>6, <2>1, SwapSame DEF BackingData
  <2>2. CASE \E s \in SwapSlots, d \in Values :
                AcquireSwapSlot(v, s) /\ swap_file' = [swap_file EXCEPT ![s] = d]
    BY Zenon, <1>4, <1>6, <2>2
  <2> QED BY Zenon, <1>6, <2>1, <2>2 DEF SwapWriteFail
<1> QED BY Zenon, <1>2, <1>3, <1>5, <1>6 DEF WriteBackOk, WriteBackFail

-----------------------------------------------------------------------------
(* Ownership of frames.                                                    *)

\* A call runs on a live frame its thread holds; the thread was idle or in it.
LEMMA RunsHolds ==
    ASSUME Inv, NEW t \in Threads, NEW o \in CallOps, Runs(t, o)
    PROVE  /\ o.f \in Frames /\ o.k \in {"read", "write", "copy", "fill"}
           /\ t \in refs[o.f] /\ kind[o.f] # "none"
           /\ op[t].k \in {"idle", o.k}
           /\ o.k = "fill" => /\ op[t] = o
                              /\ refs[o.f] = {t}
                              /\ pins[o.f] = {}
                              /\ transient_pins[o.f] = {}
<1>1. o.f \in Frames /\ o.k \in {"read", "write", "copy", "fill"}
  BY Zenon DEF CallOps
<1>2. CASE NewCall(t, o)
  <2>1. o.k # "fill" /\ op[t].k = "idle" /\ t \in refs[o.f]
    <3>1. o.k \in Calls /\ op[t] = Idle /\ t \in refs[o.f]
      BY Zenon, <1>2 DEF NewCall
    <3>2. o.k # "fill"
      BY Zenon, <3>1, ConstantsAssumption
    <3>3. op[t].k = "idle"
      BY <3>1 DEF Idle
    <3> QED BY Zenon, <3>1, <3>2, <3>3
  <2> QED BY Zenon, <1>1, <2>1 DEF Inv, FrameOwnership
<1>3. CASE op[t] = o
  BY Zenon, <1>1, <1>3 DEF Inv, FrameOwnership, CallOwnership
<1> QED BY Zenon, <1>2, <1>3, <1>1 DEF Runs

\* Only victims and the frame itself change slots in a call.
LEMMA AccessSlots ==
    ASSUME Inv, NEW t \in Threads, NEW o \in CallOps, Access(t, o)
    PROVE  /\ UNCHANGED <<kind, page, pins, transient_pins, store, lock>>
           /\ \A g \in Frames : kind[g] = "none" =>
                resident_slot'[g] = NoSlot /\ swap_slot'[g] = NoSlot
           /\ \A g \in Resident : ~Unpinned(g) => resident_slot'[g] = resident_slot[g]
<1> USE DEF Inv
<1>o. o.f \in Frames /\ kind[o.f] # "none"
  BY Zenon, RunsHolds DEF Access
<1>1. CASE Hit(t, o)
  BY Zenon, <1>1 DEF Hit, FrameOwnership
<1>2. CASE PageIn(t, o)
  <2>1. PICK s \in free_slots : resident_slot' = [resident_slot EXCEPT ![o.f] = s]
    BY Zenon, <1>2 DEF PageIn
  <2>2. \A g \in Frames \ {o.f} : resident_slot'[g] = resident_slot[g]
    BY <2>1 DEF TypeOK
  <2>3. o.f \notin Resident /\ Resident \subseteq Frames
    BY Zenon, <1>2 DEF PageIn, Resident
  <2> QED BY Zenon, <1>2, <1>o, <2>2, <2>3 DEF PageIn, FrameOwnership
<1>3. ASSUME NEW v \in Frames, PageInEvicting(t, o, v) \/ EvictionFails(t, o, v)
      PROVE  /\ UNCHANGED <<kind, page, pins, transient_pins, store, lock>>
             /\ \A g \in Frames : kind[g] = "none" =>
                resident_slot'[g] = NoSlot /\ swap_slot'[g] = NoSlot
             /\ \A g \in Resident : ~Unpinned(g) => resident_slot'[g] = resident_slot[g]
  <2>1. v \in Resident /\ Unpinned(v) /\ o.f \notin Resident
    BY Zenon, <1>3 DEF PageInEvicting, EvictionFails, IsVictim, Candidates
  <2>2. kind[v] # "none"
    BY Zenon, <2>1 DEF Resident, FrameOwnership
  <2>3. \A g \in Frames \ {v} : swap_slot'[g] = swap_slot[g]
    BY Zenon, <1>3, <2>1, WriteBackContent DEF PageInEvicting, EvictionFails
  <2>4. \A g \in Frames \ {v, o.f} : resident_slot'[g] = resident_slot[g]
    BY Zenon, <1>3 DEF PageInEvicting, EvictionFails, TypeOK, ArenaTyped
  <2>5. Resident \subseteq Frames
    BY Zenon DEF Resident
  <2>6. UNCHANGED <<kind, page, pins, transient_pins, store, lock>>
    BY Zenon, <1>3 DEF PageInEvicting, EvictionFails
  <2>7. ASSUME NEW g \in Frames, kind[g] = "none"
        PROVE  resident_slot'[g] = NoSlot /\ swap_slot'[g] = NoSlot
    BY Zenon, <1>o, <2>2, <2>3, <2>4, <2>7 DEF FrameOwnership
  <2>8. ASSUME NEW g \in Resident, ~Unpinned(g) PROVE resident_slot'[g] = resident_slot[g]
    BY Zenon, <2>1, <2>4, <2>5, <2>8
  <2> QED BY Zenon, <2>6, <2>7, <2>8
<1>4. CASE ReadFails(t, o) \/ Busy(t, o) \/ Wait(t, o)
  BY Zenon, <1>4 DEF ReadFails, Busy, Wait, FrameOwnership
<1> QED BY Zenon, <1>1, <1>2, <1>3, <1>4 DEF Access

\* What a call may do to its thread's state and to the references.
LEMMA AccessCalls ==
    ASSUME Inv, NEW t \in Threads, NEW o \in CallOps, Access(t, o)
    PROVE  \/ /\ UNCHANGED refs
              /\ \E d \in Values : Returned(t, o, d)
              /\ UNCHANGED waiters
           \/ Failed(t, o) /\ UNCHANGED waiters
           \/ UNCHANGED refs /\ op' = [op EXCEPT ![t] = o] /\ waiters' = waiters \cup {t}
              /\ HasTransientVictim(o.f)
<1>1. CASE Hit(t, o)
  BY Zenon, <1>1, DataType DEF Hit, Inv
<1>2. CASE PageIn(t, o) \/ \E v \in Frames : PageInEvicting(t, o, v)
  <2>1. BackingData(o.f) \in Values
    BY Zenon, BackingType DEF Inv, CallOps
  <2> QED BY Zenon, <1>2, <2>1 DEF PageIn, PageInEvicting
<1>3. CASE ReadFails(t, o) \/ Busy(t, o) \/ \E v \in Frames : EvictionFails(t, o, v)
  BY Zenon, <1>3 DEF ReadFails, Busy, EvictionFails
<1>4. CASE Wait(t, o)
  BY Zenon, <1>4 DEF Wait
<1> QED BY Zenon, <1>1, <1>2, <1>3, <1>4 DEF Access

-----------------------------------------------------------------------------
(* Types.                                                                  *)

\* A write to a file page, done or failed, keeps the types of file and error.
LEMMA FileWriteType ==
    ASSUME TypeOK, PageOwnership, NEW f \in Resident, IsSharedFile(f), FileWriteOk(f) \/ FileWriteFail(f)
    PROVE  file_data' \in [Pages -> Values] /\ writeback_error' \in SUBSET Backings
<1>1. f \in Frames /\ Data(f) \in Values BY Zenon, DataType
<1>2. page[f] \in Pages BY Zenon, <1>1 DEF TypeOK, FramesTyped, PageOwnership, IsSharedFile
<1>3. BackingOf[page[f]] \in Backings BY Zenon, <1>2, ConstantsAssumption
<1> QED BY Zenon, <1>1, <1>2, <1>3 DEF TypeOK, BackingsTyped, FileWriteOk, FileWriteFail

\* Acquiring a swap slot for a victim keeps the types of the swap area.
LEMMA AcquireType ==
    ASSUME TypeOK, NEW f \in Frames, NEW s \in SwapSlots, AcquireSwapSlot(f, s)
    PROVE /\ swap_slot' \in [Frames -> SwapSlots \cup {NoSlot}]
          /\ free_swap' \in SUBSET SwapSlots
          /\ high_water' \in 0 .. MaxSwap
  BY ConstantsAssumption DEF TypeOK, BackingsTyped, AcquireSwapSlot, SwapSlots

\* Writing a frame back, done or failed, keeps the types of every backing.
LEMMA WriteBackType ==
    ASSUME TypeOK, PageOwnership, NEW f \in Resident, WriteBackOk(f) \/ WriteBackFail(f)
    PROVE  BackingsTyped'
<1>1. f \in Frames /\ Data(f) \in Values BY Zenon, DataType
<1>2. CASE f \notin dirty /\ UNCHANGED <<swapVars, fileVars>>
  BY Zenon, <1>2 DEF TypeOK, BackingsTyped
<1>3. CASE IsSharedFile(f) /\ UNCHANGED swapVars /\ (FileWriteOk(f) \/ FileWriteFail(f))
  BY Zenon, <1>3, FileWriteType DEF TypeOK, BackingsTyped
<1>4. CASE UNCHANGED fileVars /\ (SwapWriteOk(f) \/ SwapWriteFail(f))
  BY Zenon, <1>1, <1>4, AcquireType DEF TypeOK, BackingsTyped, SwapWriteOk, SwapWriteFail
<1> QED BY Zenon, <1>2, <1>3, <1>4 DEF WriteBackOk, WriteBackFail

\* An access (page-in, with or without eviction, then read or write) keeps TypeOK.
LEMMA AccessType ==
    ASSUME Inv, NEW t \in Threads, NEW o \in CallOps, Access(t, o)
    PROVE  TypeOK'
<1> USE ConstantsAssumption, IdleType DEF Inv
<1>o. /\ o \in Ops /\ o.f \in Frames /\ o.v \in Values
      /\ \A d \in Values : Stored(o, d) \in Values
      /\ \A d \in Values : Creating(o, d) \in Ops
      /\ Dropping(o.f) \in Ops
      /\ Dirtied(o) \in SUBSET Frames
  BY Zenon DEF CallOps, Ops, Stored, Dirtied, Creating, Dropping
<1>b. BackingData(o.f) \in Values
  BY Zenon, <1>o, BackingType
<1>t. op \in [Threads -> Ops] /\ refs \in [Frames -> SUBSET Threads]
  BY Zenon DEF TypeOK, FramesTyped, CallsTyped
<1>r. \A d \in Values : Returned(t, o, d) => op' \in [Threads -> Ops]
  BY <1>o, <1>t DEF Returned
<1>f. Failed(t, o) => op' \in [Threads -> Ops] /\ refs' \in [Frames -> SUBSET Threads]
  BY <1>o, <1>t DEF Failed
<1>c. CountRefault(o.f) => refault_count' \in 0 .. MaxCount
  BY DEF CountRefault, Saturating, TypeOK, AgesTyped
<1>1. CASE Hit(t, o)
  <2>1. Data(o.f) \in Values /\ resident_slot[o.f] \in Slots
    BY Zenon, <1>1, DataType DEF Hit
  <2>2. arena' \in [Slots -> Values] /\ older' \in [Frames -> SUBSET Frames]
    BY Zenon, <1>1, <1>o, <2>1 DEF Hit, Touched, TypeOK, ArenaTyped, AgesTyped, Resident
  <2> QED
    BY Zenon, <1>1, <1>o, <1>r, <2>1, <2>2
       DEF Hit, TypeOK, FramesTyped, ArenaTyped, BackingsTyped, AgesTyped, CallsTyped
<1>2. CASE PageIn(t, o)
  <2>1. older' \in [Frames -> SUBSET Frames]
    BY Zenon, <1>2, <1>o DEF PageIn, Touched, TypeOK, AgesTyped, Resident
  <2>2. /\ free_slots' \in SUBSET Slots
        /\ resident_slot' \in [Frames -> Slots \cup {NoSlot}]
        /\ arena' \in [Slots -> Values]
    <3>1. PICK s \in free_slots :
            /\ free_slots' = free_slots \ {s}
            /\ resident_slot' = [resident_slot EXCEPT ![o.f] = s]
            /\ arena' = [arena EXCEPT ![s] = Stored(o, BackingData(o.f))]
      BY Zenon, <1>2 DEF PageIn
    <3> QED BY Zenon, <1>o, <1>b, <3>1 DEF TypeOK, ArenaTyped
  <2>3. resident_count' \in 0 .. ResidentLimit
    BY <1>2 DEF PageIn, TypeOK, ArenaTyped
  <2> QED
    BY Zenon, <1>2, <1>o, <1>b, <1>r, <1>c, <2>1, <2>2, <2>3
       DEF PageIn, TypeOK, FramesTyped, ArenaTyped, BackingsTyped, AgesTyped, CallsTyped
<1>3. ASSUME NEW v \in Frames, PageInEvicting(t, o, v) PROVE TypeOK'
  <2>1. v \in Resident
    BY Zenon, <1>3 DEF PageInEvicting, IsVictim, Candidates
  <2>2. resident_slot[v] \in Slots
    BY Zenon, <2>1, DataType
  <2>3. BackingsTyped'
    BY Zenon, <1>3, <2>1, WriteBackType DEF PageInEvicting
  <2>4. older' \in [Frames -> SUBSET Frames]
    BY Zenon, <1>3, <1>o DEF PageInEvicting, Touched, Forgotten, TypeOK, AgesTyped, Resident
  <2>5. reclaim_count' \in 0 .. MaxCount
    BY <1>3 DEF PageInEvicting, Saturating, TypeOK, AgesTyped
  <2>6. /\ resident_slot' \in [Frames -> Slots \cup {NoSlot}]
        /\ arena' \in [Slots -> Values]
    BY Zenon, <1>3, <1>o, <1>b, <2>2 DEF PageInEvicting, TypeOK, ArenaTyped
  <2> QED BY Zenon, <1>3, <1>o, <1>b, <1>r, <1>c, <2>3, <2>4, <2>5, <2>6
          DEF PageInEvicting, TypeOK, FramesTyped, ArenaTyped, AgesTyped, CallsTyped
<1>4. ASSUME NEW v \in Frames, EvictionFails(t, o, v) PROVE TypeOK'
  <2>1. v \in Resident
    BY Zenon, <1>4 DEF EvictionFails, IsVictim, Candidates
  <2>2. BackingsTyped'
    BY Zenon, <1>4, <2>1, WriteBackType DEF EvictionFails
  <2> QED
    BY Zenon, <1>4, <1>f, <2>2
       DEF EvictionFails, TypeOK, FramesTyped, ArenaTyped, AgesTyped, CallsTyped
<1>5. CASE ReadFails(t, o) \/ Busy(t, o)
  BY Zenon, <1>5, <1>f
     DEF ReadFails, Busy, TypeOK, FramesTyped, ArenaTyped, BackingsTyped, AgesTyped, CallsTyped
<1>6. CASE Wait(t, o)
  BY Zenon, <1>6, <1>o
     DEF Wait, TypeOK, FramesTyped, ArenaTyped, BackingsTyped, AgesTyped, CallsTyped
<1> QED BY Zenon, <1>1, <1>2, <1>3, <1>4, <1>5, <1>6 DEF Access

-----------------------------------------------------------------------------
(* The arena, the swap file and what backs a frame.                        *)

\* There are finitely many resident frames: one per slot.
LEMMA ResidentFinite ==
    ASSUME TypeOK
    PROVE  /\ IsFiniteSet(Resident)
           /\ Cardinality(Resident) \in Nat
           /\ \A f \in Resident : Cardinality(Resident) > 0
<1>1. IsFiniteSet(Resident)
  BY Zenon, FS_Subset, ConstantsAssumption DEF Resident
<1>2. Cardinality(Resident) \in Nat
  BY Zenon, <1>1, FS_CardinalityType
<1>3. Cardinality(Resident) = 0 <=> Resident = {}
  BY Zenon, <1>1, FS_EmptySet
<1> QED BY <1>1, <1>2, <1>3

\* Giving a resident slot up keeps the types of the arena.
LEMMA GiveUpSlotType ==
    ASSUME TypeOK, ArenaPartition, NEW f \in Resident, GiveUpSlot(f)
    PROVE  /\ dirty' \in SUBSET Frames
           /\ resident_slot' \in [Frames -> Slots \cup {NoSlot}]
           /\ free_slots' \in SUBSET Slots
           /\ resident_count' \in 0 .. ResidentLimit
           /\ cold' \in SUBSET Frames
           /\ older' \in [Frames -> SUBSET Frames]
<1>1. f \in Frames /\ resident_slot[f] \in Slots
  BY Zenon, DataType
<1>2. resident_count > 0
  BY Zenon, ResidentFinite DEF ArenaPartition
<1> QED BY <1>1, <1>2, ConstantsAssumption DEF GiveUpSlot, Forgotten, TypeOK, ArenaTyped, AgesTyped

\* Every step of the store keeps TypeOK.
LEMMA TypeStep == Inv /\ [Next]_vars => TypeOK'
<1> SUFFICES ASSUME Inv, [Next]_vars PROVE TypeOK'
  OBVIOUS
<1> USE ConstantsAssumption, IdleType DEF Inv
<1>1. ASSUME NEW t \in Threads, NEW o \in CallOps, Access(t, o) PROVE TypeOK'
  BY Zenon, <1>1, AccessType
<1>2. ASSUME NEW t \in Threads, NEW f \in Frames, NEW k \in Kinds,
             NEW p \in Pages \cup {NoPage}, Create(t, f, k, p) PROVE TypeOK'
  BY Zenon, <1>2
     DEF Create, Allocate, TypeOK, FramesTyped, ArenaTyped, BackingsTyped, AgesTyped, CallsTyped
<1>3. ASSUME NEW t \in Threads, NEW f \in Frames, CreateCopy(t, f) PROVE TypeOK'
  <2>1. op[t].p \in Pages \cup {NoPage} /\ Filling(f, op[t].v) \in Ops
    BY Zenon DEF TypeOK, CallsTyped, Ops, Filling
  <2>2. FramesTyped' /\ CallsTyped'
    BY Zenon, <1>3, <2>1 DEF CreateCopy, Allocate, TypeOK, FramesTyped, CallsTyped
  <2>3. ArenaTyped' /\ BackingsTyped' /\ AgesTyped'
    BY Zenon, <1>3 DEF CreateCopy, Allocate, TypeOK, ArenaTyped, BackingsTyped, AgesTyped
  <2> QED BY Zenon, <2>2, <2>3 DEF TypeOK
<1>4. ASSUME NEW t \in Threads, NEW f \in Frames, Retain(t, f) \/ Release(t, f)
      PROVE  TypeOK'
  <2>1. Dropping(f) \in Ops
    BY Zenon DEF Dropping, Ops
  <2>2. FramesTyped'
    BY <1>4 DEF Retain, Release, TypeOK, FramesTyped
  <2>3. CallsTyped'
    BY Zenon, <1>4, <2>1 DEF Retain, Release, TypeOK, CallsTyped
  <2>4. ArenaTyped' /\ BackingsTyped' /\ AgesTyped'
    BY Zenon, <1>4 DEF Retain, Release, TypeOK, ArenaTyped, BackingsTyped, AgesTyped
  <2> QED BY Zenon, <2>2, <2>3, <2>4 DEF TypeOK
<1>5. ASSUME NEW t \in Threads, CreateCopyFails(t) \/ SpuriousWakeup(t) PROVE TypeOK'
  BY <1>5
     DEF CreateCopyFails, SpuriousWakeup,
         TypeOK, FramesTyped, ArenaTyped, BackingsTyped, AgesTyped, CallsTyped
<1>6. ASSUME NEW t \in Threads, Drop(t) PROVE TypeOK'
  <2> DEFINE f == op[t].f
  <2>1. f \in Frames
    BY Zenon, <1>6 DEF Drop, CallOwnership
  <2>2. file_data' \in [Pages -> Values] /\ writeback_error' \in SUBSET Backings
    BY Zenon, <1>6, <2>1, FileWriteType
       DEF Drop, FinalWriteBack, CleanIsBacked, TypeOK, BackingsTyped
  <2>3. f \in Resident => resident_slot[f] \in Slots /\ resident_count > 0
    BY Zenon, DataType, ResidentFinite DEF ArenaPartition
  <2>4. older' \in [Frames -> SUBSET Frames]
    BY Zenon, <1>6 DEF Drop, Forgotten, TypeOK, AgesTyped
  <2>5. /\ free_slots' \in SUBSET Slots
        /\ resident_slot' \in [Frames -> Slots \cup {NoSlot}]
        /\ resident_count' \in 0 .. ResidentLimit
    BY <1>6, <2>1, <2>3 DEF Drop, TypeOK, ArenaTyped
  <2>6. /\ swap_slot' \in [Frames -> SwapSlots \cup {NoSlot}]
        /\ free_swap' \in SUBSET SwapSlots
    BY Zenon, <1>6, <2>1 DEF Drop, TypeOK, BackingsTyped
  <2> QED
    BY Zenon, <1>6, <2>1, <2>2, <2>4, <2>5, <2>6
       DEF Drop, TypeOK, FramesTyped, ArenaTyped, BackingsTyped, AgesTyped, CallsTyped
<1>7. CASE StoreDestroy
  BY Zenon, <1>7
     DEF StoreDestroy, TypeOK, FramesTyped, ArenaTyped, BackingsTyped, AgesTyped, CallsTyped
<1>8. ASSUME NEW t \in Threads, NEW f \in Frames, Sync(t, f) PROVE TypeOK'
  <2>1. BackingsTyped'
    BY Zenon, <1>8, WriteBackType DEF Sync
  <2> QED BY Zenon, <1>8, <2>1 DEF Sync, TypeOK, FramesTyped, ArenaTyped, AgesTyped, CallsTyped
<1>9. ASSUME NEW t \in Threads, NEW f \in Frames, PageOut(t, f) PROVE TypeOK'
  <2>1. BackingsTyped'
    BY Zenon, <1>9, WriteBackType DEF PageOut
  <2> QED
    BY Zenon, <1>9, <2>1, GiveUpSlotType
       DEF PageOut, TypeOK, FramesTyped, ArenaTyped, AgesTyped, CallsTyped
<1>10. ASSUME NEW t \in Threads, NEW f \in Frames,
              MarkCold(t, f) \/ Pin(t, f) \/ Unpin(t, f)
              \/ TryPinResident(t, f) \/ UnpinResident(t, f)
       PROVE  TypeOK'
  <2>1. CASE MarkCold(t, f)
    BY Zenon, <2>1
       DEF MarkCold, TypeOK, FramesTyped, ArenaTyped, BackingsTyped, AgesTyped, CallsTyped
  <2>2. CASE Pin(t, f) \/ Unpin(t, f)
    BY <2>2
       DEF Pin, Unpin, PinStep, TypeOK, FramesTyped, ArenaTyped, BackingsTyped, AgesTyped, CallsTyped
  <2>3. CASE TryPinResident(t, f) \/ UnpinResident(t, f)
    BY <2>3
       DEF TryPinResident, UnpinResident, PinStep,
           TypeOK, FramesTyped, ArenaTyped, BackingsTyped, AgesTyped, CallsTyped
  <2> QED BY Zenon, <1>10, <2>1, <2>2, <2>3
<1>11. ASSUME NEW t \in Threads, NEW target \in 1 .. MaxTarget, ReclaimStart(t, target)
       PROVE  TypeOK'
  BY <1>11 DEF ReclaimStart, TypeOK, FramesTyped, ArenaTyped, BackingsTyped, AgesTyped, CallsTyped
<1>12. ASSUME NEW t \in Threads, NEW v \in Frames, ReclaimVictim(t, v) \/ ReclaimFails(t, v)
       PROVE  TypeOK'
  <2>1. v \in Resident
    BY Zenon, <1>12 DEF ReclaimVictim, ReclaimFails, IsVictim, Candidates
  <2>2. BackingsTyped'
    BY Zenon, <1>12, <2>1, WriteBackType DEF ReclaimVictim, ReclaimFails
  <2>3. CASE ReclaimVictim(t, v)
    <3>1. reclaim_count' \in 0 .. MaxCount
      BY <2>3 DEF ReclaimVictim, Saturating, TypeOK, AgesTyped
    <3> QED
      BY <2>1, <2>2, <2>3, <3>1, GiveUpSlotType
         DEF ReclaimVictim, TypeOK, FramesTyped, ArenaTyped, AgesTyped, CallsTyped
  <2>4. CASE ReclaimFails(t, v)
    BY <2>2, <2>4 DEF ReclaimFails, TypeOK, FramesTyped, ArenaTyped, AgesTyped, CallsTyped
  <2> QED BY Zenon, <1>12, <2>3, <2>4
<1>13. ASSUME NEW t \in Threads, ReclaimEnd(t) PROVE TypeOK'
  BY <1>13 DEF ReclaimEnd, TypeOK, FramesTyped, ArenaTyped, BackingsTyped, AgesTyped, CallsTyped
<1>14. CASE UNCHANGED vars
  BY Zenon, <1>14 DEF vars, TypeOK, FramesTyped, ArenaTyped, BackingsTyped, AgesTyped, CallsTyped
<1> QED BY Zenon, <1>1, <1>2, <1>3, <1>4, <1>5, <1>6, <1>7, <1>8, <1>9, <1>10, <1>11, <1>12,
           <1>13, <1>14 DEF Next, Lifetime, Control, Reclaim, Freed

-----------------------------------------------------------------------------
(* The arena.                                                              *)

\* A step that leaves the arena alone keeps its partition.
LEMMA ArenaSame ==
    ASSUME ArenaPartition, UNCHANGED slotVars
    PROVE  ArenaPartition'
  BY Zenon DEF ArenaPartition, Resident

\* Taking a free slot keeps the partition of the arena (acquire_resident_slot).
LEMMA ArenaTake ==
    ASSUME TypeOK, ArenaPartition, NEW f \in Frames, f \notin Resident,
           NEW s \in free_slots,
           free_slots' = free_slots \ {s},
           resident_slot' = [resident_slot EXCEPT ![f] = s],
           resident_count' = resident_count + 1
    PROVE  ArenaPartition'
<1>1. s \in Slots /\ s # NoSlot
  BY ConstantsAssumption DEF TypeOK, ArenaTyped, Slots, NoSlot
<1>2. Resident' = Resident \cup {f}
  BY Zenon, <1>1 DEF Resident, TypeOK, ArenaTyped
<1>3. resident_count' = Cardinality(Resident')
  BY Zenon, <1>2, ResidentFinite, FS_AddElement DEF ArenaPartition
<1>4. \A g \in Resident : resident_slot'[g] = resident_slot[g] /\ resident_slot[g] # s
  BY DEF ArenaPartition, Resident, TypeOK
<1>5. resident_slot'[f] = s
  BY Zenon DEF TypeOK, ArenaTyped
<1> QED BY <1>1, <1>2, <1>3, <1>4, <1>5 DEF ArenaPartition

\* Giving a slot back keeps the partition of the arena (release_resident_slot).
LEMMA ArenaGive ==
    ASSUME TypeOK, ArenaPartition, NEW f \in Resident,
           free_slots' = free_slots \cup {resident_slot[f]},
           resident_slot' = [resident_slot EXCEPT ![f] = NoSlot],
           resident_count' = resident_count - 1
    PROVE  ArenaPartition'
<1>1. f \in Frames /\ resident_slot'[f] = NoSlot
  BY Zenon DEF TypeOK, ArenaTyped, Resident
<1>2. Resident' = Resident \ {f}
  BY <1>1 DEF Resident, TypeOK
<1>3. resident_count' = Cardinality(Resident')
  BY Zenon, <1>2, ResidentFinite, FS_RemoveElement DEF ArenaPartition
<1>4. \A g \in Resident \ {f} : resident_slot'[g] = resident_slot[g]
                                /\ resident_slot[g] # resident_slot[f]
  BY DEF ArenaPartition, Resident, TypeOK
<1> QED BY <1>2, <1>3, <1>4 DEF ArenaPartition

\* A victim whose slot goes to the frame paged in keeps the partition of the arena.
LEMMA ArenaPass ==
    ASSUME TypeOK, ArenaPartition, NEW f \in Frames, f \notin Resident, NEW v \in Resident,
           UNCHANGED <<free_slots, resident_count>>,
           resident_slot' = [resident_slot EXCEPT ![v] = NoSlot, ![f] = resident_slot[v]]
    PROVE  ArenaPartition'
<1>1. /\ v \in Frames /\ v # f
      /\ resident_slot'[v] = NoSlot /\ resident_slot'[f] = resident_slot[v]
      /\ resident_slot[v] # NoSlot
  BY Zenon DEF TypeOK, ArenaTyped, Resident
<1>2. Resident' = (Resident \ {v}) \cup {f}
  BY Zenon, <1>1 DEF Resident, TypeOK, ArenaTyped
<1>3. Cardinality(Resident') = Cardinality(Resident)
  <2>1. /\ IsFiniteSet(Resident \ {v})
        /\ Cardinality(Resident \ {v}) = Cardinality(Resident) - 1
    BY Zenon, ResidentFinite, FS_RemoveElement
  <2>2. Cardinality((Resident \ {v}) \cup {f}) = Cardinality(Resident \ {v}) + 1
    BY Zenon, <2>1, FS_AddElement
  <2> QED BY <1>2, <2>1, <2>2, ResidentFinite
<1>4. \A g \in Resident \ {v} : resident_slot'[g] = resident_slot[g]
                                /\ resident_slot[g] # resident_slot[v]
  BY Zenon DEF ArenaPartition, Resident, TypeOK, ArenaTyped
<1>5. {resident_slot'[g] : g \in Resident'} = {resident_slot[g] : g \in Resident}
  BY Zenon, <1>1, <1>2, <1>4
<1>6. \A g, h \in Resident' : resident_slot'[g] = resident_slot'[h] => g = h
  <2>1. \A g, h \in Resident : resident_slot[g] = resident_slot[h] => g = h
    BY Zenon DEF ArenaPartition
  <2>2. \A g \in Resident' : g = f \/ g \in Resident \ {v}
    BY Zenon, <1>2
  <2>3. ASSUME NEW g \in Resident', NEW h \in Resident', resident_slot'[g] = resident_slot'[h]
        PROVE  g = h
    <3>1. CASE g = f /\ h # f
      BY Zenon, <1>1, <1>4, <2>2, <2>3, <3>1
    <3>2. CASE g # f /\ h = f
      BY Zenon, <1>1, <1>4, <2>2, <2>3, <3>2
    <3>3. CASE g # f /\ h # f
      BY Zenon, <1>4, <2>1, <2>2, <2>3, <3>3
    <3> QED BY Zenon, <3>1, <3>2, <3>3
  <2> QED BY Zenon, <2>3
<1>7. \A g \in Resident' : resident_slot'[g] \notin free_slots'
  <2>1. \A g \in Resident : resident_slot[g] \notin free_slots
    BY Zenon DEF ArenaPartition
  <2>2. \A g \in Resident' : g = f \/ g \in Resident \ {v}
    BY Zenon, <1>2
  <2>3. v \in Resident OBVIOUS
  <2>4. ASSUME NEW g \in Resident' PROVE resident_slot'[g] \notin free_slots
    <3>1. CASE g = f BY Zenon, <1>1, <2>1, <2>3, <3>1
    <3>2. CASE g \in Resident \ {v} BY Zenon, <1>4, <2>1, <3>2
    <3> QED BY Zenon, <2>2, <3>1, <3>2
  <2> QED BY Zenon, <2>4
<1> QED BY Zenon, <1>3, <1>5, <1>6, <1>7 DEF ArenaPartition

Storage == ArenaPartition /\ SwapPartition /\ CleanIsBacked

\* A step that leaves frames, slots and backings alone keeps Storage.
LEMMA StorageSame ==
    ASSUME Inv, UNCHANGED <<kind, page, slotVars, arena, dirty, swapVars, fileVars>>
    PROVE  Storage'
<1>1. ArenaPartition' /\ SwapPartition'
  BY Zenon, ArenaSame, SwapSame DEF Inv
<1>2. CleanIsBacked'
  BY Zenon DEF Inv, CleanIsBacked, Resident, Data, BackingData
<1> QED BY Zenon, <1>1, <1>2 DEF Storage

\* A write-back that keeps the frame where it is: sync, and every failure.
LEMMA StorageWriteBack ==
    ASSUME Inv, NEW v \in Resident, UNCHANGED <<kind, page, slotVars, arena>>,
           \/ WriteBackOk(v) /\ dirty' = dirty \ {v}
           \/ WriteBackFail(v) /\ dirty' = dirty
    PROVE  Storage'
<1> USE DEF Inv
<1>1. /\ SwapPartition'
      /\ \A g \in Frames \ {v} : BackingData(g)' = BackingData(g)
      /\ WriteBackOk(v) => BackingData(v)' = Data(v)
  BY Zenon, WriteBackContent
<1>2. WriteBackFail(v) => v \in dirty
  BY Zenon DEF WriteBackFail
<1>3. Resident' = Resident /\ Resident \subseteq Frames
  BY Zenon DEF Resident
<1>4. \A g \in Resident : Data(g)' = Data(g)
  BY Zenon DEF Data
<1>5. CleanIsBacked'
  BY Zenon, <1>1, <1>2, <1>3, <1>4 DEF CleanIsBacked
<1> QED BY Zenon, <1>1, <1>5, ArenaSame DEF Storage

\* A page-out after a successful write-back.
LEMMA StorageGiveUp ==
    ASSUME Inv, NEW v \in Resident, WriteBackOk(v), GiveUpSlot(v), UNCHANGED <<kind, page, arena>>
    PROVE  Storage'
<1> USE DEF Inv
<1>1. /\ SwapPartition'
      /\ \A g \in Frames \ {v} : BackingData(g)' = BackingData(g)
  BY Zenon, WriteBackContent
<1>2. ArenaPartition'
  BY Zenon, ArenaGive DEF GiveUpSlot
<1>3. Resident' = Resident \ {v} /\ Resident \subseteq Frames
  BY Zenon DEF GiveUpSlot, Resident, TypeOK, ArenaTyped
<1>4. \A g \in Resident \ {v} : Data(g)' = Data(g)
  BY <1>3 DEF GiveUpSlot, Data, TypeOK
<1>5. CleanIsBacked'
  BY Zenon, <1>1, <1>3, <1>4 DEF CleanIsBacked, GiveUpSlot
<1> QED BY Zenon, <1>1, <1>2, <1>5 DEF Storage

\* An access keeps Storage, whatever it evicts and whatever fails.
LEMMA StorageAccess ==
    ASSUME Inv, NEW t \in Threads, NEW o \in CallOps, Access(t, o)
    PROVE  Storage'
<1> USE DEF Inv
<1>o. /\ o.f \in Frames /\ Dirtied(o) \subseteq {o.f}
      /\ o.f \notin Dirtied(o) => \A d : Stored(o, d) = d
  BY Zenon DEF CallOps, Dirtied, Stored
<1>r. Resident \subseteq Frames
  BY Zenon DEF Resident
<1>s. \A f, g \in Resident : f # g => resident_slot[f] # resident_slot[g]
  BY Zenon DEF ArenaPartition
<1>t. \A g \in Resident : resident_slot[g] \in Slots
  BY Zenon, DataType
<1>1. CASE Hit(t, o)
  <2>1. ArenaPartition' /\ SwapPartition'
    BY Zenon, <1>1, ArenaSame, SwapSame DEF Hit
  <2>2. Resident' = Resident /\ o.f \in Resident
    BY Zenon, <1>1 DEF Hit, Resident
  <2>3. \A g \in Resident \ {o.f} : Data(g)' = Data(g)
    BY <1>1, <1>s, <1>t, <2>2 DEF Hit, Data, TypeOK
  <2>4. o.f \notin Dirtied(o) => Data(o.f)' = Data(o.f)
    BY <1>1, <1>o, <1>t, <2>2 DEF Hit, Data, TypeOK
  <2>5. \A g \in Frames : BackingData(g)' = BackingData(g)
    BY Zenon, <1>1 DEF Hit, BackingData
  <2>6. dirty' = dirty \cup Dirtied(o)
    BY Zenon, <1>1 DEF Hit
  <2>7. dirty' \subseteq Resident'
    BY Zenon, <1>o, <2>2, <2>6 DEF CleanIsBacked
  <2>8. ASSUME NEW g \in Resident' \ dirty' PROVE Data(g)' = BackingData(g)'
    BY Zenon, <1>r, <2>2, <2>3, <2>4, <2>5, <2>6, <2>8 DEF CleanIsBacked
  <2> QED BY Zenon, <2>1, <2>7, <2>8 DEF CleanIsBacked, Storage
<1>2. CASE PageIn(t, o)
  <2>1. PICK s \in free_slots :
            /\ free_slots' = free_slots \ {s}
            /\ resident_slot' = [resident_slot EXCEPT ![o.f] = s]
            /\ arena' = [arena EXCEPT ![s] = Stored(o, BackingData(o.f))]
    BY Zenon, <1>2 DEF PageIn
  <2>2. s \in Slots /\ s # NoSlot
    BY <2>1, ConstantsAssumption DEF TypeOK, ArenaTyped, Slots, NoSlot
  <2>3. ArenaPartition' /\ SwapPartition'
    BY Zenon, <1>2, <1>o, <2>1, ArenaTake, SwapSame DEF PageIn
  <2>4. Resident' = Resident \cup {o.f}
    <3>1. /\ resident_slot'[o.f] = s
          /\ \A g \in Frames \ {o.f} : resident_slot'[g] = resident_slot[g]
      BY Zenon, <1>o, <2>1 DEF TypeOK, ArenaTyped
    <3> QED BY Zenon, <1>o, <2>2, <3>1 DEF Resident
  <2>5. \A g \in Resident \ {o.f} : Data(g)' = Data(g)
    BY <1>r, <1>t, <2>1 DEF Data, TypeOK, ArenaPartition
  <2>6. Data(o.f)' = Stored(o, BackingData(o.f))
    BY Zenon, <1>o, <2>1, <2>2 DEF Data, TypeOK, ArenaTyped
  <2>7. \A g \in Frames : BackingData(g)' = BackingData(g)
    BY Zenon, <1>2 DEF PageIn, BackingData
  <2>8. dirty' = dirty \cup Dirtied(o)
    BY Zenon, <1>2 DEF PageIn
  <2>9. dirty' \subseteq Resident'
    BY Zenon, <1>o, <2>4, <2>8 DEF CleanIsBacked
  <2>10. ASSUME NEW g \in Resident' \ dirty' PROVE Data(g)' = BackingData(g)'
    BY Zenon, <1>o, <1>r, <2>4, <2>5, <2>6, <2>7, <2>8, <2>10 DEF CleanIsBacked
  <2> QED BY Zenon, <2>3, <2>9, <2>10 DEF CleanIsBacked, Storage
<1>3. ASSUME NEW v \in Frames, PageInEvicting(t, o, v) PROVE Storage'
  <2>1. v \in Resident /\ o.f \notin Resident /\ v # o.f
    BY Zenon, <1>3 DEF PageInEvicting, IsVictim, Candidates
  <2>2. /\ SwapPartition'
        /\ \A g \in Frames \ {v} : BackingData(g)' = BackingData(g)
    BY Zenon, <1>3, <2>1, WriteBackContent DEF PageInEvicting
  <2>3. ArenaPartition'
    BY Zenon, <1>3, <1>o, <2>1, ArenaPass DEF PageInEvicting
  <2>4. Resident' = (Resident \ {v}) \cup {o.f}
    <3>1. resident_slot' = [resident_slot EXCEPT ![v] = NoSlot, ![o.f] = resident_slot[v]]
      BY Zenon, <1>3 DEF PageInEvicting
    <3>2. /\ resident_slot'[v] = NoSlot /\ resident_slot'[o.f] = resident_slot[v]
          /\ \A g \in Frames \ {v, o.f} : resident_slot'[g] = resident_slot[g]
      BY Zenon, <1>o, <2>1, <3>1 DEF TypeOK, ArenaTyped
    <3> QED BY Zenon, <1>o, <2>1, <3>2 DEF Resident
  <2>5. \A g \in Resident \ {v} : Data(g)' = Data(g)
    <3>1. \A g \in Resident \ {v} : resident_slot'[g] = resident_slot[g]
      BY Zenon, <1>3, <1>r, <2>1 DEF PageInEvicting, TypeOK, ArenaTyped
    <3>2. \A s \in Slots \ {resident_slot[v]} : arena'[s] = arena[s]
      BY <1>3 DEF PageInEvicting, TypeOK
    <3> QED BY Zenon, <1>s, <1>t, <2>1, <3>1, <3>2 DEF Data
  <2>6. Data(o.f)' = Stored(o, BackingData(o.f))
    BY Zenon, <1>3, <1>o, <1>t, <2>1 DEF PageInEvicting, Data, TypeOK, ArenaTyped
  <2>7. dirty' = (dirty \ {v}) \cup Dirtied(o)
    BY Zenon, <1>3 DEF PageInEvicting
  <2>8. dirty' \subseteq Resident'
    BY Zenon, <1>o, <2>4, <2>7 DEF CleanIsBacked
  <2>9. ASSUME NEW g \in Resident' \ dirty' PROVE Data(g)' = BackingData(g)'
    <3>1. CASE g = o.f
      BY Zenon, <1>o, <2>1, <2>2, <2>6, <2>7, <2>9, <3>1
    <3>2. CASE g \in Resident \ {v}
      BY Zenon, <1>r, <2>2, <2>5, <2>7, <2>9, <3>2 DEF CleanIsBacked
    <3> QED BY Zenon, <2>4, <2>9, <3>1, <3>2
  <2> QED BY Zenon, <2>2, <2>3, <2>8, <2>9 DEF CleanIsBacked, Storage
<1>4. ASSUME NEW v \in Frames, EvictionFails(t, o, v) PROVE Storage'
  <2>1. v \in Resident
    BY Zenon, <1>4 DEF EvictionFails, IsVictim, Candidates
  <2> QED BY Zenon, <1>4, <2>1, StorageWriteBack DEF EvictionFails
<1>5. CASE ReadFails(t, o) \/ Busy(t, o) \/ Wait(t, o)
  BY Zenon, <1>5, StorageSame DEF ReadFails, Busy, Wait
<1> QED BY Zenon, <1>1, <1>2, <1>3, <1>4, <1>5 DEF Access

\* The creation of a frame keeps Storage.
LEMMA StorageAllocate ==
    ASSUME Inv, NEW t \in Threads, NEW f \in Frames,
           NEW k \in {"zero", "shared", "private"}, NEW p \in Pages \cup {NoPage},
           Allocate(t, f, k, p)
    PROVE  Storage'
<1> USE DEF Inv
<1>1. ArenaPartition' /\ SwapPartition'
  BY Zenon, ArenaSame, SwapSame DEF Allocate
<1>2. Resident' = Resident /\ f \notin Resident /\ Resident \subseteq Frames
  <2>1. UNCHANGED resident_slot /\ resident_slot[f] = NoSlot
    BY Zenon DEF Allocate, FrameOwnership
  <2> QED BY Zenon, <2>1 DEF Resident
<1>3. \A g \in Frames \ {f} : BackingData(g)' = BackingData(g)
  <2>1. /\ \A g \in Frames \ {f} : kind'[g] = kind[g] /\ page'[g] = page[g]
        /\ UNCHANGED <<swap_slot, swap_file, file_data>>
    BY Zenon DEF Allocate, TypeOK, FramesTyped
  <2> QED BY Zenon, <2>1 DEF BackingData
<1>4. \A g \in Resident : Data(g)' = Data(g)
  BY Zenon DEF Allocate, Data
<1>5. CleanIsBacked'
  BY Zenon, <1>2, <1>3, <1>4 DEF Allocate, CleanIsBacked
<1> QED BY Zenon, <1>1, <1>5 DEF Storage

\* The last release of a frame keeps Storage: both its slots are free again.
LEMMA StorageDrop ==
    ASSUME Inv, NEW t \in Threads, Drop(t)
    PROVE  Storage'
<1> USE DEF Inv
<1> DEFINE f == op[t].f
<1>1. f \in Frames
  BY Zenon DEF Drop, CallOwnership
<1>2. ArenaPartition'
  <2>1. CASE f \in Resident
    BY Zenon, <2>1, ArenaGive DEF Drop
  <2>2. CASE f \notin Resident
    <3>1. resident_slot' = resident_slot
      BY Zenon, <1>1, <2>2 DEF Drop, Resident, TypeOK, ArenaTyped
    <3> QED BY Zenon, <2>2, <3>1, ArenaSame DEF Drop
  <2> QED BY Zenon, <2>1, <2>2
<1>3. SwapPartition'
  BY Zenon, <1>1, SwapRelease DEF Drop
<1>s. /\ resident_slot'[f] = NoSlot /\ UNCHANGED arena
      /\ \A g \in Frames \ {f} : resident_slot'[g] = resident_slot[g]
  BY Zenon, <1>1 DEF Drop, TypeOK, ArenaTyped
<1> HIDE DEF f
<1>4. Resident' = Resident \ {f} /\ Resident \subseteq Frames
  BY Zenon, <1>1, <1>s DEF Resident
<1>5. \A g \in Resident \ {f} : Data(g)' = Data(g)
  BY Zenon, <1>4, <1>s DEF Data
<1> USE DEF f
<1>6. \A g \in Frames \ {f} : BackingData(g)' = BackingData(g)
  <2>1. \A g \in Frames \ {f} : /\ swap_slot'[g] = swap_slot[g]
                                /\ kind'[g] = kind[g]
                                /\ page'[g] = page[g]
    BY DEF Drop, TypeOK
  <2>2. ASSUME NEW g \in Frames \ {f}, kind[g] \in {"shared", "private"}
        PROVE  file_data'[page[g]] = file_data[page[g]]
    <3>1. page[g] \in Pages /\ page[g] # page[f]
      BY Zenon, <1>1, <2>2 DEF PageOwnership, TypeOK, FramesTyped
    <3>2. FileWriteOk(f) \/ FileWriteFail(f) => file_data'[page[g]] = file_data[page[g]]
      BY Zenon, <3>1 DEF FileWriteOk, FileWriteFail, TypeOK, BackingsTyped
    <3> QED BY Zenon, <3>2 DEF Drop, FinalWriteBack
  <2>3. swap_file' = swap_file
    BY Zenon DEF Drop
  <2> QED BY Zenon, <2>1, <2>2, <2>3 DEF BackingData
<1>7. CleanIsBacked'
  BY Zenon, <1>4, <1>5, <1>6 DEF Drop, CleanIsBacked
<1> QED BY Zenon, <1>2, <1>3, <1>7 DEF Storage

\* Every step of the store keeps Storage.
LEMMA StorageStep == Inv /\ [Next]_vars => Storage'
<1> SUFFICES ASSUME Inv, [Next]_vars PROVE Storage'
  OBVIOUS
<1>1. ASSUME NEW t \in Threads, NEW o \in CallOps, Access(t, o) PROVE Storage'
  BY Zenon, <1>1, StorageAccess
<1>2. ASSUME NEW t \in Threads, NEW f \in Frames, NEW k \in Kinds,
             NEW p \in Pages \cup {NoPage}, Create(t, f, k, p) PROVE Storage'
  <2>1. k \in {"zero", "shared", "private"}
    BY Zenon, ConstantsAssumption
  <2> QED BY Zenon, <1>2, <2>1, StorageAllocate DEF Create
<1>3. ASSUME NEW t \in Threads, NEW f \in Frames, CreateCopy(t, f) PROVE Storage'
  <2>1. op[t].p \in Pages \cup {NoPage}
    BY Zenon DEF Inv, TypeOK, CallsTyped, Ops
  <2> QED BY Zenon, <1>3, <2>1, StorageAllocate DEF CreateCopy
<1>4. ASSUME NEW t \in Threads, Drop(t) PROVE Storage'
  BY Zenon, <1>4, StorageDrop
<1>5. ASSUME NEW t \in Threads, NEW f \in Frames, Sync(t, f) PROVE Storage'
  BY Zenon, <1>5, StorageWriteBack DEF Sync
<1>6. ASSUME NEW t \in Threads, NEW f \in Frames, PageOut(t, f) PROVE Storage'
  BY Zenon, <1>6, StorageWriteBack, StorageGiveUp DEF PageOut
<1>7. ASSUME NEW t \in Threads, NEW v \in Frames, ReclaimVictim(t, v) \/ ReclaimFails(t, v)
      PROVE  Storage'
  <2>1. v \in Resident
    BY Zenon, <1>7 DEF ReclaimVictim, ReclaimFails, IsVictim, Candidates
  <2> QED BY Zenon, <1>7, <2>1, StorageWriteBack, StorageGiveUp DEF ReclaimVictim, ReclaimFails
<1>8. ASSUME NEW t \in Threads, NEW f \in Frames,
             \/ Retain(t, f) \/ Release(t, f) \/ MarkCold(t, f)
             \/ Pin(t, f) \/ Unpin(t, f) \/ TryPinResident(t, f) \/ UnpinResident(t, f)
      PROVE  Storage'
  BY Zenon, <1>8, StorageSame
     DEF Retain, Release, MarkCold, Pin, Unpin, TryPinResident, UnpinResident, PinStep
<1>9. ASSUME NEW t \in Threads, NEW target \in 1 .. MaxTarget,
             ReclaimStart(t, target)
      PROVE  Storage'
  BY Zenon, <1>9, StorageSame DEF ReclaimStart
<1>10. ASSUME NEW t \in Threads, CreateCopyFails(t) \/ SpuriousWakeup(t) \/ ReclaimEnd(t)
       PROVE  Storage'
  BY Zenon, <1>10, StorageSame DEF CreateCopyFails, SpuriousWakeup, ReclaimEnd
<1>11. CASE StoreDestroy \/ UNCHANGED vars
  BY Zenon, <1>11, StorageSame DEF StoreDestroy, vars
<1> QED BY Zenon, <1>1, <1>2, <1>3, <1>4, <1>5, <1>6, <1>7, <1>8, <1>9, <1>10, <1>11
        DEF Next, Lifetime, Control, Reclaim, Freed

=============================================================================
