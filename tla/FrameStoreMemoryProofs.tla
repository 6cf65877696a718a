----------------------- MODULE FrameStoreMemoryProofs -----------------------
(***************************************************************************)
(* Proofs about what callers observe of the frame store: the victim of a   *)
(* reclaim is always determined, and the store implements FrameMemory.     *)
(***************************************************************************)
EXTENDS FrameStoreSafety, FrameStoreMemory

USE DEF frameVars, holdVars, slotVars, swapVars, fileVars, ageVars, callVars, lockVars

-----------------------------------------------------------------------------
(* The order of the access stamps.                                         *)

\* A frame that is stamped becomes the newest; others may have left the arena.
LEMMA AgesStamp ==
    ASSUME AgesOrdered, NEW f \in Resident', Resident' \ {f} \subseteq Resident,
           older'[f] = Resident' \ {f},
           \A g \in Resident' \ {f} :
                /\ older'[g] \subseteq older[g] \ {f}
                /\ \A h \in Resident' \ {f} : h \in older[g] => h \in older'[g]
    PROVE  AgesOrdered'
<1>1. ASSUME NEW g \in Resident', NEW h \in Resident', g # h
      PROVE  g \in older'[h] \/ h \in older'[g]
  <2>1. CASE g = f \/ h = f
    BY Zenon, <1>1, <2>1
  <2>2. CASE g # f /\ h # f
    BY Zenon, <1>1, <2>2 DEF AgesOrdered
  <2> QED BY Zenon, <2>1, <2>2
<1>2. ASSUME NEW S \in SUBSET Resident', S # {}
      PROVE  \E g \in S : older'[g] \cap S = {}
  <2>1. CASE S = {f}
    BY Zenon, <2>1
  <2>2. CASE S # {f}
    <3>1. S \ {f} # {} /\ S \ {f} \in SUBSET Resident
      BY Zenon, <1>2, <2>2
    <3>2. PICK g \in S \ {f} : older[g] \cap (S \ {f}) = {}
      BY Zenon, <3>1 DEF AgesOrdered
    <3>3. g \in S /\ older'[g] \cap S = {}
      BY Zenon, <1>2, <3>2
    <3> QED BY Zenon, <3>3
  <2> QED BY Zenon, <2>1, <2>2
<1> QED BY Zenon, <1>1, <1>2 DEF AgesOrdered

\* Frames that leave the arena leave the others in order.
LEMMA AgesLeave ==
    ASSUME AgesOrdered, Resident' \subseteq Resident,
           \A g \in Resident' : /\ older'[g] \subseteq older[g]
                                /\ \A h \in Resident' : h \in older[g] => h \in older'[g]
    PROVE  AgesOrdered'
<1>1. \A g, h \in Resident' : g # h => g \in older'[h] \/ h \in older'[g]
  BY Zenon DEF AgesOrdered
<1>2. ASSUME NEW S \in SUBSET Resident', S # {}
      PROVE  \E g \in S : older'[g] \cap S = {}
  <2>1. PICK g \in S : older[g] \cap S = {}
    BY Zenon, <1>2 DEF AgesOrdered
  <2>2. older'[g] \cap S = {}
    BY Zenon, <1>2, <2>1
  <2> QED BY Zenon, <2>2
<1> QED BY Zenon, <1>1, <1>2 DEF AgesOrdered

\* A step that stamps nothing and moves nothing keeps the order.
LEMMA AgesSame ==
    ASSUME AgesOrdered, UNCHANGED <<older, resident_slot>>
    PROVE  AgesOrdered'
<1>1. Resident' = Resident
  BY Zenon DEF Resident
<1> QED BY Zenon, <1>1 DEF AgesOrdered

\* A page-out or a last release takes its frame out of the order.
LEMMA AgesForget ==
    ASSUME AgesOrdered, NEW f \in Frames, resident_slot \in [Frames -> Slots \cup {NoSlot}],
           resident_slot' = [resident_slot EXCEPT ![f] = NoSlot], older' = Forgotten(older, f)
    PROVE  AgesOrdered'
<1>1. Resident' \subseteq Resident \ {f} /\ Resident' \subseteq Frames
  <2>1. resident_slot'[f] = NoSlot /\ \A g \in Frames \ {f} : resident_slot'[g] = resident_slot[g]
    BY Zenon
  <2> QED BY Zenon, <2>1 DEF Resident
<1>2. \A g \in Resident' : older'[g] = older[g] \ {f}
  BY Zenon, <1>1 DEF Forgotten
<1> QED BY Zenon, <1>1, <1>2, AgesLeave

\* An access stamps its frame, after it has evicted a victim or not.
LEMMA AgesAccess ==
    ASSUME Inv, AgesOrdered, NEW t \in Threads, NEW o \in CallOps, Access(t, o)
    PROVE  AgesOrdered'
<1>o. o.f \in Frames
  BY Zenon DEF CallOps
<1>r. Resident \subseteq Frames /\ Resident' \subseteq Frames
  BY Zenon DEF Resident
<1>t. resident_slot \in [Frames -> Slots \cup {NoSlot}]
  BY Zenon DEF Inv, TypeOK, ArenaTyped
<1>1. CASE Hit(t, o)
  <2>1. Resident' = Resident /\ o.f \in Resident
    BY Zenon, <1>1 DEF Hit, Resident
  <2>2. /\ older'[o.f] = Resident \ {o.f}
        /\ \A g \in Frames \ {o.f} : older'[g] = older[g] \ {o.f}
    BY Zenon, <1>1, <1>o DEF Hit, Touched
  <2>3. older'[o.f] = Resident' \ {o.f}
    BY Zenon, <2>1, <2>2
  <2>4. \A g \in Resident' \ {o.f} :
            /\ older'[g] \subseteq older[g] \ {o.f}
            /\ \A h \in Resident' \ {o.f} : h \in older[g] => h \in older'[g]
    BY Zenon, <1>r, <2>2
  <2> QED BY Zenon, <2>1, <2>3, <2>4, AgesStamp
<1>2. CASE PageIn(t, o)
  <2>1. PICK s \in free_slots : resident_slot' = [resident_slot EXCEPT ![o.f] = s]
    BY Zenon, <1>2 DEF PageIn
  <2>2. s # NoSlot
    BY <2>1, ConstantsAssumption DEF Inv, TypeOK, ArenaTyped, Slots, NoSlot
  <2>3. /\ resident_slot'[o.f] = s
        /\ \A g \in Frames \ {o.f} : resident_slot'[g] = resident_slot[g]
    BY Zenon, <1>o, <1>t, <2>1
  <2>4. o.f \in Resident' /\ Resident' \ {o.f} = Resident
    BY Zenon, <1>2, <1>o, <2>2, <2>3 DEF PageIn, Resident
  <2>5. /\ older'[o.f] = Resident
        /\ \A g \in Frames \ {o.f} : older'[g] = older[g] \ {o.f}
    BY Zenon, <1>2, <1>o DEF PageIn, Touched
  <2>6. \A g \in Resident' \ {o.f} :
            /\ older'[g] \subseteq older[g] \ {o.f}
            /\ \A h \in Resident' \ {o.f} : h \in older[g] => h \in older'[g]
    BY Zenon, <1>r, <2>5
  <2> QED BY Zenon, <2>4, <2>5, <2>6, AgesStamp
<1>3. ASSUME NEW v \in Frames, PageInEvicting(t, o, v) PROVE AgesOrdered'
  <2>1. v \in Resident /\ o.f \notin Resident
    BY Zenon, <1>3 DEF PageInEvicting, IsVictim, Candidates
  <2>2. /\ resident_slot'[v] = NoSlot /\ resident_slot'[o.f] = resident_slot[v]
        /\ \A g \in Frames \ {v, o.f} : resident_slot'[g] = resident_slot[g]
    BY Zenon, <1>3, <1>o, <1>t, <2>1 DEF PageInEvicting
  <2>3. o.f \in Resident' /\ Resident' \ {o.f} = Resident \ {v}
    BY Zenon, <1>o, <2>1, <2>2 DEF Resident
  <2>4. /\ older'[o.f] = Resident \ {v}
        /\ \A g \in Frames \ {v, o.f} : older'[g] = (older[g] \ {v}) \ {o.f}
    BY Zenon, <1>3, <1>o DEF PageInEvicting, Touched, Forgotten
  <2>5. \A g \in Resident' \ {o.f} :
            /\ older'[g] \subseteq older[g] \ {o.f}
            /\ \A h \in Resident' \ {o.f} : h \in older[g] => h \in older'[g]
    <3>1. \A g \in Resident' \ {o.f} : g \in Frames \ {v, o.f} /\ g # v /\ g # o.f
      BY Zenon, <1>r, <2>3
    <3>2. ASSUME NEW g \in Resident' \ {o.f}
          PROVE  older'[g] = (older[g] \ {v}) \ {o.f}
      BY Zenon, <2>4, <3>1
    <3> QED BY Zenon, <3>1, <3>2
  <2> QED BY Zenon, <2>3, <2>4, <2>5, AgesStamp
<1>4. CASE \/ \E v \in Frames : EvictionFails(t, o, v)
           \/ ReadFails(t, o) \/ Busy(t, o) \/ Wait(t, o)
  BY Zenon, <1>4, AgesSame DEF EvictionFails, ReadFails, Busy, Wait
<1> QED BY Zenon, <1>1, <1>2, <1>3, <1>4 DEF Access

\* Every step of the store keeps the order of the stamps.
LEMMA AgesStep == Inv /\ AgesOrdered /\ [Next]_vars => AgesOrdered'
<1> SUFFICES ASSUME Inv, AgesOrdered, [Next]_vars PROVE AgesOrdered'
  OBVIOUS
<1>t. resident_slot \in [Frames -> Slots \cup {NoSlot}]
  BY Zenon DEF Inv, TypeOK, ArenaTyped
<1>1. ASSUME NEW t \in Threads, NEW o \in CallOps, Access(t, o) PROVE AgesOrdered'
  BY Zenon, <1>1, AgesAccess
<1>2. ASSUME NEW t \in Threads, NEW f \in Frames, PageOut(t, f) PROVE AgesOrdered'
  BY Zenon, <1>2, <1>t, AgesForget, AgesSame DEF PageOut, GiveUpSlot
<1>3. ASSUME NEW t \in Threads, NEW v \in Frames, ReclaimVictim(t, v) PROVE AgesOrdered'
  BY Zenon, <1>3, <1>t, AgesForget DEF ReclaimVictim, GiveUpSlot
<1>4. ASSUME NEW t \in Threads, Drop(t) PROVE AgesOrdered'
  <2>1. op[t].f \in Frames
    BY Zenon, <1>4 DEF Drop, Inv, CallOwnership
  <2> QED BY Zenon, <1>4, <1>t, <2>1, AgesForget DEF Drop
<1>5. ASSUME NEW t \in Threads, NEW f \in Frames, NEW k \in Kinds,
             NEW p \in Pages \cup {NoPage}, Create(t, f, k, p) PROVE AgesOrdered'
  BY Zenon, <1>5, AgesSame DEF Create, Allocate
<1>6. ASSUME NEW t \in Threads, NEW f \in Frames,
             CreateCopy(t, f) \/ Retain(t, f) \/ Release(t, f) \/ Sync(t, f) \/ MarkCold(t, f)
      PROVE  AgesOrdered'
  BY Zenon, <1>6, AgesSame DEF CreateCopy, Allocate, Retain, Release, Sync, MarkCold
<1>7. ASSUME NEW t \in Threads, NEW f \in Frames,
             Pin(t, f) \/ Unpin(t, f) \/ TryPinResident(t, f) \/ UnpinResident(t, f)
      PROVE  AgesOrdered'
  BY Zenon, <1>7, AgesSame DEF Pin, Unpin, TryPinResident, UnpinResident, PinStep
<1>8. ASSUME NEW t \in Threads,
             \/ CreateCopyFails(t) \/ SpuriousWakeup(t) \/ ReclaimEnd(t)
             \/ \E v \in Frames : ReclaimFails(t, v)
             \/ \E target \in 1 .. MaxTarget : ReclaimStart(t, target)
      PROVE  AgesOrdered'
  BY Zenon, <1>8, AgesSame
     DEF CreateCopyFails, SpuriousWakeup, ReclaimEnd, ReclaimFails, ReclaimStart
<1>9. CASE StoreDestroy \/ UNCHANGED vars
  BY Zenon, <1>9, AgesSame DEF StoreDestroy, vars
<1> QED BY Zenon, <1>1, <1>2, <1>3, <1>4, <1>5, <1>6, <1>7, <1>8, <1>9
        DEF Next, Lifetime, Control, Reclaim, Freed

\* Whenever make_resident_locked or store_reclaim looks for a victim and some
\* frame can be evicted, find_victim has exactly one answer, in every order of
\* accesses, page-outs, hints and releases before it.
THEOREM VictimIsDetermined == Spec => []VictimIsUnique
<1>1. Init => AgesOrdered
  <2>1. Init => Resident = {}
    BY Zenon DEF Init, Resident
  <2> QED BY Zenon, <2>1 DEF AgesOrdered
<1>2. Inv /\ AgesOrdered => VictimIsUnique
  <2> SUFFICES ASSUME Inv, AgesOrdered, NEW excluded \in Frames \cup {NoFrame},
                      Candidates(excluded) # {}
               PROVE  \E v \in Frames : \A w \in Frames : IsVictim(w, excluded) <=> w = v
    BY Zenon DEF VictimIsUnique
  <2> DEFINE first == IF Candidates(excluded) \cap cold # {}
                      THEN Candidates(excluded) \cap cold ELSE Candidates(excluded)
  <2>1. first # {} /\ first \in SUBSET Resident /\ Resident \subseteq Frames
    BY Zenon DEF Candidates, Resident
  <2>2. PICK v \in first : older[v] \cap first = {}
    BY Zenon, <2>1 DEF AgesOrdered
  <2>3. ASSUME NEW w \in first, older[w] \cap first = {} PROVE w = v
    BY Zenon, <2>1, <2>2, <2>3 DEF AgesOrdered
  <2>4. \A w \in Frames : IsVictim(w, excluded) <=> w \in first /\ older[w] \cap first = {}
    BY Zenon DEF IsVictim
  <2>5. \A w \in Frames : IsVictim(w, excluded) <=> w = v
    <3> HIDE DEF first
    <3> QED BY Zenon, <2>2, <2>3, <2>4
  <2>6. v \in Frames
    <3> HIDE DEF first
    <3> QED BY Zenon, <2>1
  <2> QED BY Zenon, <2>5, <2>6
<1> QED BY <1>1, <1>2, AgesStep, Safety, PTL DEF Spec

-----------------------------------------------------------------------------
(* What callers find in the frames.                                        *)

\* The content of a live frame is a page content.
LEMMA ContentType ==
    ASSUME Inv, NEW f \in Frames
    PROVE  /\ Cells[f] = Content(f)
           /\ kind[f] # "none" => Content(f) \in Values
           /\ kind[f] = "none" <=> Content(f) = NoFrame
<1>1. BackingData(f) \in Values
  BY Zenon, BackingType DEF Inv
<1>2. f \in Resident => Data(f) \in Values
  BY Zenon, DataType DEF Inv
<1>3. NoFrame \notin Values
  BY Zenon, ConstantsAssumption
<1>4. Cells[f] = Content(f)
  BY Zenon DEF Cells
<1> QED BY Zenon, <1>1, <1>2, <1>3, <1>4 DEF Content

\* Contents that stay, frame by frame, are the same memory.
LEMMA SameCells ==
    ASSUME \A g \in Frames : Content(g)' = Content(g), UNCHANGED frameVars
    PROVE  Cells' = Cells /\ Homes' = Homes
<1>1. Cells' = Cells
  BY Zenon DEF Cells
<1>2. Homes' = Homes
  BY Zenon DEF Homes, IsSharedFile
<1> QED BY Zenon, <1>1, <1>2

\* A step that leaves frames, slots and backings alone is not observed.
LEMMA ContentSame ==
    ASSUME UNCHANGED <<frameVars, resident_slot, arena, swapVars, file_data>>
    PROVE  Cells' = Cells /\ Homes' = Homes
<1>1. \A g \in Frames : Content(g)' = Content(g)
  BY Zenon DEF Content, Resident, Data, BackingData
<1> QED BY Zenon, <1>1, SameCells

\* A write-back, done or failed, that keeps the frame in its slot is not observed.
LEMMA ContentWriteBack ==
    ASSUME Inv, NEW v \in Resident, UNCHANGED <<frameVars, resident_slot, arena>>,
           WriteBackOk(v) \/ WriteBackFail(v)
    PROVE  Cells' = Cells /\ Homes' = Homes
<1>1. \A g \in Frames \ {v} : BackingData(g)' = BackingData(g)
  BY Zenon, WriteBackContent
<1>2. Resident' = Resident /\ \A g \in Frames : Data(g)' = Data(g)
  BY Zenon DEF Resident, Data
<1>3. ASSUME NEW g \in Frames PROVE Content(g)' = Content(g)
  BY Zenon, <1>1, <1>2 DEF Content
<1> QED BY Zenon, <1>3, SameCells

\* A page-out is not observed: what was in the slot is in the backing.
LEMMA ContentGiveUp ==
    ASSUME Inv, NEW v \in Resident, WriteBackOk(v), GiveUpSlot(v), UNCHANGED <<frameVars, arena>>
    PROVE  Cells' = Cells /\ Homes' = Homes
<1>1. /\ \A g \in Frames \ {v} : BackingData(g)' = BackingData(g)
      /\ BackingData(v)' = Data(v)
  BY Zenon, WriteBackContent
<1>2. v \in Frames /\ resident_slot'[v] = NoSlot
      /\ \A g \in Frames \ {v} : resident_slot'[g] = resident_slot[g]
  BY Zenon DEF GiveUpSlot, Resident, Inv, TypeOK, ArenaTyped
<1>3. Resident' = Resident \ {v}
  BY Zenon, <1>2 DEF Resident
<1>4. ASSUME NEW g \in Frames PROVE Content(g)' = Content(g)
  <2>1. CASE g = v
    BY Zenon, <1>1, <1>2, <1>3, <2>1 DEF Content
  <2>2. CASE g # v
    BY Zenon, <1>1, <1>2, <1>3, <2>2 DEF Content, Data
  <2> QED BY Zenon, <2>1, <2>2
<1> QED BY Zenon, <1>4, SameCells

\* The content that a call on a frame leaves in it.
After(o) == [Cells EXCEPT ![o.f] = Stored(o, @)]

\* A call that returns has stored its value in its frame and has read what was
\* there, wherever that was found and whatever was evicted to make room.
LEMMA ContentServed ==
    ASSUME Inv, NEW t \in Threads, NEW o \in CallOps, Served(t, o)
    PROVE  Homes' = Homes /\ Cells' = After(o) /\ Returned(t, o, Content(o.f))
<1>o. o.f \in Frames /\ kind[o.f] # "none"
  BY Zenon, RunsHolds DEF Served
<1>r. Resident \subseteq Frames
  BY Zenon DEF Resident
<1>s. /\ \A f, g \in Resident : f # g => resident_slot[f] # resident_slot[g]
      /\ \A g \in Resident : resident_slot[g] \in Slots
      /\ arena \in [Slots -> Values] /\ resident_slot \in [Frames -> Slots \cup {NoSlot}]
  BY Zenon, DataType DEF Inv, ArenaPartition, TypeOK, ArenaTyped
<1>a. ASSUME \A g \in Frames \ {o.f} : Content(g)' = Content(g),
             Content(o.f)' = Stored(o, Content(o.f))
      PROVE  Cells' = After(o)
  BY Zenon, <1>a, <1>o DEF Cells, After
<1>1. CASE Hit(t, o)
  <2>1. Resident' = Resident /\ o.f \in Resident /\ UNCHANGED <<kind, resident_slot>>
    BY Zenon, <1>1 DEF Hit, Resident
  <2>2. \A g \in Resident \ {o.f} : Data(g)' = Data(g)
    BY Zenon, <1>1, <1>s, <2>1 DEF Hit, Data
  <2>3. Data(o.f)' = Stored(o, Data(o.f))
    BY Zenon, <1>1, <1>s, <2>1 DEF Hit, Data
  <2>4. \A g \in Frames : BackingData(g)' = BackingData(g)
    BY Zenon, <1>1 DEF Hit, BackingData
  <2>5. \A g \in Frames \ {o.f} : Content(g)' = Content(g)
    BY Zenon, <2>1, <2>2, <2>4 DEF Content
  <2>6. Content(o.f)' = Stored(o, Content(o.f)) /\ Content(o.f) = Data(o.f)
    BY Zenon, <1>o, <2>1, <2>3 DEF Content
  <2>7. Homes' = Homes /\ Returned(t, o, Data(o.f))
    BY Zenon, <1>1 DEF Hit, Homes, IsSharedFile
  <2> QED BY Zenon, <1>a, <2>5, <2>6, <2>7
<1>2. CASE PageIn(t, o)
  <2>1. PICK s \in free_slots :
            /\ resident_slot' = [resident_slot EXCEPT ![o.f] = s]
            /\ arena' = [arena EXCEPT ![s] = Stored(o, BackingData(o.f))]
    BY Zenon, <1>2 DEF PageIn
  <2>2. s \in Slots /\ s # NoSlot /\ \A g \in Resident : resident_slot[g] # s
    BY <2>1, ConstantsAssumption DEF Inv, ArenaPartition, TypeOK, ArenaTyped, Slots, NoSlot
  <2>3. /\ resident_slot'[o.f] = s /\ o.f \notin Resident
        /\ \A g \in Frames \ {o.f} : resident_slot'[g] = resident_slot[g]
    BY Zenon, <1>2, <1>o, <1>s, <2>1 DEF PageIn
  <2>4. Resident' = Resident \cup {o.f} /\ kind' = kind
    BY Zenon, <1>2, <1>o, <2>2, <2>3 DEF PageIn, Resident
  <2>5. \A g \in Resident : Data(g)' = Data(g)
    BY Zenon, <1>r, <1>s, <2>1, <2>2, <2>3 DEF Data
  <2>6. Data(o.f)' = Stored(o, BackingData(o.f))
    BY Zenon, <1>s, <2>1, <2>2, <2>3 DEF Data
  <2>7. \A g \in Frames : BackingData(g)' = BackingData(g)
    BY Zenon, <1>2 DEF PageIn, BackingData
  <2>8. \A g \in Frames \ {o.f} : Content(g)' = Content(g)
    BY Zenon, <2>4, <2>5, <2>7 DEF Content
  <2>9. Content(o.f)' = Stored(o, Content(o.f)) /\ Content(o.f) = BackingData(o.f)
    BY Zenon, <1>o, <2>3, <2>4, <2>6 DEF Content
  <2>10. Homes' = Homes /\ Returned(t, o, BackingData(o.f))
    BY Zenon, <1>2 DEF PageIn, Homes, IsSharedFile
  <2> QED BY Zenon, <1>a, <2>8, <2>9, <2>10
<1>3. ASSUME NEW v \in Frames, PageInEvicting(t, o, v)
      PROVE  Homes' = Homes /\ Cells' = After(o) /\ Returned(t, o, Content(o.f))
  <2>1. v \in Resident /\ o.f \notin Resident /\ v # o.f
    BY Zenon, <1>3 DEF PageInEvicting, IsVictim, Candidates
  <2>2. /\ \A g \in Frames \ {v} : BackingData(g)' = BackingData(g)
        /\ BackingData(v)' = Data(v)
    BY Zenon, <1>3, <2>1, WriteBackContent DEF PageInEvicting
  <2>3. /\ resident_slot'[v] = NoSlot /\ resident_slot'[o.f] = resident_slot[v]
        /\ \A g \in Frames \ {v, o.f} : resident_slot'[g] = resident_slot[g]
    BY Zenon, <1>3, <1>o, <1>s, <2>1 DEF PageInEvicting
  <2>4. Resident' = (Resident \ {v}) \cup {o.f} /\ kind' = kind
    BY Zenon, <1>3, <1>o, <2>1, <2>3 DEF PageInEvicting, Resident
  <2>5. \A g \in Resident \ {v} : Data(g)' = Data(g)
    <3>1. \A s \in Slots \ {resident_slot[v]} : arena'[s] = arena[s]
      BY Zenon, <1>3, <1>s DEF PageInEvicting
    <3>2. \A g \in Resident \ {v} : resident_slot'[g] = resident_slot[g]
      BY Zenon, <1>r, <2>1, <2>3
    <3> QED BY Zenon, <1>s, <2>1, <3>1, <3>2 DEF Data
  <2>6. Data(o.f)' = Stored(o, BackingData(o.f))
    BY Zenon, <1>3, <1>s, <2>1, <2>3 DEF PageInEvicting, Data
  <2>7. ASSUME NEW g \in Frames \ {o.f} PROVE Content(g)' = Content(g)
    <3>1. CASE g = v
      BY Zenon, <2>1, <2>2, <2>4, <3>1 DEF Content
    <3>2. CASE g # v
      BY Zenon, <2>2, <2>4, <2>5, <3>2 DEF Content
    <3> QED BY Zenon, <3>1, <3>2
  <2>8. Content(o.f)' = Stored(o, Content(o.f)) /\ Content(o.f) = BackingData(o.f)
    BY Zenon, <1>o, <2>1, <2>4, <2>6 DEF Content
  <2>9. Homes' = Homes /\ Returned(t, o, BackingData(o.f))
    BY Zenon, <1>3 DEF PageInEvicting, Homes, IsSharedFile
  <2> QED BY Zenon, <1>a, <2>7, <2>8, <2>9
<1> QED BY Zenon, <1>1, <1>2, <1>3 DEF Served

\* A call that fails or waits is not observed.
LEMMA ContentUnserved ==
    ASSUME Inv, NEW t \in Threads, NEW o \in CallOps, Unserved(t, o)
    PROVE  /\ Homes' = Homes /\ Cells' = Cells
           /\ Failed(t, o) \/ op' = [op EXCEPT ![t] = o]
<1>1. ASSUME NEW v \in Frames, EvictionFails(t, o, v)
      PROVE  Homes' = Homes /\ Cells' = Cells /\ Failed(t, o)
  <2>1. v \in Resident
    BY Zenon, <1>1 DEF EvictionFails, IsVictim, Candidates
  <2> QED BY Zenon, <1>1, <2>1, ContentWriteBack DEF EvictionFails
<1>2. CASE ReadFails(t, o) \/ Busy(t, o)
  BY Zenon, <1>2, ContentSame DEF ReadFails, Busy
<1>3. CASE Wait(t, o)
  BY Zenon, <1>3, ContentSame DEF Wait
<1> QED BY Zenon, <1>1, <1>2, <1>3 DEF Unserved

-----------------------------------------------------------------------------
(* What callers find in the files.                                         *)

\* A step that writes no file.
LEMMA FileSame ==
    ASSUME Inv, UNCHANGED fileVars
    PROVE  Memory!FileStep
<1>1. file_data \in [Pages -> Values]
  BY Zenon DEF Inv, TypeOK, BackingsTyped
<1> QED BY Zenon, <1>1 DEF Memory!FileStep

\* The write-back of a shared frame leaves its content in its file page, or
\* latches the error of the file; a latched file is not written.
LEMMA FileWritten ==
    ASSUME Inv, NEW f \in Resident, IsSharedFile(f), FileWriteOk(f) \/ FileWriteFail(f)
    PROVE  /\ Memory!FileStep
           /\ file_data'[page[f]] = Data(f) \/ BackingOf[page[f]] \in writeback_error'
<1>1. f \in Frames /\ page[f] \in Pages /\ file_data \in [Pages -> Values]
  BY Zenon, ConstantsAssumption
     DEF Resident, Inv, PageOwnership, IsSharedFile, TypeOK, FramesTyped, BackingsTyped
<1>2. file_data' \in [Pages -> Values]
  BY Zenon, FileWriteType DEF Inv
<1>3. Homes[f] = page[f] /\ Cells[f] = Data(f)
  BY Zenon, <1>1 DEF Homes, Cells, Content, IsSharedFile
<1>4. CASE FileWriteOk(f)
  <2>1. /\ BackingOf[page[f]] \notin writeback_error /\ writeback_error' = writeback_error
        /\ file_data'[page[f]] = Data(f)
        /\ \A p \in Pages \ {page[f]} : file_data'[p] = file_data[p]
    BY Zenon, <1>1, <1>4 DEF FileWriteOk
  <2> QED BY Zenon, <1>1, <1>2, <1>3, <2>1 DEF Memory!FileStep
<1>5. CASE FileWriteFail(f)
  <2>1. CASE BackingOf[page[f]] \in writeback_error /\ UNCHANGED fileVars
    BY Zenon, <2>1, FileSame
  <2>2. CASE /\ BackingOf[page[f]] \notin writeback_error
             /\ \E v \in Values : file_data' = [file_data EXCEPT ![page[f]] = v]
             /\ writeback_error' = writeback_error \cup {BackingOf[page[f]]}
    <3>1. \A p \in Pages \ {page[f]} : file_data'[p] = file_data[p]
      BY Zenon, <1>1, <2>2
    <3> QED BY Zenon, <1>1, <1>2, <2>2, <3>1 DEF Memory!FileStep
  <2> QED BY Zenon, <1>5, <2>1, <2>2 DEF FileWriteFail
<1> QED BY Zenon, <1>4, <1>5

\* Any write-back of a resident frame.
LEMMA FileWriteBack ==
    ASSUME Inv, NEW v \in Resident, WriteBackOk(v) \/ WriteBackFail(v)
    PROVE  Memory!FileStep
<1>1. CASE UNCHANGED fileVars
  BY Zenon, <1>1, FileSame
<1>2. CASE IsSharedFile(v) /\ (FileWriteOk(v) \/ FileWriteFail(v))
  BY Zenon, <1>2, FileWritten
<1> QED BY Zenon, <1>1, <1>2 DEF WriteBackOk, WriteBackFail

\* Any access.
LEMMA FileAccess ==
    ASSUME Inv, NEW t \in Threads, NEW o \in CallOps, Served(t, o) \/ Unserved(t, o)
    PROVE  Memory!FileStep
<1>1. CASE Hit(t, o) \/ PageIn(t, o) \/ ReadFails(t, o) \/ Busy(t, o) \/ Wait(t, o)
  BY Zenon, <1>1, FileSame DEF Hit, PageIn, ReadFails, Busy, Wait
<1>2. ASSUME NEW v \in Frames, PageInEvicting(t, o, v) \/ EvictionFails(t, o, v)
      PROVE  Memory!FileStep
  <2>1. v \in Resident /\ (WriteBackOk(v) \/ WriteBackFail(v))
    BY Zenon, <1>2 DEF PageInEvicting, EvictionFails, IsVictim, Candidates
  <2> QED BY Zenon, <2>1, FileWriteBack
<1> QED BY Zenon, <1>1, <1>2 DEF Served, Unserved

-----------------------------------------------------------------------------
(* The steps of the store as steps of FrameMemory.                         *)

\* A thread's copy has taken nothing unless it is to create or fill its frame.
LEMMA TakenMoves ==
    ASSUME Inv, NEW t \in Threads, NEW c, op' = [op EXCEPT ![t] = c]
    PROVE  Taken' = [Taken EXCEPT ![t] = IF c.k \in {"create", "fill"} THEN c.v ELSE NoFrame]
<1>1. op'[t] = c /\ \A u \in Threads \ {t} : op'[u] = op[u]
  BY Zenon DEF Inv, TypeOK, CallsTyped
<1> DEFINE taken == IF c.k \in {"create", "fill"} THEN c.v ELSE NoFrame
<1>2. Taken'[t] = taken /\ \A u \in Threads \ {t} : Taken'[u] = Taken[u]
  BY <1>1 DEF Taken
<1>3. Taken = [u \in Threads |-> Taken[u]] /\ Taken' = [u \in Threads |-> Taken'[u]]
  BY DEF Taken
<1> HIDE DEF taken
<1>4. Taken' = [Taken EXCEPT ![t] = taken]
  BY <1>2, <1>3
<1> QED BY Zenon, <1>4 DEF taken

\* A call that keeps what its thread has taken.
LEMMA TakenSame ==
    ASSUME Inv, NEW t \in Threads, NEW c, op' = [op EXCEPT ![t] = c],
           IF c.k \in {"create", "fill"} THEN Taken[t] = c.v ELSE Taken[t] = NoFrame
    PROVE  Taken' = Taken
<1>1. Taken' = [Taken EXCEPT ![t] = Taken[t]]
  BY Zenon, TakenMoves
<1>2. Taken \in [Threads -> {Taken[u] : u \in Threads}]
  BY Zenon DEF Taken
<1> QED BY <1>1, <1>2

\* A call that returns is a read, a write, the taking of a content for a copy or
\* the filling of a copy, with the value that its caller passed.
LEMMA CellsServed ==
    ASSUME Inv, NEW t \in Threads, NEW o \in CallOps, Served(t, o),
           IF Writes(o) THEN Record(o.f, o.v) ELSE UNCHANGED written
    PROVE  Memory!CellStep
<1>o. /\ o.f \in Frames /\ o.k \in {"read", "write", "copy", "fill"} /\ kind[o.f] # "none"
      /\ op[t].k \in {"idle", o.k} /\ (o.k = "fill" => op[t] = o) /\ o.v \in Values
  BY Zenon, RunsHolds DEF Served, CallOps
<1>c. Cells[o.f] = Content(o.f) /\ Content(o.f) \in Values /\ Cells[o.f] # NoFrame
  BY Zenon, <1>o, ContentType
<1>h. Homes' = Homes /\ Cells' = After(o) /\ Returned(t, o, Content(o.f))
  BY Zenon, ContentServed
<1>t. Taken[t] = IF o.k = "fill" THEN o.v ELSE NoFrame
  BY Zenon, <1>o DEF Taken
<1>k. Idle.k = "idle"
  BY Zenon DEF Idle
<1>1. CASE o.k = "read"
  <2>1. op' = [op EXCEPT ![t] = Idle] /\ Stored(o, Cells[o.f]) = Cells[o.f] /\ written' = written
    BY Zenon, <1>h, <1>1 DEF Returned, Stored, Writes
  <2>2. Taken' = Taken
    BY Zenon, <1>t, <1>k, <1>1, <2>1, TakenSame
  <2>3. Cells' = Cells
    BY Zenon, <1>h, <2>1 DEF After, Cells
  <2> QED BY Zenon, <1>h, <2>1, <2>2, <2>3 DEF Memory!CellStep
<1>2. CASE o.k = "write"
  <2>1. /\ op' = [op EXCEPT ![t] = Idle] /\ Cells' = [Cells EXCEPT ![o.f] = o.v]
        /\ written' = [written EXCEPT ![o.f] = o.v]
    BY Zenon, <1>h, <1>2 DEF Returned, Stored, Writes, After, Record
  <2>2. Taken' = Taken
    BY Zenon, <1>t, <1>k, <1>2, <2>1, TakenSame
  <2>3. Memory!Write(o.f, o.v)
    BY Zenon, <1>c, <1>h, <2>1, <2>2 DEF Memory!Write, Memory!Set
  <2> QED BY Zenon, <1>o, <2>3 DEF Memory!CellStep
<1>3. CASE o.k = "copy"
  <2>1. /\ op' = [op EXCEPT ![t] = Creating(o, Content(o.f))]
        /\ Stored(o, Cells[o.f]) = Cells[o.f] /\ written' = written
    BY Zenon, <1>h, <1>3 DEF Returned, Stored, Writes
  <2>2. Creating(o, Content(o.f)).k = "create" /\ Creating(o, Content(o.f)).v = Content(o.f)
    BY Zenon DEF Creating
  <2>3. Taken' = [Taken EXCEPT ![t] = Cells[o.f]]
    BY Zenon, <1>c, <2>1, <2>2, TakenMoves
  <2>4. Cells' = Cells
    BY Zenon, <1>h, <2>1 DEF After, Cells
  <2>5. Memory!Take(t, o.f)
    BY Zenon, <1>c, <1>h, <1>t, <1>3, <2>1, <2>3, <2>4 DEF Memory!Take
  <2> QED BY Zenon, <1>o, <2>5 DEF Memory!CellStep
<1>4. CASE o.k = "fill"
  <2>1. /\ op' = [op EXCEPT ![t] = Idle] /\ Cells' = [Cells EXCEPT ![o.f] = o.v]
        /\ written' = [written EXCEPT ![o.f] = o.v]
    BY Zenon, <1>h, <1>4 DEF Returned, Stored, Writes, After, Record
  <2>2. Taken' = [Taken EXCEPT ![t] = NoFrame]
    BY Zenon, <1>k, <2>1, TakenMoves
  <2>3. Taken[t] = o.v /\ o.v # NoFrame
    BY Zenon, <1>o, <1>t, <1>4, ConstantsAssumption
  <2>4. Memory!Fill(t, o.f)
    BY Zenon, <1>c, <1>h, <2>1, <2>2, <2>3 DEF Memory!Fill, Memory!Set
  <2> QED BY Zenon, <1>o, <2>4 DEF Memory!CellStep
<1> QED BY Zenon, <1>o, <1>1, <1>2, <1>3, <1>4

\* A call that fails or waits changes no cell; only what a copy has taken may be lost.
LEMMA CellsUnserved ==
    ASSUME Inv, NEW t \in Threads, NEW o \in CallOps, Unserved(t, o), UNCHANGED written
    PROVE  Memory!CellStep
<1>o. op[t].k \in {"idle", o.k} /\ (o.k = "fill" => op[t] = o)
      /\ o.k \in {"read", "write", "copy", "fill"}
  BY Zenon, RunsHolds DEF Unserved, CallOps
<1>h. Homes' = Homes /\ Cells' = Cells
  BY Zenon, ContentUnserved
<1>t. Taken[t] = IF o.k = "fill" THEN o.v ELSE NoFrame
  BY Zenon, <1>o DEF Taken
<1>1. CASE Failed(t, o)
  <2>1. Idle.k = "idle" /\ Dropping(o.f).k = "drop"
    BY Zenon DEF Idle, Dropping
  <2>2. op' = [op EXCEPT ![t] = Dropping(o.f)] \/ op' = [op EXCEPT ![t] = Idle]
    BY Zenon, <1>1 DEF Failed
  <2>3. CASE op' = [op EXCEPT ![t] = Dropping(o.f)]
    BY Zenon, <1>h, <2>1, <2>3, TakenMoves DEF Memory!CellStep, Memory!Abandon
  <2>4. CASE op' = [op EXCEPT ![t] = Idle]
    BY Zenon, <1>h, <2>1, <2>4, TakenMoves DEF Memory!CellStep, Memory!Abandon
  <2> QED BY Zenon, <2>2, <2>3, <2>4
<1>2. CASE op' = [op EXCEPT ![t] = o]
  <2>1. Taken' = Taken
    BY Zenon, <1>o, <1>t, <1>2, TakenSame
  <2> QED BY Zenon, <1>h, <2>1 DEF Memory!CellStep
<1> QED BY Zenon, <1>1, <1>2, ContentUnserved

\* A new frame holds zeros or its file page, which no other shared frame has.
LEMMA CellsAllocate ==
    ASSUME Inv, NEW t \in Threads, NEW f \in Frames, NEW k \in {"zero", "shared", "private"},
           NEW p \in Pages \cup {NoPage}, Allocate(t, f, k, p), Record(f, Fresh(k, p)), Taken' = Taken,
           IF k = "zero" THEN p = NoPage ELSE p \in Pages /\ \A g \in Frames : page[g] # p
    PROVE  Memory!CellStep
<1>1. /\ kind'[f] = k /\ page'[f] = p
      /\ \A g \in Frames \ {f} : kind'[g] = kind[g] /\ page'[g] = page[g]
      /\ UNCHANGED <<resident_slot, arena, swapVars, file_data>>
  BY Zenon DEF Allocate, Inv, TypeOK, FramesTyped
<1>2. kind[f] = "none" /\ resident_slot[f] = NoSlot /\ swap_slot[f] = NoSlot
  BY Zenon DEF Allocate, Inv, FrameOwnership
<1>3. Resident' = Resident /\ f \notin Resident
  BY Zenon, <1>1, <1>2 DEF Resident
<1>4. ASSUME NEW g \in Frames \ {f} PROVE Content(g)' = Content(g)
  BY Zenon, <1>1, <1>3 DEF Content, Data, BackingData
<1>5. Content(f)' = IF k = "zero" THEN Zero ELSE file_data[p]
  BY Zenon, <1>1, <1>2, <1>3 DEF Content, BackingData
<1>6. Memory!Set(f, Fresh(k, p))
  <2>1. Cells' = [Cells EXCEPT ![f] = Fresh(k, p)]
    BY Zenon, <1>4, <1>5 DEF Cells, Fresh
  <2> QED BY Zenon, <2>1 DEF Memory!Set, Record
<1>7. Homes[f] = NoPage /\ Homes' = [Homes EXCEPT ![f] = IF k = "shared" THEN p ELSE NoPage]
  BY Zenon, <1>1, <1>2 DEF Homes, IsSharedFile
<1>8. k # "shared" => Homes' = Homes
  <2>1. Homes \in [Frames -> {Homes[g] : g \in Frames}]
    BY Zenon DEF Homes
  <2> QED BY <1>7, <2>1
<1>9. Cells[f] = NoFrame
  BY Zenon, <1>2 DEF Cells, Content
<1>10. CASE k = "zero"
  <2>1. Memory!Set(f, Zero)
    BY Zenon, <1>6, <1>10 DEF Fresh
  <2> QED BY Zenon, <1>8, <1>9, <1>10, <2>1 DEF Memory!CellStep, Memory!Create
<1>11. CASE k # "zero"
  <2>1. p \in Pages /\ p # NoPage /\ \A g \in Frames : Homes[g] # p
    BY Zenon, <1>11, ConstantsAssumption DEF Homes
  <2>2. Homes' = Homes \/ Homes' = [Homes EXCEPT ![f] = p]
    BY Zenon, <1>7, <1>8
  <2>3. Memory!Set(f, file_data[p])
    BY Zenon, <1>6, <1>11 DEF Fresh
  <2> QED BY Zenon, <1>9, <2>1, <2>2, <2>3 DEF Memory!CellStep, Memory!Create
<1> QED BY Zenon, <1>10, <1>11

\* The last release of a shared frame leaves its content in its file page, or the
\* file has a latched error.
LEMMA MemoryDrop ==
    ASSUME Inv, NEW t \in Threads, Drop(t), Record(op[t].f, NoFrame)
    PROVE  Memory!CellStep /\ Memory!FileStep
<1>1. PICK f \in Frames : f = op[t].f /\ op[t].k = "drop" /\ kind[f] # "none"
  BY Zenon DEF Drop, Inv, CallOwnership
<1>2. Memory!FileStep /\ (f \in dirty /\ IsSharedFile(f) =>
          file_data'[page[f]] = Data(f) \/ BackingOf[page[f]] \in writeback_error')
  <2>1. CASE IsSharedFile(f) /\ f \in dirty
    <3>1. f \in Resident
      BY Zenon, <2>1 DEF Inv, CleanIsBacked
    <3>2. FileWriteOk(f) \/ FileWriteFail(f)
      BY Zenon, <1>1, <2>1 DEF Drop, FinalWriteBack
    <3> QED BY Zenon, <2>1, <3>1, <3>2, FileWritten
  <2>2. CASE ~(IsSharedFile(f) /\ f \in dirty)
    <3>1. UNCHANGED fileVars
      BY Zenon, <1>1, <2>2 DEF Drop, FinalWriteBack
    <3> QED BY Zenon, <2>2, <3>1, FileSame
  <2> QED BY Zenon, <2>1, <2>2
<1>3. ~(f \in dirty) /\ IsSharedFile(f) => UNCHANGED file_data /\ Content(f) = file_data[page[f]]
  <2> SUFFICES ASSUME f \notin dirty, IsSharedFile(f)
               PROVE  UNCHANGED file_data /\ Content(f) = file_data[page[f]]
    BY Zenon
  <2>1. UNCHANGED file_data
    BY Zenon, <1>1 DEF Drop, FinalWriteBack
  <2>2. BackingData(f) = file_data[page[f]]
    BY Zenon, <1>1 DEF BackingData, IsSharedFile, Inv, PageOwnership
  <2>3. f \in Resident => Data(f) = BackingData(f)
    BY Zenon DEF Inv, CleanIsBacked
  <2> QED BY Zenon, <1>1, <2>1, <2>2, <2>3 DEF Content
<1>4. f \in dirty => Content(f) = Data(f)
  BY Zenon, <1>1 DEF Content, Inv, CleanIsBacked
<1>5. IsSharedFile(f) => file_data'[page[f]] = Content(f) \/ BackingOf[page[f]] \in writeback_error'
  BY Zenon, <1>2, <1>3, <1>4
<1>6. Homes[f] # NoPage => IsSharedFile(f) /\ Homes[f] = page[f]
  BY Zenon, <1>1 DEF Homes
<1>7. /\ kind'[f] = "none"
      /\ \A g \in Frames \ {f} :
            /\ kind'[g] = kind[g] /\ page'[g] = page[g]
            /\ resident_slot'[g] = resident_slot[g] /\ swap_slot'[g] = swap_slot[g]
      /\ UNCHANGED <<arena, swap_file>>
  <2>1. /\ kind'[f] = "none"
        /\ \A g \in Frames \ {f} : kind'[g] = kind[g] /\ page'[g] = page[g]
    BY Zenon, <1>1 DEF Drop, Inv, TypeOK, FramesTyped
  <2>2. \A g \in Frames \ {f} : resident_slot'[g] = resident_slot[g]
    BY Zenon, <1>1 DEF Drop, Inv, TypeOK, ArenaTyped
  <2>3. \A g \in Frames \ {f} : swap_slot'[g] = swap_slot[g]
    BY Zenon, <1>1 DEF Drop, Inv, TypeOK, BackingsTyped
  <2> QED BY Zenon, <2>1, <2>2, <2>3 DEF Drop
<1>8. ASSUME NEW g \in Frames \ {f} PROVE Content(g)' = Content(g)
  <2>1. kind[g] \in {"shared", "private"} => file_data'[page[g]] = file_data[page[g]]
    <3> SUFFICES ASSUME kind[g] \in {"shared", "private"}
                 PROVE  file_data'[page[g]] = file_data[page[g]]
      BY Zenon
    <3>1. page[g] \in Pages /\ page[g] # page[f]
      BY Zenon, <1>1 DEF Inv, PageOwnership, TypeOK, FramesTyped
    <3>2. FileWriteOk(f) \/ FileWriteFail(f) => file_data'[page[g]] = file_data[page[g]]
      BY Zenon, <3>1 DEF FileWriteOk, FileWriteFail, Inv, TypeOK, BackingsTyped
    <3> QED BY Zenon, <1>1, <3>2 DEF Drop, FinalWriteBack
  <2>2. g \in Resident' <=> g \in Resident
    BY Zenon, <1>7 DEF Resident
  <2>3. BackingData(g)' = BackingData(g) /\ Data(g)' = Data(g)
    BY Zenon, <1>7, <2>1 DEF BackingData, Data
  <2> QED BY Zenon, <1>7, <2>2, <2>3 DEF Content
<1>9. Memory!Set(f, NoFrame)
  <2>1. Content(f)' = NoFrame
    BY Zenon, <1>7 DEF Content
  <2>2. Cells' = [Cells EXCEPT ![f] = NoFrame]
    BY Zenon, <1>1, <1>8, <2>1 DEF Cells
  <2> QED BY Zenon, <1>1, <2>2 DEF Memory!Set, Record
<1>10. Homes' = [Homes EXCEPT ![f] = NoPage]
  BY Zenon, <1>1, <1>7 DEF Homes, IsSharedFile
<1>11. Taken' = Taken
  <2>1. Idle.k = "idle" /\ Taken[t] = NoFrame
    BY Zenon, <1>1 DEF Idle, Taken
  <2>2. op' = [op EXCEPT ![t] = Idle]
    BY Zenon DEF Drop
  <2> QED BY Zenon, <2>1, <2>2, TakenSame
<1>12. Cells[f] = Content(f)
  BY Zenon, <1>1 DEF Cells
<1>13. Memory!Drop(f)
  BY Zenon, <1>5, <1>6, <1>9, <1>10, <1>11, <1>12 DEF Memory!Drop
<1> QED BY Zenon, <1>1, <1>2, <1>13 DEF Memory!CellStep

\* The steps that no caller observes.
LEMMA Unobserved ==
    ASSUME Cells' = Cells, Homes' = Homes, op' = op, written' = written
    PROVE  Memory!CellStep
<1>1. Taken' = Taken
  BY Zenon DEF Taken
<1> QED BY Zenon, <1>1 DEF Memory!CellStep

\* The history only watches: a step with it is a step of the store.
LEMMA ObservedIsStep == [ObservedNext]_allVars => [Next]_vars
<1>1. \A t \in Threads, o \in CallOps : Served(t, o) \/ Unserved(t, o) => Access(t, o)
  BY Zenon DEF Served, Unserved, Access
<1>2. ObservedNext => Next
  BY Zenon, <1>1 DEF ObservedNext, Silent, Next, Lifetime
<1> QED BY Zenon, <1>2 DEF allVars

\* Every step of the store is a step of FrameMemory.
LEMMA MemoryStep == Inv /\ [ObservedNext]_allVars => [Memory!Next]_Memory!vars
<1> SUFFICES ASSUME Inv, [ObservedNext]_allVars PROVE Memory!CellStep /\ Memory!FileStep
  BY Zenon DEF Memory!Next
<1>1. ASSUME NEW t \in Threads, NEW o \in CallOps, Served(t, o),
             IF Writes(o) THEN Record(o.f, o.v) ELSE UNCHANGED written
      PROVE  Memory!CellStep /\ Memory!FileStep
  BY Zenon, <1>1, CellsServed, FileAccess
<1>13. ASSUME NEW t \in Threads, NEW o \in CallOps, Unserved(t, o), UNCHANGED written
       PROVE  Memory!CellStep /\ Memory!FileStep
  BY Zenon, <1>13, CellsUnserved, FileAccess
<1>2. ASSUME NEW t \in Threads, NEW f \in Frames, NEW k \in Kinds,
             NEW p \in Pages \cup {NoPage}, Create(t, f, k, p), Record(f, Fresh(k, p))
      PROVE  Memory!CellStep /\ Memory!FileStep
  <2>1. k \in {"zero", "shared", "private"} /\ Allocate(t, f, k, p) /\ op' = op
    BY Zenon, <1>2, ConstantsAssumption DEF Create
  <2>2. IF k = "zero" THEN p = NoPage ELSE p \in Pages /\ \A g \in Frames : page[g] # p
    BY Zenon, <1>2 DEF Create, PageUnused
  <2>3. Taken' = Taken
    BY Zenon, <2>1 DEF Taken
  <2>4. Memory!FileStep
    BY Zenon, <2>1, FileSame DEF Allocate
  <2> QED BY Zenon, <1>2, <2>1, <2>2, <2>3, <2>4, CellsAllocate
<1>3. ASSUME NEW t \in Threads, NEW f \in Frames, CreateCopy(t, f),
             Record(f, Fresh(IF op[t].p = NoPage THEN "zero" ELSE "shared", op[t].p))
      PROVE  Memory!CellStep /\ Memory!FileStep
  <2> DEFINE k == IF op[t].p = NoPage THEN "zero" ELSE "shared"
  <2>1. /\ op[t].k = "create" /\ Allocate(t, f, k, op[t].p)
        /\ op' = [op EXCEPT ![t] = Filling(f, op[t].v)] /\ Record(f, Fresh(k, op[t].p))
    BY Zenon, <1>3 DEF CreateCopy
  <2>2. op[t].p \in Pages \cup {NoPage} /\ k \in {"zero", "shared", "private"}
    BY Zenon DEF Inv, TypeOK, CallsTyped, Ops
  <2>3. IF k = "zero" THEN op[t].p = NoPage
        ELSE op[t].p \in Pages /\ \A g \in Frames : page[g] # op[t].p
    BY Zenon, <2>2 DEF Inv, PageOwnership
  <2>4. Taken' = Taken
    <3>1. Filling(f, op[t].v).k = "fill" /\ Filling(f, op[t].v).v = op[t].v
      BY Zenon DEF Filling
    <3>2. Taken[t] = op[t].v
      BY Zenon, <2>1 DEF Taken
    <3> QED BY Zenon, <2>1, <3>1, <3>2, TakenSame
  <2>5. Memory!FileStep
    BY Zenon, <2>1, FileSame DEF Allocate
  <2> HIDE DEF k
  <2> QED BY Zenon, <2>1, <2>2, <2>3, <2>4, <2>5, CellsAllocate
<1>4. ASSUME NEW t \in Threads, CreateCopyFails(t), UNCHANGED written
      PROVE  Memory!CellStep /\ Memory!FileStep
  <2>1. /\ Cells' = Cells /\ Homes' = Homes /\ Memory!FileStep
        /\ op' = [op EXCEPT ![t] = Idle] /\ Idle.k = "idle"
    BY Zenon, <1>4, ContentSame, FileSame DEF CreateCopyFails, Idle
  <2>2. Taken' = [Taken EXCEPT ![t] = NoFrame]
    BY Zenon, <2>1, TakenMoves
  <2> QED BY Zenon, <1>4, <2>1, <2>2 DEF Memory!CellStep, Memory!Abandon
<1>5. ASSUME NEW t \in Threads, NEW f \in Frames, Release(t, f), UNCHANGED written
      PROVE  Memory!CellStep /\ Memory!FileStep
  <2>1. /\ Cells' = Cells /\ Homes' = Homes /\ Memory!FileStep
        /\ op[t] = Idle /\ (op' = op \/ op' = [op EXCEPT ![t] = Dropping(f)])
    BY Zenon, <1>5, ContentSame, FileSame DEF Release
  <2>2. CASE op' = [op EXCEPT ![t] = Dropping(f)]
    <3>1. Idle.k = "idle" /\ Dropping(f).k = "drop"
      BY Zenon DEF Idle, Dropping
    <3>2. Taken[t] = NoFrame
      BY Zenon, <2>1, <3>1 DEF Taken
    <3>3. Taken' = Taken
      BY Zenon, <2>2, <3>1, <3>2, TakenSame
    <3> QED BY Zenon, <1>5, <2>1, <3>3 DEF Memory!CellStep
  <2> QED BY Zenon, <1>5, <2>1, <2>2, Unobserved
<1>6. ASSUME NEW t \in Threads, Drop(t), Record(op[t].f, NoFrame)
      PROVE  Memory!CellStep /\ Memory!FileStep
  BY Zenon, <1>6, MemoryDrop
<1>7. ASSUME NEW t \in Threads, NEW f \in Frames, Sync(t, f) \/ PageOut(t, f), UNCHANGED written
      PROVE  Memory!CellStep /\ Memory!FileStep
  <2>1. f \in Resident /\ (WriteBackOk(f) \/ WriteBackFail(f)) /\ op' = op
    BY Zenon, <1>7 DEF Sync, PageOut
  <2>2. Cells' = Cells /\ Homes' = Homes
    BY Zenon, <1>7, <2>1, ContentWriteBack, ContentGiveUp DEF Sync, PageOut
  <2> QED BY Zenon, <1>7, <2>1, <2>2, FileWriteBack, Unobserved
<1>8. ASSUME NEW t \in Threads, NEW v \in Frames, ReclaimVictim(t, v) \/ ReclaimFails(t, v),
             UNCHANGED written
      PROVE  Memory!CellStep /\ Memory!FileStep
  <2>1. v \in Resident /\ (WriteBackOk(v) \/ WriteBackFail(v)) /\ op' = op
    BY Zenon, <1>8 DEF ReclaimVictim, ReclaimFails, IsVictim, Candidates
  <2>2. Cells' = Cells /\ Homes' = Homes
    BY Zenon, <1>8, <2>1, ContentWriteBack, ContentGiveUp DEF ReclaimVictim, ReclaimFails
  <2> QED BY Zenon, <1>8, <2>1, <2>2, FileWriteBack, Unobserved
<1>9. ASSUME UNCHANGED <<frameVars, resident_slot, arena, swapVars, fileVars, op, written>>
      PROVE  Memory!CellStep /\ Memory!FileStep
  BY Zenon, <1>9, ContentSame, FileSame, Unobserved
<1>10. ASSUME NEW t \in Threads, NEW f \in Frames,
              \/ Retain(t, f) \/ MarkCold(t, f)
              \/ Pin(t, f) \/ Unpin(t, f) \/ TryPinResident(t, f) \/ UnpinResident(t, f),
              UNCHANGED written
       PROVE  Memory!CellStep /\ Memory!FileStep
  BY Zenon, <1>9, <1>10
     DEF Retain, MarkCold, Pin, Unpin, TryPinResident, UnpinResident, PinStep
<1>11. ASSUME NEW t \in Threads,
              \/ SpuriousWakeup(t) \/ ReclaimEnd(t)
              \/ \E target \in 1 .. MaxTarget : ReclaimStart(t, target),
              UNCHANGED written
       PROVE  Memory!CellStep /\ Memory!FileStep
  BY Zenon, <1>9, <1>11 DEF SpuriousWakeup, ReclaimEnd, ReclaimStart
<1>12. CASE (StoreDestroy \/ UNCHANGED vars) /\ UNCHANGED written
  BY Zenon, <1>9, <1>12 DEF StoreDestroy, vars
<1>14. ASSUME NEW t \in Threads, Silent(t), UNCHANGED written
       PROVE  Memory!CellStep /\ Memory!FileStep
  BY Zenon, <1>4, <1>5, <1>7, <1>8, <1>10, <1>11, <1>13, <1>14 DEF Silent, Control, Reclaim
<1>15. CASE ObservedNext
  BY Zenon, <1>1, <1>2, <1>3, <1>6, <1>12, <1>14, <1>15 DEF ObservedNext, Freed
<1> QED BY Zenon, <1>12, <1>15 DEF allVars

\* Residency, eviction, swapping, waiting and their failures cannot be observed: a
\* frame holds what the last call that returned has stored in it (frame.c:587-640),
\* so no write is lost to an eviction and a failed call leaves no trace; a copy is
\* filled with a content its source had; and what a shared frame held when it
\* went away is in its file or the file's error is latched.
THEOREM StoreIsMemory == ObservedSpec => ImplementsMemory
<1>1. ObservedInit => Memory!Init
  <2> SUFFICES ASSUME Init, written = [f \in Frames |-> NoFrame] PROVE Memory!Init
    BY DEF ObservedInit
  <2>1. \A f \in Frames : Content(f) = NoFrame /\ ~IsSharedFile(f)
    BY Zenon DEF Init, Content, IsSharedFile
  <2>2. \A t \in Threads : op[t].k = "idle"
    BY Zenon DEF Init, Idle
  <2>3. /\ Cells = [f \in Frames |-> NoFrame] /\ Homes = [f \in Frames |-> NoPage]
        /\ Taken = [t \in Threads |-> NoFrame]
    BY Zenon, <2>1, <2>2 DEF Cells, Homes, Taken
  <2> QED BY Zenon, <2>3 DEF Init, Memory!Init
<1> QED BY <1>1, MemoryStep, ObservedIsStep, Safety, PTL DEF Spec, ObservedSpec, ObservedInit, ImplementsMemory, Memory!Spec

=============================================================================
