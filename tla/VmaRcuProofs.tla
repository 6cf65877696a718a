---------------------------- MODULE VmaRcuProofs ----------------------------
(* Proofs about VmaRcu for every number of readers and snapshots. *)
EXTENDS VmaRcu, TLAPS

\* The inductive invariant holds of a new space and its domain.
LEMMA InitInv == Init => Inv
<1> SUFFICES ASSUME Init PROVE Inv
  OBVIOUS
<1> USE NoneAssumption DEF Init
<1>1. TypeOK
  BY DEF TypeOK
<1>2. SnapshotsAccounted
  BY DEF SnapshotsAccounted
<1>3. SectionConsistent
  BY DEF SectionConsistent
<1>4. UpdaterConsistent /\ SleeperHasWaker
  BY DEF UpdaterConsistent, SleeperHasWaker
<1> QED BY <1>1, <1>2, <1>3, <1>4 DEF Inv

\* The steps of a query do not touch a snapshot; the section stays consistent.
LEMMA QueryStep ==
    ASSUME Inv, NEW r \in Readers, Query(r)
    PROVE  Inv'
<1> USE NoneAssumption DEF Inv
<1>1. /\ UNCHANGED <<phase, live, current, old, retired, taken>>
      /\ upc' = upc \/ (upc = "asleep" /\ upc' = "sync")
  BY DEF Query, ReadLock, Load, ReadUnlock, Broadcast
<1>2. TypeOK'
  BY DEF Query, ReadLock, Load, ReadUnlock, Broadcast, TypeOK
<1>3. SnapshotsAccounted'
  BY <1>1 DEF SnapshotsAccounted
<1>4. \A q \in Readers \ {r} : /\ rpc'[q] = rpc[q] /\ seen'[q] = seen[q]
                               /\ q \in readers' <=> q \in readers
  BY DEF Query, ReadLock, Load, ReadUnlock, Broadcast, TypeOK
<1>5. SectionConsistent'
  <2>1. r \in readers' <=> rpc'[r] \in {"locked", "reading"}
    BY DEF Query, ReadLock, Load, ReadUnlock, Broadcast, TypeOK, SectionConsistent
  <2>2. rpc'[r] = "reading" => seen'[r] = current /\ current # None /\ current # old
    <3>1. SUFFICES ASSUME rpc'[r] = "reading" PROVE seen'[r] = current /\ current # None /\ current # old
      OBVIOUS
    <3>2. Load(r)
      BY <3>1 DEF Query, ReadLock, ReadUnlock, Broadcast, TypeOK
    <3>3. seen'[r] = current /\ phase = "open"
      BY <3>2 DEF Load, TypeOK, UpdaterConsistent
    <3> QED BY <3>3 DEF UpdaterConsistent, SnapshotsAccounted
  <2> QED BY <1>1, <1>4, <2>1, <2>2 DEF SectionConsistent
<1>6. phase # "open" => \A q \in Readers : rpc'[q] = "out"
  BY DEF Query, ReadLock, Load, ReadUnlock, Broadcast, UpdaterConsistent
<1>7. UpdaterConsistent'
  BY <1>1, <1>6 DEF UpdaterConsistent
<1>8. SleeperHasWaker'
  <2>1. CASE ReadLock(r) \/ Load(r)
    BY <2>1 DEF ReadLock, Load, SleeperHasWaker, TypeOK
  <2>2. CASE ReadUnlock(r)
    <3>1. CASE readers = {r}
      BY <2>2, <3>1 DEF ReadUnlock, SleeperHasWaker, TypeOK
    <3>2. CASE readers # {r}
      <4>1. r \in readers
        BY <2>2 DEF ReadUnlock, SectionConsistent
      <4>2. readers' # {}
        BY <2>2, <3>2, <4>1 DEF ReadUnlock
      <4> QED BY <4>2 DEF SleeperHasWaker
    <3> QED BY <3>1, <3>2
  <2>3. CASE Broadcast(r)
    BY <2>3 DEF Broadcast, SleeperHasWaker
  <2> QED BY <2>1, <2>2, <2>3 DEF Query
<1> QED BY <1>2, <1>3, <1>5, <1>7, <1>8

\* What every other step leaves alone, so that the waker of a sleeper stays.
LEMMA UpdateStep ==
    ASSUME Inv, Update \/ SpuriousWakeup
    PROVE  Inv'
<1> USE NoneAssumption DEF Inv
<1>1. UNCHANGED <<readers, rpc, seen, current>>
  BY DEF Update, Retire, RetireFails, Poll, SyncBlocks, SyncSleeps, SyncTakes, ReclaimOne,
         ReclaimDone, DomainFreed, SpuriousWakeup
<1>2. SleeperHasWaker'
  BY <1>1 DEF Update, Retire, RetireFails, Poll, SyncBlocks, SyncSleeps, SyncTakes, ReclaimOne,
         ReclaimDone, DomainFreed, SpuriousWakeup, SleeperHasWaker
<1>e. readers = {} => \A r \in Readers : rpc[r] # "reading"
  BY DEF SectionConsistent
<1>3. CASE Retire
  BY <1>1, <1>2, <1>3 DEF Retire, TypeOK, SnapshotsAccounted, SectionConsistent, UpdaterConsistent
<1>4. CASE RetireFails \/ SyncBlocks \/ SyncSleeps \/ SpuriousWakeup
  <2>1. /\ UNCHANGED <<phase, live, old, retired, taken>>
        /\ upc \in {"retire", "sync", "blocking", "asleep"}
        /\ upc' \in {"sync", "blocking", "asleep"}
    BY <1>4 DEF RetireFails, SyncBlocks, SyncSleeps, SpuriousWakeup
  <2>2. TypeOK'
    BY <1>1, <2>1 DEF TypeOK
  <2>3. SnapshotsAccounted' /\ SectionConsistent'
    BY <1>1, <2>1 DEF SnapshotsAccounted, SectionConsistent
  <2>4. UpdaterConsistent'
    BY <1>1, <2>1 DEF UpdaterConsistent
  <2> QED BY <1>2, <2>2, <2>3, <2>4
<1>5. CASE Poll \/ SyncTakes
  <2>1. /\ UNCHANGED <<phase, live, old>> /\ upc \in {"poll", "sync"} /\ upc' = "reclaim"
        /\ \/ readers = {} /\ taken' = retired /\ retired' = {}
           \/ upc = "poll" /\ UNCHANGED <<taken, retired>>
    BY <1>5 DEF Poll, SyncTakes
  <2>2. TypeOK'
    BY <1>1, <2>1 DEF TypeOK
  <2>3. taken = {}
    BY <2>1 DEF UpdaterConsistent
  <2>4. SnapshotsAccounted'
    BY <1>1, <2>1, <2>3 DEF SnapshotsAccounted
  <2>5. SectionConsistent'
    BY <1>1, <1>e, <2>1 DEF SectionConsistent, UpdaterConsistent
  <2>6. UpdaterConsistent'
    BY <1>1, <2>1 DEF UpdaterConsistent
  <2> QED BY <1>2, <2>2, <2>4, <2>5, <2>6
<1>6. ASSUME NEW s \in Snapshots, ReclaimOne(s) PROVE Inv'
  <2>1. TypeOK'
    BY <1>1, <1>6 DEF ReclaimOne, TypeOK
  <2>2. SnapshotsAccounted'
    BY <1>1, <1>6 DEF ReclaimOne, SnapshotsAccounted
  <2>3. SectionConsistent' /\ UpdaterConsistent'
    BY <1>1, <1>6 DEF ReclaimOne, SectionConsistent, UpdaterConsistent
  <2> QED BY <1>2, <2>1, <2>2, <2>3
<1>7. CASE ReclaimDone
  <2>1. TypeOK'
    BY <1>1, <1>7 DEF ReclaimDone, TypeOK
  <2>2. SnapshotsAccounted'
    BY <1>1, <1>7 DEF ReclaimDone, SnapshotsAccounted, TypeOK
  <2>3. SectionConsistent'
    BY <1>1, <1>7 DEF ReclaimDone, SectionConsistent
  <2>4. UpdaterConsistent'
    <3>1. /\ old' = None /\ taken' = {} /\ upc = "reclaim" /\ phase # "freed"
          /\ \/ phase = "open" /\ phase' = "open" /\ upc' = "idle"
             \/ phase \in {"closing", "destroying"} /\ phase' = "destroying" /\ upc' = "sync"
      BY <1>7 DEF ReclaimDone, UpdaterConsistent, TypeOK
    <3> QED BY <1>1, <3>1 DEF UpdaterConsistent
  <2> QED BY <1>2, <2>1, <2>2, <2>3, <2>4
<1>8. CASE DomainFreed
  BY <1>1, <1>2, <1>8 DEF DomainFreed, TypeOK, SnapshotsAccounted, SectionConsistent,
                          UpdaterConsistent
<1> QED BY <1>3, <1>4, <1>5, <1>6, <1>7, <1>8 DEF Update

\* The exchange of the published snapshot, by an update or by space_destroy, keeps the invariant.
LEMMA PublishStep ==
    ASSUME Inv, (\E s \in Snapshots : Publish(s)) \/ SpaceDestroy
    PROVE  Inv'
<1> USE NoneAssumption DEF Inv
<1>1. ASSUME NEW s \in Snapshots, Publish(s) PROVE Inv'
  <2>1. old = None /\ taken = {} /\ current # None
    BY <1>1 DEF Publish, UpdaterConsistent
  <2>2. TypeOK'
    BY <1>1 DEF Publish, TypeOK
  <2>3. SnapshotsAccounted'
    BY <1>1, <2>1 DEF Publish, SnapshotsAccounted
  <2>4. SectionConsistent'
    BY <1>1, <2>1 DEF Publish, SectionConsistent
  <2>5. UpdaterConsistent' /\ SleeperHasWaker'
    BY <1>1, <2>1 DEF Publish, UpdaterConsistent, SleeperHasWaker
  <2> QED BY <2>2, <2>3, <2>4, <2>5
<1>2. CASE SpaceDestroy
  BY <1>2 DEF SpaceDestroy, TypeOK, SnapshotsAccounted, SectionConsistent, UpdaterConsistent,
              SleeperHasWaker
<1> QED BY <1>1, <1>2

\* The whole invariant: the snapshot lists, the readers' section and the
\* updater stay consistent in every interleaving of queries with publications,
\* polls, synchronizes and the destruction of the space.
THEOREM Safety == Spec => []Inv
<1>1. Inv /\ [Next]_vars => Inv'
  <2> SUFFICES ASSUME Inv, [Next]_vars PROVE Inv'
    OBVIOUS
  <2>1. CASE UNCHANGED vars
    BY <2>1 DEF vars, Inv, TypeOK, SnapshotsAccounted, SectionConsistent, UpdaterConsistent,
                SleeperHasWaker
  <2> QED BY <2>1, QueryStep, UpdateStep, PublishStep DEF Next, Freed
<1> QED BY InitInv, <1>1, PTL DEF Spec

\* The state of the domain always has its type.
THEOREM TypeCorrect == Spec => []TypeOK
<1>1. Inv => TypeOK
  BY DEF Inv
<1> QED BY <1>1, Safety, PTL

\* No query reads a destroyed snapshot.
THEOREM QueriesAreSafe == Spec => []ReadersSeeLive
<1>1. Inv => ReadersSeeLive
  BY NoneAssumption DEF Inv, SectionConsistent, SnapshotsAccounted, ReadersSeeLive
<1> QED BY <1>1, Safety, PTL

\* No snapshot is destroyed twice or leaked by publication, poll or synchronize.
THEOREM NoLeakNoDoubleFree == Spec => []SnapshotsAccounted
<1>1. Inv => SnapshotsAccounted
  BY DEF Inv
<1> QED BY <1>1, Safety, PTL

\* A freed domain leaves no snapshot behind and no reader inside.
THEOREM DestroyIsComplete == Spec => []FreedIsEmpty
<1>1. Inv => FreedIsEmpty
  BY DEF Inv, SnapshotsAccounted, UpdaterConsistent, FreedIsEmpty
<1> QED BY <1>1, Safety, PTL

\* No synchronize sleeps after its last wake-up call.
THEOREM NoLostWakeup == Spec => []SleeperHasWaker
<1>1. Inv => SleeperHasWaker
  BY DEF Inv
<1> QED BY <1>1, Safety, PTL

=============================================================================
