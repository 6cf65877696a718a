------------------------------- MODULE VmaRcu -------------------------------
(***************************************************************************)
(* Publication and reclamation of VMA snapshots: the RCU-style domain of   *)
(* src/rcu.c as src/mapping.c and src/space.c use it.  Updaters are        *)
(* serialised by space->lock, so one program counter, upc, stands for the  *)
(* thread that holds it.  Queries run without that lock and interleave     *)
(* with every step of an updater.  The reader counter is the set of the    *)
(* readers it counts.                                                      *)
(***************************************************************************)

CONSTANTS
    Readers,        \* threads that call minimm_mapping_query
    Snapshots,      \* snapshot objects; a destroyed one may be allocated again
    None

ASSUME NoneAssumption == None \notin Snapshots

VARIABLES
    phase,          \* "open", "closing", "destroying" (domain_destroy) or "freed"
    live,           \* allocated snapshots
    current,        \* space->vma_snapshot
    readers,        \* domain->readers
    rpc, seen,      \* where each reader is and the snapshot it loaded
    upc,            \* where the updater is; "idle" when space->lock is free
    old,            \* the snapshot the updater has unlinked
    retired,        \* the domain's retired list
    taken           \* the list the updater is reclaiming

vars == <<phase, live, current, readers, rpc, seen, upc, old, retired, taken>>

Init ==
    /\ phase = "open"
    /\ \E s \in Snapshots : current = s /\ live = {s}
    /\ readers = {}
    /\ rpc = [r \in Readers |-> "out"]
    /\ seen = [r \in Readers |-> None]
    /\ upc = "idle"
    /\ old = None
    /\ retired = {}
    /\ taken = {}

-----------------------------------------------------------------------------
(* minimm_mapping_query.  The caller must not query a space it destroys.   *)

ReadLock(r) ==
    /\ phase = "open"
    /\ rpc[r] = "out"
    /\ readers' = readers \cup {r}
    /\ rpc' = [rpc EXCEPT ![r] = "locked"]
    /\ UNCHANGED <<phase, live, current, seen, upc, old, retired, taken>>

Load(r) ==
    /\ rpc[r] = "locked"
    /\ seen' = [seen EXCEPT ![r] = current]
    /\ rpc' = [rpc EXCEPT ![r] = "reading"]
    /\ UNCHANGED <<phase, live, current, readers, upc, old, retired, taken>>

\* The decrement; whoever takes the counter to zero still has to broadcast.
ReadUnlock(r) ==
    /\ rpc[r] = "reading"
    /\ readers' = readers \ {r}
    /\ rpc' = [rpc EXCEPT ![r] = IF readers = {r} THEN "last" ELSE "out"]
    /\ seen' = [seen EXCEPT ![r] = None]
    /\ UNCHANGED <<phase, live, current, upc, old, retired, taken>>

\* Seeded fault: the last reader broadcasts without taking the domain's lock.
BroadcastUnlocked(r) ==
    /\ rpc[r] = "last"
    /\ rpc' = [rpc EXCEPT ![r] = "out"]
    /\ upc' = IF upc = "asleep" THEN "sync" ELSE upc
    /\ UNCHANGED <<phase, live, current, readers, seen, old, retired, taken>>

\* Lock, broadcast, unlock; the lock is held by a synchronize that is about to
\* sleep.
Broadcast(r) ==
    /\ rpc[r] = "last"
    /\ upc # "blocking"
    /\ rpc' = [rpc EXCEPT ![r] = "out"]
    /\ upc' = IF upc = "asleep" THEN "sync" ELSE upc
    /\ UNCHANGED <<phase, live, current, readers, seen, old, retired, taken>>

-----------------------------------------------------------------------------
(* minimm_mapping_publish_locked.                                          *)

\* A new snapshot is exchanged for the current one.
Publish(s) ==
    /\ phase = "open"
    /\ upc = "idle"
    /\ s \in Snapshots \ live
    /\ live' = live \cup {s}
    /\ old' = current
    /\ current' = s
    /\ upc' = "retire"
    /\ UNCHANGED <<phase, readers, rpc, seen, retired, taken>>

Retire ==
    /\ upc = "retire"
    /\ retired' = retired \cup {old}
    /\ old' = None
    /\ upc' = "poll"
    /\ UNCHANGED <<phase, live, current, readers, rpc, seen, taken>>

\* No memory for the retired record: wait for the readers instead.
RetireFails ==
    /\ upc = "retire"
    /\ upc' = "sync"
    /\ UNCHANGED <<phase, live, current, readers, rpc, seen, old, retired, taken>>

\* Seeded fault: poll does not look at the reader counter.
PollAnyway ==
    /\ upc = "poll"
    /\ upc' = "reclaim"
    /\ taken' = retired
    /\ retired' = {}
    /\ UNCHANGED <<phase, live, current, readers, rpc, seen, old>>

Poll ==
    /\ upc = "poll"
    /\ upc' = "reclaim"
    /\ IF readers = {} THEN taken' = retired /\ retired' = {}
                       ELSE UNCHANGED <<taken, retired>>
    /\ UNCHANGED <<phase, live, current, readers, rpc, seen, old>>

-----------------------------------------------------------------------------
(* minimm_rcu_synchronize: the check of the counter, the condition wait,   *)
(* and the list it takes when the counter is zero.                         *)

SyncBlocks ==
    /\ upc = "sync"
    /\ readers # {}
    /\ upc' = "blocking"
    /\ UNCHANGED <<phase, live, current, readers, rpc, seen, old, retired, taken>>

\* pthread_cond_wait gives the lock up as it starts to wait.
SyncSleeps ==
    /\ upc = "blocking"
    /\ upc' = "asleep"
    /\ UNCHANGED <<phase, live, current, readers, rpc, seen, old, retired, taken>>

SpuriousWakeup ==
    /\ upc = "asleep"
    /\ upc' = "sync"
    /\ UNCHANGED <<phase, live, current, readers, rpc, seen, old, retired, taken>>

\* Seeded fault: synchronize leaves what it takes on the retired list.
SyncCopies ==
    /\ upc = "sync"
    /\ readers = {}
    /\ phase = "destroying" => retired # {}
    /\ taken' = retired
    /\ upc' = "reclaim"
    /\ UNCHANGED <<phase, live, current, readers, rpc, seen, old, retired>>

SyncTakes ==
    /\ upc = "sync"
    /\ readers = {}
    /\ phase = "destroying" => retired # {}
    /\ taken' = retired
    /\ retired' = {}
    /\ upc' = "reclaim"
    /\ UNCHANGED <<phase, live, current, readers, rpc, seen, old>>

\* One callback of minimm_rcu_reclaim_list.
ReclaimOne(s) ==
    /\ upc = "reclaim"
    /\ s \in taken
    /\ taken' = taken \ {s}
    /\ live' = live \ {s}
    /\ UNCHANGED <<phase, current, readers, rpc, seen, upc, old, retired>>

\* The list is done; the caller of synchronize destroys the snapshot it had
\* unlinked.  A space that is being destroyed goes on with its domain.
ReclaimDone ==
    /\ upc = "reclaim"
    /\ taken = {}
    /\ live' = live \ {old}
    /\ old' = None
    /\ phase' = IF phase = "closing" THEN "destroying" ELSE phase
    /\ upc' = IF phase = "open" THEN "idle" ELSE "sync"
    /\ UNCHANGED <<current, readers, rpc, seen, retired, taken>>

-----------------------------------------------------------------------------
(* minimm_space_destroy, which the caller does not run beside other calls. *)

SpaceDestroy ==
    /\ phase = "open"
    /\ upc = "idle"
    /\ \A r \in Readers : rpc[r] = "out"
    /\ phase' = "closing"
    /\ old' = current
    /\ current' = None
    /\ upc' = "sync"
    /\ UNCHANGED <<live, readers, rpc, seen, retired, taken>>

\* The synchronize of minimm_rcu_domain_destroy that finds nothing to reclaim.
DomainFreed ==
    /\ phase = "destroying"
    /\ upc = "sync"
    /\ readers = {}
    /\ retired = {}
    /\ phase' = "freed"
    /\ upc' = "idle"
    /\ UNCHANGED <<live, current, readers, rpc, seen, old, retired, taken>>

Freed == phase = "freed" /\ UNCHANGED vars

-----------------------------------------------------------------------------
Query(r) == ReadLock(r) \/ Load(r) \/ ReadUnlock(r) \/ Broadcast(r)

\* The steps an updater takes by itself once it has started.
Update ==
    \/ Retire
    \/ RetireFails
    \/ Poll
    \/ SyncBlocks
    \/ SyncSleeps
    \/ SyncTakes
    \/ \E s \in Snapshots : ReclaimOne(s)
    \/ ReclaimDone
    \/ DomainFreed

Next ==
    \/ \E r \in Readers : Query(r)
    \/ \E s \in Snapshots : Publish(s)
    \/ Update
    \/ SpuriousWakeup
    \/ SpaceDestroy
    \/ Freed

Spec == Init /\ [][Next]_vars

-----------------------------------------------------------------------------
(* Properties.                                                             *)

TypeOK ==
    /\ phase \in {"open", "closing", "destroying", "freed"}
    /\ live \in SUBSET Snapshots
    /\ current \in Snapshots \cup {None}
    /\ readers \in SUBSET Readers
    /\ rpc \in [Readers -> {"out", "locked", "reading", "last"}]
    /\ seen \in [Readers -> Snapshots \cup {None}]
    /\ upc \in {"idle", "retire", "poll", "sync", "blocking", "asleep", "reclaim"}
    /\ old \in Snapshots \cup {None}
    /\ retired \in SUBSET Snapshots
    /\ taken \in SUBSET Snapshots

\* A query never looks into a snapshot that has been destroyed, whatever is
\* published, polled or synchronized between its load and its unlock.
ReadersSeeLive == \A r \in Readers : rpc[r] = "reading" => seen[r] \in live

\* Every live snapshot is the published one, the one just unlinked, on the
\* retired list or on the list being reclaimed, and only one of these: none is
\* destroyed twice and none is leaked, also when retire fails.
SnapshotsAccounted ==
    /\ live = ({current, old} \ {None}) \cup retired \cup taken
    /\ current # None => current \notin {old} \cup retired \cup taken
    /\ old # None => old \notin retired \cup taken
    /\ retired \cap taken = {}

\* When the domain is freed every snapshot has been destroyed and no reader is
\* left that would still broadcast on it.
FreedIsEmpty ==
    phase = "freed" => live = {} /\ \A r \in Readers : rpc[r] = "out"

\* A synchronize goes to sleep and sleeps only while a reader is inside or the
\* last one has yet to broadcast.
SleeperHasWaker ==
    upc \in {"blocking", "asleep"} => readers # {} \/ \E r \in Readers : rpc[r] = "last"

\* Whoever is counted is inside the section; what it read is the published
\* snapshot or one that nobody has begun to reclaim.
SectionConsistent ==
    /\ \A r \in Readers : r \in readers <=> rpc[r] \in {"locked", "reading"}
    /\ \A r \in Readers : rpc[r] = "reading" =>
        /\ seen[r] \in {current, old} \cup retired
        /\ seen[r] # None
        /\ upc = "reclaim" => seen[r] # old

\* Where the updater is says what it has in hand.
UpdaterConsistent ==
    /\ taken # {} => upc = "reclaim"
    /\ old # None => upc \notin {"idle", "poll"}
    /\ upc = "retire" => old # None
    /\ current = None <=> phase # "open"
    /\ phase # "open" => \A r \in Readers : rpc[r] = "out"
    /\ phase \in {"destroying", "freed"} => old = None
    /\ phase = "freed" => upc = "idle" /\ retired = {} /\ taken = {}
    /\ phase \in {"closing", "destroying"} => upc \in {"sync", "blocking", "asleep", "reclaim"}

\* The inductive invariant.
Inv ==
    /\ TypeOK
    /\ SnapshotsAccounted
    /\ SectionConsistent
    /\ UpdaterConsistent
    /\ SleeperHasWaker

\* Once no new reader comes, a publication ends, and a destroy frees the domain.
UpdateEnds == <>[](readers = {}) => (upc # "idle" ~> upc = "idle")

=============================================================================
