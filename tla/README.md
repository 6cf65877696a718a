# Verification of miniMM

miniMM is a user-space model of an operating system's memory manager: address
spaces with a four-level page table and a TLB, demand paging, copy-on-write,
fork, swap, file-backed *notes*, and a TCP server that gives clients access to
notes.  This directory holds TLA+ models of its stateful and concurrent parts,
TLC configurations that check them on small instances, and TLAPS proofs of the
safety properties of three of them for instances of any size.

`PROJECT.json` maps every definition to the lines it models and lists the runs,
the seeded faults, the hazards, the findings and the theorems.

## 1. The system and its models

| part | sources | modules |
| --- | --- | --- |
| frame store | `frame.c` | `FrameStore`; what it promises: `FrameMemory`, `FrameStoreMemory` |
| notes and lineages | `note.c` | `NoteLineage` |
| VMA publication, RCU domain | `rcu.c`, `mapping.c`, `space.c` | `VmaRcu` |
| VMA ranges | `vma_tree.c` | `VmaTree`; what it promises: `VmaPages` |
| page table | `page_table.c` | `PageTable` (the radix tree), `SpaceState` (the entries) |
| TLB, backings, bindings | `tlb.c`, `mapping_backing.c` | `SpaceState` |
| mapping calls, faults, access, fork, memory control | `mapping.c`, `fault.c`, `access.c`, `fork.c`, `memory_api.c`, `space.c` | `AddressSpace`; what it promises: `SpaceMemory`, `AddressSpaceMemory` |
| queries and inspection snapshot | `fault.c`, `memory_api.c`, `snapshot.c` | `Inspection` |
| heap break | `brk.c`, `mapping.c` | `Brk` |
| fault trace | `fault.c` | `FaultTrace` |
| lifetime of the system | `mm.c` | `SystemLifetime` |
| server: records, quotas, requests | `server.c` | `ServerRecords` |
| server: listener, workers, start and stop | `server.c` | `Server` (extends `ServerRecords`) |
| client library, protocol | `client.c`, `protocol.c` | `Client` |

Locks are taken in the order break lock, space lock, backing lock or lineage
lock, frame-store lock (`docs/architecture.md`).  The frame store is at the
bottom: page tables, TLBs, notes and backings hold *references* to frames,
`mlock` holds *pins*, an access holds a *transient pin* while it copies bytes
without the store's lock.  A note owns one frame per cached page; a shared
mapping of the note gets that frame and writes it without the lineage lock.  A
space publishes an immutable snapshot of its VMA ranges after each change;
`minimm_mapping_query` reads it without a lock, protected by the RCU domain.
The server keeps notes in records that sessions reach by capabilities and
handles; the client library splits reads and writes into requests.

The modules meet at promises.  `FrameStore` shows that residency is invisible,
so `NoteLineage` lets the frame of a page be its content.  `VmaTree` shows that
ranges act as a map from pages, which is the form `AddressSpace` uses.
`AddressSpace` gives a note's pages to mappings only while they are attached,
which is what `NoteLineage` asks of them.

## 2. The models

**FrameStore.**  Per frame its kind, file page, holders, pinners and transient
pinners, resident slot and swap slot; the arena, the swap file and the files as
functions to values; free slots, dirty, cold and reclaimed frames; the access
stamps as the relation `older`; for each thread the call it is in.  The store's
mutex makes most functions one action.  Four are not: the condition wait in
`make_resident` (`Wait`, then the call starts over), the read, creation and fill
of `frame_copy`, the decrement before the lock in `frame_release` (`Release`,
then `Drop`), and the victims of `store_reclaim`.  Every write to swap or to a
file may fail and leave any content.  `FrameMemory` is the view of callers: a
frame is a cell that holds what the last call that returned success stored in
it; a file page changes only to the content of its frame or under a latched
error. `FrameStoreMemory` runs the store next to `written`, which records what
each returning call was asked to store (`ObservedSpec`: a write, a fill and a
creation record their value, every other step records nothing), and
`FrameMemory` lets a cell change only together with `written`.  A write that is
lost, put off or applied by a call that failed is therefore not a step of it.

**NoteLineage.**  Per note its size, parent, inherited size, holders (threads and
copies), file, cached pages, mappings and the pages they were given
(`escaped`); for the thread inside the lineage lock its locals.  `view` is a
history variable: what the callers of a note made of it.  The loops under the
lock are modelled iteration by iteration (`WalkUp`, `PreserveChild`,
`ScanParent`, ...), since mapped writes and dropped references interleave
with them and each iteration may fail and leave the earlier ones done.  `Clip`
and `Truncate` are the two halves of a shrink, `Release`, `Drop` and
`ReleaseParent` the iterations of the release cascade.

**VmaRcu.**  Readers go through `ReadLock`, `Load`, `ReadUnlock` and, for the one
that takes the counter to zero, `Broadcast`.  The updater, alone under the
space lock, publishes, retires or fails to, polls, synchronizes and runs the
callbacks one by one.  As the API documents, no call runs beside the
destruction of its own space.

**SpaceState, AddressSpace, Inspection.**  `SpaceState` has spaces (ranges,
entries, TLB, bindings), frames, backings and a note, and the helpers of the
code as operators on a record of them; a *budget* in the record makes the n-th
fallible step fail, so each roll-back is followed from each failure.
`AddressSpace` has one action per call, or one per step where the frame store
can act between steps (access, fault, `mlock`, `mmap` before the lock).
`SpaceMemory` is the promise: a mapped page is a cell, shared or private, and
there is one operation for each call, with its arguments and the address it
returned.  `AddressSpaceMemory` runs the calls next to the promised memory
(`page`, `content`): a call that returns success does to it what `SpaceMemory`
says of that call, every other step and every call that fails leaves it alone,
and `ImplementsMemory` says that the state always shows exactly the promised
memory.  `Inspection` adds translate, query, `mincore` and the snapshot.  An
explicit write fault on a locked copy-on-write page may install a copy that is
evicted before it is pinned; the documentation promises only that a locked
*frame* stays (`docs/linux-mm-parity.md`), so no property forbids it.

**VmaTree, PageTable, FaultTrace.**  Ranges as sorted sequences with the search
tree over them, the radix tree with allocation roll-back and pruning, and the
ring with its wrapping sequence numbers, each beside a plain reference
definition (a map from pages, the set of mapped pages, the log of all faults).

**Brk, SystemLifetime.**  The break under its lock with the calls of other
threads in between: `mmap` with `MAP_FIXED`, `munmap`, `mprotect`, `mremap` in
all its forms and `mapping_copy`, of any range; the atomic retain with its
second check, release and destroy, with constructions that fail half-way.

**ServerRecords, Server.**  Requests step by step: quotas, registry, record locks,
handles, lost responses and their roll-back; then acceptor, workers, start, stop
and drain around them.  `minimm_server_destroy` is stop followed by the release
of the system in `SystemLifetime`.

**Client.**  A call is an exchange under the client's lock over a connection on
which either side may close, time out, run out of memory or send part of a
message.  A write that timed out may still be applied later; `may` keeps what
the note is then allowed to hold.

### Abstractions

Counters that count holders are sets or exact counts of them.  A page is one
value.  Which free slot, frame or object is taken is arbitrary.  One lock stands
for the locks of all lineages, which share nothing.  An access stays within one
page.  `mremap` keeps old and new ranges within the modelled pages.  Populating
a mapping is best effort, as in the code.  Allocation failures in `VmaTree`
change nothing and are stuttering steps.  Atomics are sequentially consistent,
as `rcu.c` and the snapshot pointer ask for; the weaker orders of the reference
counters are not modelled.

## 3. The runs

All runs pass except `brk_adopt`, which shows a finding.  Several runs have
*loads* (`MC*.tla`): sets of calls and arguments chosen in the initial state, so
that each question is asked in a small state space.  Related invariants and the
type invariant are conjuncts of one property.

| run | instance | distinct states | properties |
| --- | --- | --- | --- |
| `frame_data` | 2 threads, 2 frames of all kinds, 1 slot, 1 swap slot, 1 file page | 277,942 | `Inv`, `ImplementsMemory` |
| `frame_evict` | 2 threads, 3 frames, 2 slots, long and transient pins, reclaim of 2 | 345,808 | `VictimIsUnique`, `WaitersHavePinner`, `PinnedStay` |
| `note_family` | 3 notes, 2 pages, 1 thread | 810,086 | `Isolation` |
| `note_race` | 2 notes, 1 page, 2 threads, one with mappings | 88,501 | `Inv`, `FreedIsUnused`, `CallsEnd` |
| `space_access` | 2 spaces of 2 pages, 4 frames, 7 loads | 135,128 | `TransfersAreCurrent`, `MlockAllOrNothing`, `NoteCoversMappings`, `ViewsAgree`, `ReferencesCounted`, `SnapshotIsOneInstant` |
| `space_share` | 2 spaces of 2 pages, 4 loads | 65,727 | `ImplementsMemory`, `FailedCallsLeaveNoTrace`, `ReferencesCounted` |
| `space_move` | 1 space of 4 pages, 4 loads | 110,301 | `ImplementsMemory`, `FailedCallsLeaveNoTrace` |
| `server_records` | 2 clients, 3 records, 2 capabilities, 4 loads | 220,016 | `ReferencesCounted`, `QuotasExact`, `UsesWithinRights` |
| `server_stop` | 2 clients, 2 callers of start and stop, 2 loads | 107,004 | `SweepMissesNobody`, `StoppedIsEmpty`, `StopReturns` |
| `client_calls` | 2 users, 2 connections, 3 kinds of load | 1,505,188 | `ReadsAreOfTheNote`, `AnswersAreOwn`, `CompletedIsWritten` |
| `space_parts` | one self-contained part at a time (`part`) | 155,839 | `ReadersSeeLive`, `SnapshotsAccounted`, `UpdateEnds`, `SystemSafe`, `FreedInTheEnd`, `HeapMatchesBreak`, `ExtensionContinuesHeap`, `SearchesAgree`, `ImplementsPages`, `WalksAgree`, `TraceIsLatest` |
| `brk_adopt` | 3 heap pages of 2 bytes | violation | `NoReplacementAdopted` |

**The finding.**  `mapping.c:818` says "Only extend one continuous heap identity;
do not adopt a MAP_FIXED replacement."  The check that follows compares the
mappings from the base to the break with the one at its end (one cookie, and a
private anonymous backing, lines 819-835), not with the one brk made: a private
anonymous `MAP_FIXED` mapping that replaces the *whole* heap is extended by the
next `brk`.  Nor does it compare offsets: other threads can split the heap with
`mprotect` and exchange its parts with fixed `mremap`s, and the next `brk` extends
the result.  `ExtensionContinuesHeap` states what does hold: all pages below an
extension have the identity it gets, the extension follows the last of them and
takes free pages only, and no step of a break call touches other pages.  The
part `parted` of `space_parts` reaches such an exchange.

**Why the bounds are enough.**  One slot for two frames makes every access an
eviction candidate, one swap slot is exhausted by the second dirty frame, and
three frames for two slots give the victim a choice.  Three notes give chains of
two parents and a parent with two children; two pages a partial shrink.  Two
spaces give every pair of parent and child; four pages a move onto, over and
beside its source, and a fixed move of two pages onto one that is populated or
locked and one that is free, which can fail after the first was replaced.  Five
pages with a fan-out of two give a tree of three levels, four levels of two
entries a table whose pages share all, some or no nodes; the counters of the
trace are small enough to wrap and to saturate.  Two clients and two callers
give every pair of racing requests; two request identifiers and two connections
let a late answer meet a new call.  `MaxTotal`, `MaxGeneration`, `MaxCookie`,
`MaxOthers`, `MaxHandle`, `Attempts`, `MaxConnects`, `MaxData`, `MaxLength` and
the fields of the loads are the bounds on what is unbounded in the code.  Some
cases are outside of these instances: `frame_data` has no transient pins, so the
wait of a page-in with its copy of the backing is in `frame_evict` without
contents and in theorem `StoreIsMemory` with them; `note_family` has no mapped
writes, which `note_race` and theorem `NotesAreIsolated` have; reads in
`client_calls` have one user and one connection; the records that `server_stop`
tears down are not copies, the copies are in `server_records`.

**Symmetry** is declared over sets that no constant tells apart (loads are closed
under it), and in no run with a liveness property.

**Deadlock** is checked in every run.

**Fairness.**  `VmaRcu`: a reader inside its section leaves it and a running
updater goes on; readers are not assumed to pause, so `UpdateEnds` has that
condition itself: overlapping readers can hold a `synchronize` up, for the
domain has one counter.  `NoteLineage`: the thread inside the lock goes on and
the mutex is fair to a thread that has to free a note.  `Server`: acceptor,
workers and stop take their steps, poll times out, and the wait for a lock that
comes free again and again ends; peers owe nothing.  `SystemLifetime`: a call
goes on, a weak exchange does not fail for ever, and the embedder destroys its
objects.  `FrameStore`, `ServerRecords`, `Client` and `Brk` have safety
properties only: that a sleeping page-in has somebody to wake it is
`WaitersHavePinner` (proved), and that no path leaves a record locked is part of
`ReferencesCounted`.

**Seeded faults.**  For every property of every passing run a module contains a
mutated form of one definition (marked *Seeded fault*) that is not part of the
specification; with it, TLC finds the property violated.

## 4. What is proved

The theorems hold for any number of frames, threads, slots, files, readers,
snapshots, notes, pages, objects and values.  They assume only the named
assumptions of the modules (`ConstantsAssumption`, `NoneAssumption`,
`SystemAssumption`): limits are natural numbers, the sets of calls, kinds and
written values are among those that exist, a marker such as `None` is not a
member of a set it stands outside of, and notes are not threads.  TLC evaluates
them on the runs (`SystemAssumption` as part of `PartsAssumption`).  The invariants of `FrameStore` and `NoteLineage` are
checked by `frame_data` and `note_race` as they are proved; of `VmaRcu`'s,
`space_parts` checks the two consequences its table row names.

**FrameStore** (`FrameStoreProofs`, `FrameStoreSafety`,
`FrameStoreMemoryProofs`).  The properties of interest are that the slots of the
arena and of swap are partitioned, that a clean frame equals its backing, that a
sleeping page-in has a pinner to wake it, and that a freed store is unused.
They are not inductive.  That a written-back frame may be marked clean needs
that nobody else maps its file page (`PageOwnership`); that a dropped frame's
slots may be returned needs that the dropper is its only user (`CallOwnership`);
that eviction may take a victim needs that pins are held by holders of a
resident frame (`FrameOwnership`).  `Inv` adds these three, and `Bookkeeping` of
the calls in progress.  `FrameStoreProofs` has lemmas about the operators (swap
slots, write-back, the accesses), the types, the slots and the backing,
`FrameStoreSafety` the three additions, the waiters, the freed store, the action
property `PinnedStay` and the theorems.

`FrameStoreMemoryProofs` builds on that invariant twice.  `VictimIsUnique` rests
on `AgesOrdered`: of two resident frames one is older, and every set of them has
an oldest.  The second half is what a finite order has, but taken as part of the
invariant it needs no induction over the frames: an access stamps its frame as
the youngest, and a set without that frame keeps its oldest.  `ImplementsMemory`
is the refinement of `FrameMemory` by `ObservedSpec` under the mapping of
`FrameStoreMemory`: a frame's cell is what is resident, else what backs it
(`Cells`), its home is its shared file page (`Homes`), and what a copy has read
is in its call (`Taken`). `CleanIsBacked` makes eviction, page-in and page-out
stutter, the partition of the slots keeps one frame's write out of another's
cell, and `PageOwnership` makes a file page that changes the home of the frame
written back.

**VmaRcu** (`VmaRcuProofs`).  A query reads only live snapshots, every live snapshot
has one place that will publish or destroy it, a freed domain is empty, and a
`synchronize` sleeps only while somebody will wake it.  `SectionConsistent` says
that what a counted reader saw is published or not yet reclaimed;
`UpdaterConsistent` says what the updater has in hand at each point of its code.

**NoteLineage** (`NoteLineageProofs`, `NoteLineagePages`, `NoteLineageSafety`).
`Isolation`: a note's page is what its own callers made it, wherever in the
lineage it is found, and a frame handed out holds that page.  `FreedIsUnused`: a
note is freed only without children and mappings, and the thread inside the lock
stands on live notes only.  The invariant has two halves.

- `NotesInv` is about the notes.  A parent holds a reference for each child
  (`Family`).  A page a mapping may write is read by no child
  (`EscapedIsPrivate`): this is why mapped writes, which take no lock, cannot change
  a copy.  A note is freed by the one thread that dropped the last reference
  (`ReleasedOnce`).
- `LocalsInv` is about the thread inside the lock, half-way through a loop.  A walk
  that has left its note stands at an ancestor whose page a child still reads
  (`WalkIsRight`), so by `EscapedIsPrivate` no mapping writes that page before it
  is used.  The children already preserved have their own page.  A shrink has,
  for each page that goes away and that a child still reads, the page at the
  owner its scan has reached, or has it still to save, or knows that it is zero
  (`ScanCovers`).  A copy under construction has the pages done so far
  (`CopyIsRight`).

Each half needs the other, so they are proved together: one lemma for each
action and half, the `NotesInv` half in the first two modules, the `LocalsInv`
half and the theorems in the third.

**SystemLifetime** (`SystemLifetimeProofs`).  `SystemSafe`: the count is the number of
holders, only one thread frees the system, when no handle, object or call is
left, and nothing is built with a late reference.  The invariant adds that what a
creation goes through, the handle or a space, stays while it runs, and that its
object is nobody else's (`CreatorsKeep`), and that the flag is set exactly when
the handle is gone (`FlagIsSet`).  With the last reference the count leaves no
handle, no object and no other holder; so no creation is under way, since it
would go through one of them, and every other thread is outside (`LastReference`).

**Only model-checked.**

- Liveness (`CallsEnd`, `UpdateEnds`, `FreedInTheEnd`, `StopReturns`): the prover has
  no rule for fairness.
- That spaces show the memory of `SpaceMemory` (`ImplementsMemory` of the spaces) and
  the refinement of `VmaPages` (`ImplementsPages`).
- `VmaTree`, `PageTable`, `FaultTrace`: their properties compare recursive
  definitions with reference definitions, which is induction over data.
- `AddressSpace`, `Inspection`, `Brk`, `ServerRecords`, `Server` and `Client`: no theorem
  is stated about them.

## 5. What is not modelled

- The transient service models of the server: experimental and off by default.
  Each is built, run and discarded within one request under the lock of its
  record; `ServerRecords` has the lock and the handle of the preview.
- The command-line tools: argument parsing and printing.
- The byte encoding of the protocol and the retry of interrupted system calls.
- `frame.c`: resizing and syncing a file backing as a whole.  `note.c`: rights,
  which never change, and flush and range sync, which are `FrameStore`'s sync.
- `client.c`: stat, resize, flush and unlink (one exchange each, like ping), the
  connect deadline, and the text form of capabilities.
- The counters of the TLB and of the statistics calls.
- Memory orders weaker than sequential consistency.
