---------------------------- MODULE MCSpaceParts ----------------------------
(***************************************************************************)
(* The parts of a system that work by themselves, side by side: the        *)
(* publication of VMA snapshots, their ranges, the page table, the fault   *)
(* trace, the heap break and the count of references to the system.  Each  *)
(* part has its own variables; a behaviour is one of the part [part] while *)
(* the others stay where they begin.                                       *)
(***************************************************************************)
EXTENDS VmaRcu, Integers, TLC

CONSTANTS Threads, Objects

VARIABLES
    part,
    few, fewResult,                                             \* VMA snapshots of three pages
    many, manyResult,                                           \* VMA snapshots of five pages
    node, mappingCount, mapped,                                 \* the page table
    sequence, ring, start, count, overwritten, log, lost,       \* the fault trace
    vma, brkEnd, cookie, call, damaged, child, others,          \* the heap break
    references, closing, freed, handle, objects, thread         \* the system

Prots == {{"read"}, {"read", "write"}}

Few == INSTANCE VmaTree WITH
    NPages <- 3, Fanout <- 2, MaxGeneration <- 4, Offsets <- {0, 1}, Cookies <- {1}, snapshot <- few, result <- fewResult

Many == INSTANCE VmaTree WITH
    NPages <- 5, Fanout <- 2, MaxGeneration <- 4, Offsets <- {0}, Cookies <- {1}, snapshot <- many, result <- manyResult

(* Some pages share all nodes, some only the root. *)
Table == INSTANCE PageTable WITH Levels <- 4, Entries <- 2, Pages <- {0, 1, 2, 5, 8, 12, 14, 15}

Trace == INSTANCE FaultTrace WITH Capacity <- 5, MaxSequence <- 8, MaxCount <- 6

(* A heap that other threads map over, and a smaller one with enough calls of *)
(* other threads to split it and exchange its parts.                         *)
Heap == INSTANCE Brk WITH
    PageSize <- 2, NPages <- 4, BasePage <- 1, HalfWord <- 8, Kinds <- {"anonPrivate", "notePrivate"},
    MaxCookie <- 2, MaxOthers <- 2

Parted == INSTANCE Brk WITH
    PageSize <- 2, NPages <- 3, BasePage <- 0, HalfWord <- 8, Kinds <- {"anonPrivate", "notePrivate"},
    MaxCookie <- 1, MaxOthers <- 4

System == INSTANCE SystemLifetime WITH MaxReferences <- 3, live <- objects

ASSUME PartsAssumption ==
    /\ Few!TreeAssumption /\ Many!TreeAssumption /\ Table!TableAssumption /\ Trace!TraceAssumption
    /\ Heap!BrkAssumption /\ Parted!BrkAssumption /\ System!SystemAssumption

treeVars == <<few, fewResult, many, manyResult>>

tableVars == <<node, mappingCount, mapped>>

traceVars == <<sequence, ring, start, count, overwritten, log, lost>>

heapVars == <<vma, brkEnd, cookie, call, damaged, child, others>>

systemVars == <<references, closing, freed, handle, objects, thread>>

PartsInit ==
    /\ part \in {"rcu", "few", "many", "table", "trace", "heap", "parted", "system"}
    /\ Init /\ (part # "rcu" => current = CHOOSE s \in Snapshots : TRUE)
    /\ Few!Init /\ Many!Init /\ Table!Init /\ Trace!Init /\ System!Init
    /\ IF part = "parted" THEN Parted!Init ELSE Heap!Init

PartsNext ==
    /\ UNCHANGED part
    /\ \/ part = "rcu" /\ Next /\ UNCHANGED <<treeVars, tableVars, traceVars, heapVars, systemVars>>
       \/ part = "few" /\ Few!Next /\ UNCHANGED <<vars, many, manyResult, tableVars, traceVars, heapVars, systemVars>>
       \/ part = "many" /\ Many!Next /\ UNCHANGED <<vars, few, fewResult, tableVars, traceVars, heapVars, systemVars>>
       \/ part = "table" /\ Table!Next /\ UNCHANGED <<vars, treeVars, traceVars, heapVars, systemVars>>
       \/ part = "trace" /\ Trace!Next /\ UNCHANGED <<vars, treeVars, tableVars, heapVars, systemVars>>
       \/ part = "heap" /\ Heap!Next /\ UNCHANGED <<vars, treeVars, tableVars, traceVars, systemVars>>
       \/ part = "parted" /\ Parted!Next /\ UNCHANGED <<vars, treeVars, tableVars, traceVars, systemVars>>
       \/ part = "system" /\ System!Next /\ UNCHANGED <<vars, treeVars, tableVars, traceVars, heapVars>>

(* Two parts promise something in the end.  A reader leaves the section it has entered, where  *)
(* it takes no lock but that of the broadcast, and an updater takes its next step unless it     *)
(* sleeps; nobody has to start a query or an update.  Threads go on with the calls they are in  *)
(* on the system, a weak exchange does not fail for ever, and the embedder destroys its objects *)
(* in the end.                                                                                  *)
PartsSpec ==
    /\ PartsInit /\ [][PartsNext]_<<part, vars, treeVars, tableVars, traceVars, heapVars, systemVars>>
    /\ \A r \in Readers : WF_vars(part = "rcu" /\ (Load(r) \/ ReadUnlock(r) \/ Broadcast(r)))
    /\ WF_vars(part = "rcu" /\ Update)
    /\ \A t \in Threads : /\ WF_systemVars(part = "system" /\ System!Step(t))
                          /\ SF_systemVars(part = "system" /\ System!Exchange(t))
    /\ \A o \in Objects : SF_systemVars(part = "system" /\ \E t \in Threads : System!DestroyObject(t, o))

-----------------------------------------------------------------------------
(* The properties of the parts, as their modules state them. *)

(* The system is freed once and by the last to leave it (minimm_system_try_retain, _release). *)
SystemSafe == part = "system" => System!SystemSafe

(* A system whose handle was destroyed is freed in the end (minimm_system_release). *)
FreedInTheEnd == System!FreedInTheEnd

(* The break and the mappings agree between break calls and in a fork (brk.c). *)
HeapMatchesBreak ==
    /\ part = "heap" => Heap!HeapMatchesBreak
    /\ part = "parted" => Parted!HeapMatchesBreak

(* A heap that is extended is one mapping, and takes free pages only (minimm_mapping_extend_heap). *)
ExtensionContinuesHeap ==
    [][(part = "heap" => Heap!StepKeepsHeap) /\ (part = "parted" => Parted!StepKeepsHeap)]_heapVars

(* The searches of a snapshot find what a look at every page finds (vma_tree.c). *)
SearchesAgree == part = "many" => Many!SearchesAgree

(* The ranges change every page as the call says (vma_tree.c). *)
ImplementsPages == Few!PageMap!Init /\ [][part = "few" => Few!PageMap!Next]_<<few, fewResult>>

(* The page table shows the mapped pages on every walk and has no other nodes (page_table.c). *)
WalksAgree == part = "table" => Table!WalksAgree

(* The fault trace is that of the latest faults (minimm_fault_trace_append_locked). *)
TraceIsLatest == part = "trace" => Trace!TraceIsLatest

=============================================================================
