----------------------------- MODULE PageTable ------------------------------
(***************************************************************************)
(* The radix tree of the page table (page_table.c): nodes that are made on *)
(* the way to a page, unmade when an allocation fails, and pruned when     *)
(* they become empty.  A node is named by its level and by the part of the *)
(* address that leads to it.  What the entries hold (frames, protections,  *)
(* flags) is in module SpaceState; here a page is mapped or not.           *)
(***************************************************************************)
EXTENDS Integers, FiniteSets, SequencesExt

CONSTANTS
    Levels,         \* MINIMM_PAGE_TABLE_LEVELS
    Entries,        \* MINIMM_PAGE_TABLE_ENTRIES
    Pages,          \* pages that are mapped
    None

TableAssumption ==
    /\ Levels \in Nat \ {0, 1} /\ Entries \in Nat \ {0, 1}
    /\ Pages \subseteq 0..Entries ^ Levels - 1

VARIABLES
    node,           \* node[n]: which slots of n are set; None when n is not allocated
    mappingCount,   \* mapping_count
    mapped          \* the pages that calls have mapped and not unmapped

vars == <<node, mappingCount, mapped>>

Slots == 0..Entries-1

(* The node at a level on the way to page p. *)
NodeOf(p, level) == <<level, p \div Entries ^ (level + 1)>>

Nodes == {NodeOf(p, level) : p \in Pages, level \in 0..Levels-1}

Root == <<Levels-1, 0>>

Empty == [i \in Slots |-> FALSE]

(* minimm_page_table_index *)
Index(p, level) == (p \div Entries ^ level) % Entries

(* The levels in the order in which a walk goes down them. *)
Downwards == [i \in 1..Levels-1 |-> Levels - i]

(* minimm_page_table_create *)
Init ==
    /\ node = [n \in Nodes |-> IF n = Root THEN Empty ELSE None]
    /\ mappingCount = 0 /\ mapped = {}

(* minimm_page_table_lookup_internal: a slot that is set is followed. *)
Lookup(p) ==
    LET Found[level \in 0..Levels-1] ==
            IF level = Levels - 1 THEN TRUE
            ELSE Found[level + 1] /\ node[NodeOf(p, level + 1)][Index(p, level + 1)]
    IN  Found[0] /\ node[NodeOf(p, 0)][Index(p, 0)]

SetSlot(h, p, level, set) == [h EXCEPT ![NodeOf(p, level)][Index(p, level)] = set]

(* The walk of a mapping with memory for [left] allocations: created, the levels whose slot it filled. *)
Walk(p, left) ==
    LET Step(w, level) ==
            IF ~w.ok \/ w.h[NodeOf(p, level)][Index(p, level)] THEN w
            ELSE IF w.left = 0 THEN [w EXCEPT !.ok = FALSE]
            ELSE [w EXCEPT !.h = SetSlot([@ EXCEPT ![NodeOf(p, level - 1)] = Empty], p, level, TRUE),
                           !.left = @ - 1, !.created = Append(@, level)]
    IN  FoldLeft(Step, [h |-> node, left |-> left, created |-> <<>>, ok |-> TRUE], Downwards)

(* allocation_failed: the nodes of this call go, the last one first. *)
Undo(p, w) ==
    LET Free(level, h) == SetSlot([h EXCEPT ![NodeOf(p, level - 1)] = None], p, level, FALSE)
    IN  FoldRight(Free, w.created, w.h)

(* minimm_page_table_map; the entry itself is the last allocation. *)
Map(p) ==
    \E left \in 0..Levels :
        LET w == Walk(p, left)
        IN  /\ ~Lookup(p)
            /\ IF w.ok /\ w.left > 0
               THEN /\ node' = SetSlot(w.h, p, 0, TRUE)
                    /\ mappingCount' = mappingCount + 1
                    /\ mapped' = mapped \cup {p}
               ELSE node' = Undo(p, w) /\ UNCHANGED <<mappingCount, mapped>>

(* Seeded fault: only the lowest node is given back. *)
PruneLowest(p, h) ==
    IF h[NodeOf(p, 0)] # Empty THEN h
    ELSE SetSlot([h EXCEPT ![NodeOf(p, 0)] = None], p, 1, FALSE)

(* The nodes that became empty are freed, from the lowest up; the root stays. *)
Prune(p, h0) ==
    LET Step(level, r) ==
            IF r.stop \/ r.h[NodeOf(p, level - 1)] # Empty THEN [r EXCEPT !.stop = TRUE]
            ELSE [r EXCEPT !.h = SetSlot([@ EXCEPT ![NodeOf(p, level - 1)] = None], p, level, FALSE)]
    IN  FoldRight(Step, Downwards, [h |-> h0, stop |-> FALSE]).h

(* minimm_page_table_unmap *)
Unmap(p) ==
    /\ Lookup(p)
    /\ node' = Prune(p, SetSlot(node, p, 0, FALSE))
    /\ mappingCount' = mappingCount - 1
    /\ mapped' = mapped \ {p}

Span(level) == Entries ^ level

(* minimm_page_table_find_next_node from the root: slots that end by [from] or begin at [end] are passed over. *)
FindNext(from, end) ==
    LET Search[n \in Nodes] ==
            LET First(i) == (n[2] * Entries + i) * Span(n[1])
                Result(i) == IF n[1] = 0 THEN First(i) ELSE Search[<<n[1] - 1, n[2] * Entries + i>>]
                hits == {i \in Slots : /\ First(i) + Span(n[1]) > from /\ First(i) < end /\ node[n][i]
                                       /\ Result(i) # None}
            IN  IF hits = {} THEN None ELSE Result(CHOOSE i \in hits : \A j \in hits : i <= j)
    IN  Search[Root]

(* minimm_page_table_visit_node from the root: the pages in the order of the visits. *)
Visit ==
    LET Below[n \in Nodes] ==
            LET Part(i) == IF ~node[n][i] THEN <<>>
                           ELSE IF n[1] = 0 THEN <<n[2] * Entries + i>>
                           ELSE Below[<<n[1] - 1, n[2] * Entries + i>>]
            IN  FoldLeft(LAMBDA out, i : out \o Part(i), <<>>, [k \in 1..Entries |-> k - 1])
    IN  Below[Root]

Next == \E p \in Pages : Map(p) \/ Unmap(p)

Spec == Init /\ [][Next]_vars

-----------------------------------------------------------------------------
(* Every slot that is set leads to a node that exists. *)
TypeOK ==
    /\ node[Root] # None
    /\ \A n \in Nodes : n[1] > 0 /\ node[n] # None =>
        \A i \in Slots : node[n][i] => node[<<n[1] - 1, n[2] * Entries + i>>] # None

(* The tree shows the pages that are mapped, whichever way it is searched: *)
(* by address, in order, and from any page to the next below any limit;    *)
(* and it counts them right.  It has the nodes on the way to these pages   *)
(* and no others: a mapping that ran out of memory and an unmapping leave  *)
(* no empty node behind (allocation_failed in minimm_page_table_map, the   *)
(* pruning loop of minimm_page_table_unmap).                               *)
WalksAgree ==
    /\ TypeOK
    /\ {n \in Nodes : node[n] # None} = {Root} \cup {NodeOf(p, level) : p \in mapped, level \in 0..Levels-1}
    /\ mappingCount = Cardinality(mapped)
    /\ \A p \in Pages : Lookup(p) = (p \in mapped)
    /\ Range(Visit) = mapped /\ \A i \in 1..Len(Visit)-1 : Visit[i] < Visit[i + 1]
    /\ \A from \in Pages : \A end \in {q \in Pages : q >= from} :
        LET hits == {p \in mapped : from <= p /\ p < end}
        IN  FindNext(from, end) = IF hits = {} THEN None ELSE CHOOSE p \in hits : \A q \in hits : p <= q
=============================================================================
