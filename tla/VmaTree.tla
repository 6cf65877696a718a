------------------------------- MODULE VmaTree ------------------------------
(***************************************************************************)
(* Snapshots of the VMAs of a space (vma_tree.c): an ordered array of      *)
(* ranges and a search tree over it.  Every change builds a new snapshot;  *)
(* one that fails leaves the old one as it was, so a failed allocation is  *)
(* a step that changes nothing and is not shown.  Addresses are pages.     *)
(***************************************************************************)
EXTENDS Integers, SequencesExt

CONSTANTS
    NPages,         \* MINIMM_USER_ADDRESS_LIMIT, in pages
    Fanout,         \* MINIMM_VMA_TREE_FANOUT
    MaxGeneration,  \* UINT64_MAX of generation
    Prots,          \* protections asked for, as sets
    Offsets,        \* note offsets asked for, in pages
    Cookies,        \* mapping cookies
    None

TreeAssumption ==
    /\ NPages \in Nat \ {0} /\ Fanout \in Nat \ {0, 1} /\ MaxGeneration \in Nat \ {0}
    /\ Offsets \subseteq Nat

VARIABLES
    snapshot,       \* the current snapshot: ranges, root and generation
    result          \* the status of the last call

vars == <<snapshot, result>>

Addresses == 0..NPages-1

(***************************************************************************)
(* The tree: a leaf holds positions in the array, an inner node children;  *)
(* each slot has the end of the last range below it.                       *)
(***************************************************************************)
Least(a, b) == IF a < b THEN a ELSE b

(* minimm_vma_tree_child_capacity *)
ChildCapacity(height) == Fanout ^ height

(* Seeded fault: the end kept for a child is that of its first range. *)
BuildNodeFirstEnd(ranges, from, to, h) ==
    LET Node[lo \in 1..Len(ranges), hi \in 0..Len(ranges), height \in Nat] ==
            IF height = 0
            THEN [leaf |-> TRUE, maxEnd |-> [i \in 1..hi-lo+1 |-> ranges[lo+i-1].end],
                  slots |-> [i \in 1..hi-lo+1 |-> lo+i-1]]
            ELSE LET size == ChildCapacity(height)
                     count == (hi - lo) \div size + 1
                     Lo(i) == lo + (i - 1) * size
                     Hi(i) == Least(hi, lo + i * size - 1)
                 IN  [leaf |-> FALSE, maxEnd |-> [i \in 1..count |-> ranges[Lo(i)].end],
                      slots |-> [i \in 1..count |-> Node[Lo(i), Hi(i), height - 1]]]
    IN  Node[from, to, h]

(* minimm_vma_tree_build_node over the ranges from..to *)
BuildNode(ranges, from, to, h) ==
    LET Node[lo \in 1..Len(ranges), hi \in 0..Len(ranges), height \in Nat] ==
            IF height = 0
            THEN [leaf |-> TRUE, maxEnd |-> [i \in 1..hi-lo+1 |-> ranges[lo+i-1].end],
                  slots |-> [i \in 1..hi-lo+1 |-> lo+i-1]]
            ELSE LET size == ChildCapacity(height)
                     count == (hi - lo) \div size + 1
                     Lo(i) == lo + (i - 1) * size
                     Hi(i) == Least(hi, lo + i * size - 1)
                 IN  [leaf |-> FALSE, maxEnd |-> [i \in 1..count |-> ranges[Hi(i)].end],
                      slots |-> [i \in 1..count |-> Node[Lo(i), Hi(i), height - 1]]]
    IN  Node[from, to, h]

(* minimm_vma_tree_build: the least height that holds all ranges. *)
Build(ranges) ==
    LET Height[h \in Nat] == IF Len(ranges) <= Fanout ^ (h + 1) THEN h ELSE Height[h + 1]
    IN  IF ranges = <<>> THEN None ELSE BuildNode(ranges, 1, Len(ranges), Height[0])

(***************************************************************************)
(* Ranges.                                                                 *)
(***************************************************************************)
(* minimm_vma_can_merge *)
CanMerge(l, r) ==
    /\ l.end = r.start /\ l.cookie = r.cookie /\ l.prot = r.prot /\ l.max = r.max
    /\ l.off + (l.end - l.start) = r.off

(* minimm_vma_coalesce_ranges *)
Coalesce(ranges) ==
    LET Put(out, r) == IF out # <<>> /\ CanMerge(Last(out), r)
                       THEN Front(out) \o <<[Last(out) EXCEPT !.end = r.end]>>
                       ELSE Append(out, r)
    IN  FoldLeft(Put, <<>>, ranges)

(* minimm_vma_snapshot_from_ranges *)
FromRanges(ranges, generation) ==
    LET merged == Coalesce(ranges)
    IN  [ranges |-> merged, root |-> Build(merged), generation |-> generation]

(* Seeded fault: a fragment starts at the page of the note at which its source does. *)
FragmentKeepingOffset(m, start, end) == [m EXCEPT !.start = start, !.end = end]

(* minimm_vma_fragment: the part of m from start to end.  Its offset cannot overflow, since that of m's end did not. *)
Fragment(m, start, end) == [m EXCEPT !.start = start, !.end = end, !.off = @ + (start - m.start)]

Outside(m, start, end) == m.end <= start \/ m.start >= end

(* The fragments of m before start and after end. *)
Before(m, start) == IF m.start < start THEN <<Fragment(m, m.start, start)>> ELSE <<>>

After(m, end) == IF m.end > end THEN <<Fragment(m, end, m.end)>> ELSE <<>>

(* The binary searches: how many of the n ordered elements are Below, with the steps of the code. *)
LowerBound(n, Below(_)) ==
    LET Search[low \in 0..n, high \in 0..n] ==
            LET middle == low + (high - low) \div 2
            IN  IF low >= high THEN low
                ELSE IF Below(middle + 1) THEN Search[middle + 1, high]
                ELSE Search[low, middle]
    IN  Search[0, n]

(***************************************************************************)
(* Searches.                                                               *)
(***************************************************************************)
(* minimm_vma_snapshot_lookup: down the tree, then a binary search in the leaf. *)
Lookup(s, address) ==
    LET Child(n) == LET reach == {i \in 1..Len(n.slots) : address < n.maxEnd[i]}
                    IN  IF reach = {} THEN None ELSE n.slots[CHOOSE i \in reach : \A j \in reach : i <= j]
        InLeaf(n) == LET Below(i) == s.ranges[n.slots[i]].start <= address
                         low == LowerBound(Len(n.slots), Below)
                     IN  IF low # 0 /\ address < s.ranges[n.slots[low]].end THEN s.ranges[n.slots[low]] ELSE None
        Descend[depth \in Nat] == IF depth = 0 THEN s.root
                                  ELSE LET n == Descend[depth - 1]
                                       IN  IF n = None THEN None ELSE IF n.leaf THEN n ELSE Child(n)
        bottom == Descend[Len(s.ranges)]
    IN  IF bottom = None THEN None ELSE InLeaf(bottom)

(* minimm_vma_snapshot_find_next: the first range that ends after the address. *)
FindNext(s, address) ==
    LET Below(i) == s.ranges[i].end <= address
        low == LowerBound(Len(s.ranges), Below)
    IN  IF low < Len(s.ranges) THEN s.ranges[low + 1] ELSE None

(* minimm_vma_align_up *)
AlignUp(value, alignment) == ((value + alignment - 1) \div alignment) * alignment

(* minimm_vma_snapshot_find_gap: the candidate moves on past each range that is in its way. *)
FindGap(s, lower, upper, length, alignment) ==
    LET Pass(c, m) ==
            IF c.found \/ m.end <= lower \/ m.start >= upper THEN c
            ELSE IF c.at < m.start /\ length <= m.start - c.at THEN [c EXCEPT !.found = TRUE]
            ELSE IF c.at < m.end THEN [c EXCEPT !.at = AlignUp(m.end, alignment)]
            ELSE c
        c == FoldLeft(Pass, [found |-> FALSE, at |-> AlignUp(lower, alignment)], s.ranges)
    IN  IF c.found \/ (c.at <= upper /\ length <= upper - c.at) THEN c.at ELSE None

(***************************************************************************)
(* Changes.                                                                *)
(***************************************************************************)
(* minimm_vma_snapshot_create *)
Init == snapshot = FromRanges(<<>>, 1) /\ result = "OK"

Refuse(status) == result' = status /\ UNCHANGED snapshot

(* minimm_vma_next_generation and the new snapshot. *)
Publish(ranges) ==
    IF snapshot.generation = MaxGeneration THEN Refuse("NO_SPACE")
    ELSE snapshot' = FromRanges(ranges, snapshot.generation + 1) /\ result' = "OK"

(* minimm_vma_snapshot_insert *)
InsertRange(m) ==
    LET ranges == snapshot.ranges
        Below(i) == ranges[i].start < m.start
        position == LowerBound(Len(ranges), Below)
    IN  IF \/ position > 0 /\ ranges[position].end > m.start
           \/ position < Len(ranges) /\ ranges[position + 1].start < m.end
        THEN Refuse("ADDRESS_IN_USE")
        ELSE Publish(SubSeq(ranges, 1, position) \o <<m>> \o SubSeq(ranges, position + 1, Len(ranges)))

(* minimm_vma_snapshot_remove: what is not mapped stays so. *)
RemoveRange(start, end) ==
    LET Rest(out, m) == out \o (IF Outside(m, start, end) THEN <<m>> ELSE Before(m, start) \o After(m, end))
    IN  Publish(FoldLeft(Rest, <<>>, snapshot.ranges))

(* The first pass of a protection: [until] is covered_until, and the first fault ends it. *)
Coverage(start, end, prot) ==
    LET Pass(c, m) ==
            IF c.status # "OK" \/ c.until >= end \/ m.end <= c.until THEN c
            ELSE IF m.start > c.until \/ m.start >= end THEN [c EXCEPT !.status = "NOT_FOUND"]
            ELSE IF ~(prot \subseteq m.max) THEN [c EXCEPT !.status = "PERMISSION"]
            ELSE [c EXCEPT !.until = Least(m.end, end)]
        c == FoldLeft(Pass, [until |-> start, status |-> "OK"], snapshot.ranges)
    IN  IF c.status = "OK" /\ c.until # end THEN "NOT_FOUND" ELSE c.status

(* minimm_vma_snapshot_protect: every range of the second pass gives up to three. *)
ProtectRange(start, end, prot) ==
    LET Middle(m) == LET from == IF m.start > start THEN m.start ELSE start
                     IN  [Fragment(m, from, Least(m.end, end)) EXCEPT !.prot = prot]
        Parts(out, m) == out \o (IF Outside(m, start, end) THEN <<m>>
                                 ELSE Before(m, start) \o <<Middle(m)>> \o After(m, end))
    IN  IF Coverage(start, end, prot) # "OK" THEN Refuse(Coverage(start, end, prot))
        ELSE Publish(FoldLeft(Parts, <<>>, snapshot.ranges))

(* minimm_vma_is_valid: prot within max_prot. *)
Mappings(start, end) ==
    {m \in [start : {start}, end : {end}, cookie : Cookies, off : Offsets, prot : Prots, max : Prots] :
        m.prot \subseteq m.max}

Next ==
    \E start \in Addresses : \E end \in start+1..NPages :
        \/ \E m \in Mappings(start, end) : InsertRange(m)
        \/ RemoveRange(start, end)
        \/ \E prot \in Prots : ProtectRange(start, end, prot)

Spec == Init /\ [][Next]_vars

-----------------------------------------------------------------------------
(* The ranges are ordered and disjoint, and within the address space. *)
TypeOK ==
    LET ranges == snapshot.ranges
    IN  /\ \A i \in 1..Len(ranges) : ranges[i].start < ranges[i].end /\ ranges[i].end <= NPages
        /\ \A i \in 1..Len(ranges)-1 : ranges[i].end <= ranges[i + 1].start
        /\ snapshot.generation \in 1..MaxGeneration

(* The ranges that hold page p. *)
Holding(p) == {m \in Range(snapshot.ranges) : m.start <= p /\ p < m.end}

Unmapped(from, to) == \A p \in from..to-1 : Holding(p) = {}

(* The tree, the binary search and the walk for a gap find what a look at  *)
(* every page finds: the range of an address, the next range, and the      *)
(* lowest aligned address with room (minimm_vma_snapshot_lookup,           *)
(* minimm_vma_snapshot_find_next, minimm_vma_snapshot_find_gap).  No two   *)
(* neighbours are one mapping cut in two: the same mappings give the same  *)
(* ranges, whatever cuts and protections led to them, so that a query      *)
(* reports a mapping by its true bounds (minimm_vma_coalesce_ranges).      *)
SearchesAgree ==
    /\ TypeOK
    /\ \A i \in 1..Len(snapshot.ranges)-1 : ~CanMerge(snapshot.ranges[i], snapshot.ranges[i + 1])
    /\ \A a \in Addresses :
        /\ Holding(a) = IF Lookup(snapshot, a) = None THEN {} ELSE {Lookup(snapshot, a)}
        /\ LET mapped == {p \in a..NPages-1 : Holding(p) # {}}
           IN  IF mapped = {} THEN FindNext(snapshot, a) = None
               ELSE FindNext(snapshot, a) \in Holding(CHOOSE p \in mapped : \A q \in mapped : p <= q)
    /\ \A lower \in Addresses : \A upper \in lower+1..NPages, length \in 1..3, alignment \in {1, 2} :
        LET fits == {c \in lower..upper-length : c % alignment = 0 /\ Unmapped(c, c + length)}
        IN  FindGap(snapshot, lower, upper, length, alignment) =
                IF fits = {} THEN None ELSE CHOOSE c \in fits : \A d \in fits : c <= d

(* The map from pages that the ranges stand for. *)
PageView ==
    [p \in Addresses |->
        IF Holding(p) = {} THEN None
        ELSE LET m == CHOOSE m \in Holding(p) : TRUE
             IN  [cookie |-> m.cookie, off |-> m.off + (p - m.start), prot |-> m.prot, max |-> m.max]]

PageMap == INSTANCE VmaPages WITH page <- PageView, generation <- snapshot.generation, result <- result

(* The cutting and merging of ranges does to each page what the call says, *)
(* and refuses exactly the calls that it should, with the right status:    *)
(* the address space may see its VMAs as a map from pages.                 *)
ImplementsPages == PageMap!Spec
=============================================================================
