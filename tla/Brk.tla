-------------------------------- MODULE Brk ---------------------------------
(***************************************************************************)
(* The heap break of one space (brk.c and minimm_mapping_extend_heap).     *)
(* A break call holds brk_lock from beginning to end, but it changes the   *)
(* mappings through calls that take and leave the lock of the space, so    *)
(* other threads map, replace, unmap, protect, move and copy pages between *)
(* its steps.                                                              *)
(***************************************************************************)
EXTENDS Integers, FiniteSets

CONSTANTS
    PageSize,
    NPages,         \* MINIMM_USER_ADDRESS_LIMIT is the end of page NPages - 1
    BasePage,       \* the page at brk_base
    HalfWord,       \* increments lie in -HalfWord .. HalfWord - 1 (intptr_t)
    Kinds,          \* backings that other threads map
    MaxCookie,      \* bound on the mappings made
    MaxOthers,      \* bound on the calls of other threads
    None

BrkAssumption ==
    /\ PageSize \in Nat \ {0} /\ NPages \in Nat \ {0} /\ BasePage \in 0..NPages-1
    /\ HalfWord >= PageSize * NPages

VARIABLES
    vma,            \* vma[p]: the mapping of page p, or None
    brkEnd,         \* brk_end, in bytes
    cookie,         \* next_mapping_cookie
    call,           \* the break call under way, which holds brk_lock, or None
    damaged,        \* heap pages that other threads have unmapped, replaced or moved away
    child,          \* what a fork has just copied, or None
    others          \* the number of calls of other threads so far

vars == <<vma, brkEnd, cookie, call, damaged, child, others>>

Limit == PageSize * NPages

Base == PageSize * BasePage

Pages == 0..NPages-1

(* minimm_brk_page_end, as a page number. *)
PageEnd(address) == (address + PageSize - 1) \div PageSize

(* The pages from a to b, b excluded. *)
Between(a, b) == {p \in Pages : a <= p /\ p < b}

(* A page of a mapping: its identity, its place in it, its backing, its     *)
(* protection, and what put it where it is: brk, mmap, or another call.    *)
Page(c, off, kind, by) == [cookie |-> c, off |-> off, kind |-> kind, prot |-> "rw", by |-> by]

(* The pages p and p + 1 are in one range of the snapshot: minimm_vma_can_merge. *)
Joined(p) ==
    /\ {p, p + 1} \subseteq Pages /\ vma[p] # None /\ vma[p + 1] # None
    /\ [vma[p + 1] EXCEPT !.by = vma[p].by] = [vma[p] EXCEPT !.off = @ + 1]

(* [a, a + n) is exactly one range. *)
IsRange(a, n) ==
    /\ \A p \in Between(a, a + n) : vma[p] # None
    /\ \A p \in Between(a, a + n - 1) : Joined(p)
    /\ ~Joined(a - 1) /\ ~Joined(a + n - 1)

(* The mappings with the pages S set by New. *)
With(S, New(_)) == [p \in Pages |-> IF p \in S THEN New(p) ELSE vma[p]]

Init ==
    /\ vma = [p \in Pages |-> None] /\ brkEnd = Base /\ cookie = 1
    /\ call = None /\ damaged = {} /\ child = None /\ others = 0

(***************************************************************************)
(* Break calls.                                                            *)
(***************************************************************************)
(* The branches of minimm_brk_set_locked. *)
Plan(requested) ==
    LET old == PageEnd(brkEnd)
        new == PageEnd(requested)
    IN  IF requested < Base \/ requested >= Limit THEN "invalid"
        ELSE IF new = old THEN "commit"
        ELSE IF old = BasePage THEN "map"
        ELSE IF new < old THEN "unmap"
        ELSE "extend"

Begin(requested) ==
    /\ call = None
    /\ call' = IF Plan(requested) = "invalid" THEN None
               ELSE [at |-> Plan(requested), requested |-> requested]
    /\ child' = None /\ UNCHANGED <<vma, brkEnd, cookie, damaged, others>>

(* minimm_brk; an end of 0 only asks for the break. *)
BrkCall == \E requested \in 1..Limit : Begin(requested)

(* The end that minimm_sbrk asks for; None where it refuses the increment. *)
SbrkEnd(increment) ==
    LET amount == IF increment >= 0 THEN increment ELSE (-(increment + 1)) + 1
    IN  IF increment >= 0
        THEN IF amount >= Limit - brkEnd /\ amount # 0 THEN None ELSE brkEnd + amount
        ELSE IF amount > brkEnd - Base THEN None ELSE brkEnd - amount

SbrkCall ==
    \E increment \in (-HalfWord..HalfWord-1) \ {0} :
        SbrkEnd(increment) # None /\ Begin(SbrkEnd(increment))

(* The pages that the call under way adds or takes away. *)
Added == Between(PageEnd(brkEnd), PageEnd(call.requested))

Removed == Between(PageEnd(call.requested), PageEnd(brkEnd))

Proceed(at) == call' = [call EXCEPT !.at = at]

(* minimm_mapping_extend_heap applies: a range ends where the heap ends, and *)
(* all ranges of the heap have its identity.                               *)
IsOneHeap ==
    LET last == PageEnd(brkEnd) - 1
        tail == vma[last]
    IN  /\ tail # None /\ tail.kind = "anonPrivate"
        /\ ~Joined(last)
        /\ \A p \in Between(BasePage, last + 1) : vma[p] # None /\ vma[p].cookie = tail.cookie

(* Seeded fault: only the last page of the heap is looked at. *)
ExtendTail ==
    LET tail == vma[PageEnd(brkEnd) - 1]
        last == PageEnd(brkEnd) - 1
    IN  /\ call # None /\ call.at = "extend"
        /\ IF tail = None THEN Proceed("map") /\ UNCHANGED vma
           ELSE IF \E p \in Added : vma[p] # None THEN Proceed("fail") /\ UNCHANGED vma
           ELSE /\ vma' = With(Added, LAMBDA p : Page(tail.cookie, tail.off + (p - last), tail.kind, "brk"))
                /\ Proceed("commit")
        /\ child' = None /\ UNCHANGED <<brkEnd, cookie, damaged, others>>

(* minimm_mapping_extend_heap under the lock of the space; UNSUPPORTED leads to a new mapping. *)
Extend ==
    LET tail == vma[PageEnd(brkEnd) - 1]
        last == PageEnd(brkEnd) - 1
    IN  /\ call # None /\ call.at = "extend"
        /\ IF ~IsOneHeap THEN Proceed("map") /\ UNCHANGED vma
           ELSE IF \E p \in Added : vma[p] # None THEN Proceed("fail") /\ UNCHANGED vma
           ELSE /\ vma' = With(Added, LAMBDA p : Page(tail.cookie, tail.off + (p - last), tail.kind, "brk"))
                /\ Proceed("commit")
        /\ child' = None /\ UNCHANGED <<brkEnd, cookie, damaged, others>>

(* minimm_brk_map_range: a private anonymous mapping that replaces nothing. *)
MapRange ==
    /\ call # None /\ call.at = "map"
    /\ IF \E p \in Added : vma[p] # None THEN Proceed("fail") /\ UNCHANGED <<vma, cookie>>
       ELSE /\ cookie <= MaxCookie
            /\ vma' = With(Added, LAMBDA p : Page(cookie, p - PageEnd(brkEnd), "anonPrivate", "brk"))
            /\ cookie' = cookie + 1
            /\ Proceed("commit")
    /\ child' = None /\ UNCHANGED <<brkEnd, damaged, others>>

(* minimm_munmap of what the break leaves. *)
UnmapRange ==
    /\ call # None /\ call.at = "unmap"
    /\ vma' = With(Removed, LAMBDA p : None)
    /\ damaged' = damaged \ Removed
    /\ Proceed("commit")
    /\ child' = None /\ UNCHANGED <<brkEnd, cookie, others>>

(* A mapping call of the break fails, for want of memory. *)
MappingFails ==
    /\ call # None /\ call.at \in {"extend", "map", "unmap"}
    /\ Proceed("fail")
    /\ child' = None /\ UNCHANGED <<vma, brkEnd, cookie, damaged, others>>

(* The end of minimm_brk_set_locked, and the release of brk_lock. *)
Finish ==
    /\ call # None /\ call.at \in {"commit", "fail"}
    /\ brkEnd' = IF call.at = "commit" THEN call.requested ELSE brkEnd
    /\ call' = None
    /\ child' = None /\ UNCHANGED <<vma, cookie, damaged, others>>

(***************************************************************************)
(* Other threads, under the lock of the space only.                        *)
(***************************************************************************)
IsHeap(v) == v # None /\ v.by = "brk"

(* Pages that brk mapped and that another thread takes away. *)
Damage(S) == damaged' = damaged \cup {p \in S : IsHeap(vma[p])}

(* minimm_mmap with MAP_FIXED. *)
MapFixed(p, n, kind) ==
    /\ cookie <= MaxCookie
    /\ Damage(Between(p, p + n))
    /\ vma' = With(Between(p, p + n), LAMBDA q : Page(cookie, q - p, kind, "mmap"))
    /\ cookie' = cookie + 1
    /\ child' = None /\ UNCHANGED <<brkEnd, call>>

(* minimm_munmap. *)
Munmap(p, n) ==
    /\ Damage(Between(p, p + n))
    /\ vma' = With(Between(p, p + n), LAMBDA q : None)
    /\ child' = None /\ UNCHANGED <<brkEnd, cookie, call>>

(* minimm_mprotect, which splits and joins ranges. *)
Mprotect(p, n, prot) ==
    /\ \A q \in Between(p, p + n) : vma[q] # None
    /\ vma' = With(Between(p, p + n), LAMBDA q : [vma[q] EXCEPT !.prot = prot])
    /\ child' = None /\ UNCHANGED <<brkEnd, cookie, call, damaged>>

(* minimm_mremap of a range to m pages where it is. *)
MremapInPlace(p, n, m) ==
    LET grown == Between(p + n, p + m)
        cut == Between(p + m, p + n)
    IN  /\ IsRange(p, n)
        /\ \A q \in grown : vma[q] = None
        /\ Damage(cut)
        /\ vma' = With(grown \cup cut, LAMBDA q :
                         IF q \in cut THEN None ELSE [vma[p] EXCEPT !.off = @ + (q - p), !.by = "other"])
        /\ child' = None /\ UNCHANGED <<brkEnd, cookie, call>>

(* minimm_mremap of a range to m pages elsewhere, in place of what is there *)
(* (FIXED), or in a gap; the old pages stay, empty, when keep (DONTUNMAP).  *)
MremapMove(p, n, to, m, keep) ==
    LET old == Between(p, p + n)
        new == Between(to, to + m)
        c == IF keep THEN cookie ELSE vma[p].cookie
    IN  /\ IsRange(p, n) /\ old \cap new = {}
        /\ keep => n = m /\ vma[p].kind = "anonPrivate" /\ cookie <= MaxCookie
        /\ Damage(IF keep THEN new ELSE old \cup new)
        /\ vma' = With(old \cup new, LAMBDA q :
                         IF q \in new THEN [vma[p] EXCEPT !.cookie = c, !.off = @ + (q - to), !.by = "other"]
                         ELSE IF keep THEN vma[q] ELSE None)
        /\ cookie' = IF keep THEN cookie + 1 ELSE cookie
        /\ child' = None /\ UNCHANGED <<brkEnd, call>>

(* A bound: offsets that an extension has made larger than this are not moved on. *)
Mremap(p, n, m) ==
    /\ vma[p] # None => vma[p].off + m <= NPages
    /\ \/ p + m <= NPages /\ MremapInPlace(p, n, m)
       \/ \E to \in 0..NPages-m, keep \in BOOLEAN : MremapMove(p, n, to, m, keep)

(* minimm_mapping_copy: a range gets a second place, where there is room. *)
MappingCopy(p, n, to) ==
    LET new == Between(to, to + n)
    IN  /\ cookie <= MaxCookie /\ IsRange(p, n)
        /\ \A q \in new : vma[q] = None
        /\ vma' = With(new, LAMBDA q : [vma[p + (q - to)] EXCEPT !.cookie = cookie, !.by = "other"])
        /\ cookie' = cookie + 1
        /\ child' = None /\ UNCHANGED <<brkEnd, call, damaged>>

(* Seeded fault: the copy is made under the lock of the space alone. *)
ForkUnderSpaceLock ==
    /\ child' = [vma |-> vma, brkEnd |-> brkEnd, damaged |-> damaged]
    /\ UNCHANGED <<vma, brkEnd, cookie, call, damaged, others>>

(* minimm_space_fork takes brk_lock before the lock of the space. *)
Fork ==
    /\ call = None
    /\ child' = [vma |-> vma, brkEnd |-> brkEnd, damaged |-> damaged]
    /\ UNCHANGED <<vma, brkEnd, cookie, call, damaged, others>>

BreakStep == Extend \/ MapRange \/ UnmapRange \/ MappingFails \/ Finish

Next ==
    \/ BrkCall \/ SbrkCall
    \/ BreakStep
    \/ \E p \in Pages : \E n \in 1..NPages-p :
        /\ others < MaxOthers /\ others' = others + 1
        /\ \/ Munmap(p, n)
           \/ \E kind \in Kinds : MapFixed(p, n, kind)
           \/ \E prot \in {"r", "rw"} : Mprotect(p, n, prot)
           \/ \E m \in 1..NPages : Mremap(p, n, m)
           \/ \E to \in 0..NPages-n : MappingCopy(p, n, to)
    \/ Fork

Spec == Init /\ [][Next]_vars

(***************************************************************************)
(* Properties.                                                             *)
(***************************************************************************)
(* Types; the break stays between its base and the limit of the addresses. *)
TypeOK ==
    /\ vma \in [Pages -> [cookie : 1..MaxCookie, off : 0..2*NPages, kind : Kinds \cup {"anonPrivate"},
                          prot : {"r", "rw"}, by : {"brk", "mmap", "other"}] \cup {None}]
    /\ brkEnd \in Base..Limit-1 /\ damaged \subseteq Pages
    /\ call # None => call.requested \in Base..Limit-1

(* The pages below the break are those of the heap, and nothing of it is left above the break. *)
Matches(v, end, lost) ==
    /\ \A p \in Between(BasePage, PageEnd(end)) \ lost : IsHeap(v[p])
    /\ \A p \in Pages : IsHeap(v[p]) => p \in Between(BasePage, PageEnd(end))

(* Between break calls the break and the mappings agree: every page below  *)
(* the break is one that brk mapped unless another thread took it away, and*)
(* no heap page is left above it, also when a call failed half-way; a fork,*)
(* which copies both, takes a pair that agrees (brk.c:32, fork.c:83).      *)
HeapMatchesBreak ==
    /\ TypeOK
    /\ call = None => Matches(vma, brkEnd, damaged)
    /\ child # None => Matches(child.vma, child.brkEnd, child.damaged)

(* What a step may do to the heap. *)
StepKeepsHeap ==
    /\ \A p \in Pages :
        (Extend /\ vma[p] = None /\ vma'[p] # None) =>
            /\ vma'[p].off = vma'[p - 1].off + 1
            /\ \A q \in Between(BasePage, p) :
                vma'[q] # None /\ vma'[q].cookie = vma'[p].cookie /\ vma'[q].kind = "anonPrivate"
    /\ BreakStep => \A p \in Pages : vma[p] # vma'[p] =>
        p \in Added \cup Removed /\ (p \in Added => vma[p] = None)

(* Pages added with the identity of an existing mapping continue it: every *)
(* page of the heap has that identity, and the new ones follow its last    *)
(* page (minimm_mapping_extend_heap).  The offsets of the pages below need *)
(* not ascend: other threads can split the heap with mprotect and swap the *)
(* parts with mremap.  A growing heap takes only free pages, whatever was  *)
(* mapped there since the call looked; a shrinking one frees only pages    *)
(* above the new break.                                                    *)
ExtensionContinuesHeap == [][StepKeepsHeap]_vars

(* A heap page never carries the identity of a mapping that another thread *)
(* placed with MAP_FIXED (the comment in minimm_mapping_extend_heap).      *)
NoReplacementAdopted ==
    \A p, q \in Pages :
        (IsHeap(vma[p]) /\ vma[q] # None /\ vma[q].by = "mmap") => vma[p].cookie # vma[q].cookie

=============================================================================
