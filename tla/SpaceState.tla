----------------------------- MODULE SpaceState -----------------------------
(***************************************************************************)
(* The state of address spaces and the operations on its parts that every  *)
(* call is made of: frames (src/frame.c, by their counters and residency   *)
(* only), page table entries (src/page_table.c), the TLB (src/tlb.c) and   *)
(* mapping backings with their bindings (src/mapping_backing.c).           *)
(*                                                                         *)
(* An address is the number of a page.  The VMA snapshot is what it says of*)
(* each page; because a snapshot always merges adjacent ranges that agree, *)
(* its ranges are the maximal runs of such pages (VmaTree).  The content of*)
(* a page is one value and EDIT is part of the write protection.           *)
(*                                                                         *)
(* The operators transform a record m: the four variables of the state, and*)
(* what a call carries along: ok (its status is MINIMM_OK), got (a frame it*)
(* was handed) and budget, the number of its fallible steps, allocations   *)
(* and transfers, that succeed before one fails.                           *)
(***************************************************************************)
EXTENDS Integers, FiniteSets, FiniteSetsExt

CONSTANTS
    Spaces,
    NPages,         \* the size of the address space, in pages
    MmapBase,       \* mmap_base: where the search for a gap starts
    Frames,         \* frame objects
    Backings,       \* mapping backings
    Slots,          \* tlb_entries
    MaxCookie,      \* the mappings that a space can name
    Values, Zero,
    None

ASSUME StateAssumption ==
    /\ NPages \in Nat /\ MaxCookie \in Nat
    /\ Slots \in 1 .. NPages
    /\ MmapBase \in 0 .. NPages
    /\ Zero \in Values

Pages == 0 .. NPages - 1
Offsets == 0 .. NPages - 1
Cookies == 1 .. MaxCookie
Kinds == {"anonPrivate", "anonShared", "notePrivate", "noteShared"}
Flags == {"cow", "shared", "accessed", "dirty", "locked"}
Prots == {{}, {"r"}, {"r", "w"}}

NoPte == [frame |-> None, prot |-> {}, flags |-> {}]
NoEntry == [page |-> None, frame |-> None, prot |-> {}, flags |-> {}]
NoVma == [cookie |-> None, off |-> 0, prot |-> {}, max |-> {}, shared |-> FALSE]
FreeFrame == [refs |-> 0, pins |-> 0, tpins |-> 0, maps |-> 0,
              value |-> Zero, resident |-> FALSE]
NoPages == [o \in Offsets |-> None]
FreeBacking == [kind |-> None, refs |-> 0, pages |-> NoPages]

VARIABLES
    space,      \* of each space: open, vma, bind (cookie to backing), pt, tlb, cookie
    frame,      \* of each frame: references, pins, transient pins, mappings, content, residency
    backing,    \* of each backing: kind, references, the pages of a shared anonymous one
    note        \* the note that is mapped: size, active mappings, cached pages

stateVars == <<space, frame, backing, note>>

(* A space as minimm_space_create leaves it, and one that does not exist. *)
EmptySpace ==
    [open |-> TRUE,
     vma |-> [p \in Pages |-> NoVma],
     bind |-> [c \in Cookies |-> None],
     pt |-> [p \in Pages |-> NoPte],
     tlb |-> [i \in 0 .. Slots - 1 |-> NoEntry],
     cookie |-> 1]

NoSpace == [EmptySpace EXCEPT !.open = FALSE]

(***************************************************************************)
(* The record that a call transforms.                                      *)
(***************************************************************************)
Machine(budget) ==
    [space |-> space, frame |-> frame, backing |-> backing, note |-> note,
     ok |-> TRUE, got |-> None, budget |-> budget]

Commit(m) ==
    /\ space' = m.space
    /\ frame' = m.frame
    /\ backing' = m.backing
    /\ note' = m.note

Fail(m) == [m EXCEPT !.ok = FALSE]

Clear(m) == [m EXCEPT !.ok = TRUE, !.got = None]

(* One fallible step. *)
Try(m) == IF m.budget = 0 THEN Fail(m) ELSE [m EXCEPT !.budget = @ - 1]

(* Op for the members of S, which are pages, cookies or slots, in ascending *)
(* order, as long as the status is OK.                                     *)
Each(Op(_, _), m, S) ==
    LET Upto[i \in 0 .. NPages + MaxCookie] ==
            LET a == IF i = 0 THEN m ELSE Upto[i - 1]
            IN  IF a.ok /\ i \in S THEN Op(a, i) ELSE a
    IN  Upto[NPages + MaxCookie]

(***************************************************************************)
(* Frames.                                                                 *)
(***************************************************************************)
Retain(m, f) == [m EXCEPT !.frame[f].refs = @ + 1]

Release(m, f) ==
    IF f = None THEN m
    ELSE IF m.frame[f].refs = 1 THEN [m EXCEPT !.frame[f] = FreeFrame]
    ELSE [m EXCEPT !.frame[f].refs = @ - 1]

(* minimm_frame_create_zero and _create_file: a frame starts non-resident. *)
CreateFrame(m) ==
    LET unused == {f \in Frames : m.frame[f].refs = 0}
        t == Try(m)
    IN  IF ~t.ok \/ unused = {} THEN Fail(t)
        ELSE LET f == CHOOSE f \in unused : TRUE
             IN  [t EXCEPT !.frame[f].refs = 1, !.got = f]

EnsureResident(m, f) ==
    IF m.frame[f].resident THEN m
    ELSE LET t == Try(m) IN IF t.ok THEN [t EXCEPT !.frame[f].resident = TRUE] ELSE t

(* minimm_frame_copy: the copy was written, so it is resident; nothing pins it. *)
CopyFrame(m, f) ==
    LET c == CreateFrame(m)
    IN  IF ~c.ok THEN [c EXCEPT !.got = None]
        ELSE [c EXCEPT !.frame[c.got].value = m.frame[f].value,
                       !.frame[c.got].resident = TRUE,
                       !.frame[f].resident = TRUE]

(***************************************************************************)
(* Page table entries.                                                     *)
(***************************************************************************)
EffectiveProtection(prot, flags) == IF "cow" \in flags THEN prot \ {"w"} ELSE prot

LockCount(flags) == IF "locked" \in flags THEN 1 ELSE 0

PageTableMap(m, s, p, f, prot, flags) ==
    LET t == Try(m)
    IN  IF m.space[s].pt[p] # NoPte \/ ~t.ok THEN Fail(t)
        ELSE [t EXCEPT
                !.space[s].pt[p] = [frame |-> f, flags |-> flags,
                                    prot |-> EffectiveProtection(prot, flags)],
                !.frame[f].refs = @ + 1,
                !.frame[f].maps = @ + 1,
                !.frame[f].pins = @ + LockCount(flags)]

PageTableUnmap(m, s, p) ==
    LET e == m.space[s].pt[p]
    IN  IF e = NoPte THEN m
        ELSE Release([m EXCEPT !.space[s].pt[p] = NoPte,
                               !.frame[e.frame].maps = @ - 1,
                               !.frame[e.frame].pins = @ - LockCount(e.flags)], e.frame)

(* minimm_page_table_update_attributes, _protect and _update_flags. *)
PageTableUpdate(m, s, p, prot, set, clear) ==
    LET e == m.space[s].pt[p]
        flags == (e.flags \cup set) \ clear
    IN  IF e = NoPte THEN Fail(m)
        ELSE [m EXCEPT
                !.space[s].pt[p] = [frame |-> e.frame, flags |-> flags,
                                    prot |-> EffectiveProtection(prot, flags)],
                !.frame[e.frame].pins = @ + LockCount(flags) - LockCount(e.flags)]

PageTableReplaceFrame(m, s, p, f, prot, set, clear) ==
    LET e == m.space[s].pt[p]
        flags == (e.flags \cup set) \ clear
        new == [m EXCEPT !.space[s].pt[p] = [frame |-> f, flags |-> flags,
                                             prot |-> EffectiveProtection(prot, flags)],
                         !.frame[f].refs = @ + 1,
                         !.frame[f].maps = @ + 1,
                         !.frame[f].pins = @ + LockCount(flags)]
    IN  IF e = NoPte THEN Fail(m)
        ELSE Release([new EXCEPT !.frame[e.frame].maps = @ - 1,
                                 !.frame[e.frame].pins = @ - LockCount(e.flags)], e.frame)

(* The pages that minimm_page_table_find_next reports, one call after another. *)
Present(m, s, S) == {p \in S : m.space[s].pt[p] # NoPte}

(***************************************************************************)
(* The TLB: page p can only be in slot p % Slots.                          *)
(***************************************************************************)
TlbIndex(p) == p % Slots

TlbClear(m, s, i) ==
    Release([m EXCEPT !.space[s].tlb[i] = NoEntry], m.space[s].tlb[i].frame)

TlbInvalidate(m, s, S) ==
    Each(LAMBDA a, i : TlbClear(a, s, i), m,
         {i \in DOMAIN m.space[s].tlb : m.space[s].tlb[i].page \in S})

TlbInsert(m, s, p) ==
    LET e == m.space[s].pt[p]
        i == TlbIndex(p)
    IN  [TlbClear(Retain(m, e.frame), s, i) EXCEPT
            !.space[s].tlb[i] = [page |-> p, frame |-> e.frame, prot |-> e.prot, flags |-> e.flags]]

(***************************************************************************)
(* Backings and bindings.                                                  *)
(***************************************************************************)
IsNote(kind) == kind \in {"notePrivate", "noteShared"}

IsShared(kind) == kind \in {"anonShared", "noteShared"}

BackingCreate(m, kind) ==
    LET unused == {b \in Backings : m.backing[b].kind = None}
        t == Try(m)
    IN  IF ~t.ok \/ unused = {} THEN Fail(t)
        ELSE LET b == CHOOSE b \in unused : TRUE
             IN  [t EXCEPT !.backing[b] = [FreeBacking EXCEPT !.kind = kind, !.refs = 1],
                           !.note.attached = @ + (IF IsNote(kind) THEN 1 ELSE 0),
                           !.got = b]

BackingRetain(m, b) == [m EXCEPT !.backing[b].refs = @ + 1]

BackingRelease(m, b) ==
    IF m.backing[b].refs > 1 THEN [m EXCEPT !.backing[b].refs = @ - 1]
    ELSE [Each(LAMBDA a, o : Release(a, m.backing[b].pages[o]), m, Offsets) EXCEPT
            !.backing[b] = FreeBacking,
            !.note.attached = @ - (IF IsNote(m.backing[b].kind) THEN 1 ELSE 0)]

(* minimm_note_get_frame, as far as a mapping sees it: the frame that the  *)
(* note keeps for the page, read from its file at the first use.           *)
NoteGetFrame(m, o) ==
    IF o >= m.note.size THEN Fail(m)
    ELSE IF m.note.pages[o] # None
         THEN [Retain(m, m.note.pages[o]) EXCEPT !.got = m.note.pages[o]]
    ELSE LET c == CreateFrame(m)
         IN  IF ~c.ok THEN c ELSE [Retain(c, c.got) EXCEPT !.note.pages[o] = c.got]

(* minimm_mapping_backing_get_frame: the caller holds a reference to got. *)
BackingGetFrame(m, b, o) ==
    LET kind == m.backing[b].kind
        page == m.backing[b].pages[o]
        c == CreateFrame(m)
        r == EnsureResident(c, c.got)
    IN  CASE IsNote(kind) -> NoteGetFrame(m, o)
          [] kind = "anonPrivate" -> c
          [] kind = "anonShared" /\ page # None -> [Retain(m, page) EXCEPT !.got = page]
          [] OTHER -> IF ~c.ok THEN c
                      ELSE IF ~r.ok THEN [Release(r, c.got) EXCEPT !.got = None]
                      ELSE [Retain(r, c.got) EXCEPT !.backing[b].pages[o] = c.got]

(* minimm_space_binding_prune, and the release of what it removes. *)
PruneBindings(m, s) ==
    Each(LAMBDA a, c : BackingRelease([a EXCEPT !.space[s].bind[c] = None], a.space[s].bind[c]),
         m, {c \in Cookies : /\ m.space[s].bind[c] # None
                             /\ \A p \in Pages : m.space[s].vma[p].cookie # c})

(* Seeded fault: the child borrows the references of the parent. *)
CloneBare(m, s, c) ==
    LET t == Try(m)
    IN  IF ~t.ok THEN t ELSE [t EXCEPT !.space[c].bind = m.space[s].bind]

(* minimm_space_binding_list_clone, all of it or nothing. *)
CloneBindings(m, s, c) ==
    LET t == Try(m)
    IN  IF ~t.ok THEN t
        ELSE Each(LAMBDA a, k : BackingRetain([a EXCEPT !.space[c].bind[k] = m.space[s].bind[k]],
                                              m.space[s].bind[k]),
                  t, {k \in Cookies : m.space[s].bind[k] # None})

BindingOf(m, s, p) == m.space[s].bind[m.space[s].vma[p].cookie]

KindOf(m, s, p) == m.backing[BindingOf(m, s, p)].kind

(***************************************************************************)
(* The ranges of the VMA snapshot.                                         *)
(***************************************************************************)
Span(a, n) == a .. a + n - 1

Mapped(m, s, S) == \A p \in S : m.space[s].vma[p] # NoVma

Vacant(m, s, S) == \A p \in S : m.space[s].vma[p] = NoVma

(* minimm_vma_can_merge for two neighbouring pages. *)
Joined(m, s, p, q) ==
    /\ {p, q} \subseteq Pages
    /\ m.space[s].vma[p] # NoVma
    /\ m.space[s].vma[q] = [m.space[s].vma[p] EXCEPT !.off = @ + (q - p)]

(* [a, a + n) is exactly one range of the snapshot. *)
IsRange(m, s, a, n) ==
    /\ Span(a, n) \subseteq Pages
    /\ Mapped(m, s, Span(a, n))
    /\ \A p \in Span(a, n - 1) : Joined(m, s, p, p + 1)
    /\ ~Joined(m, s, a - 1, a)
    /\ ~Joined(m, s, a + n - 1, a + n)

(* minimm_vma_snapshot_find_gap; None stands for MINIMM_ERROR_NO_SPACE. *)
FindGap(m, s, lower, n) ==
    LET gaps == {a \in lower .. NPages - n : Vacant(m, s, Span(a, n))}
    IN  IF gaps = {} THEN None ELSE CHOOSE a \in gaps : \A b \in gaps : a <= b

SetVma(m, s, S, F(_)) ==
    [m EXCEPT !.space[s].vma = [p \in Pages |-> IF p \in S THEN F(p) ELSE @[p]]]

(* minimm_mapping_unmap_pages_locked. *)
UnmapPages(m, s, S) ==
    Each(LAMBDA a, p : PageTableUnmap(a, s, p), TlbInvalidate(m, s, S), Present(m, s, S))

(* minimm_space_destroy, and what it frees. *)
DestroySpace(m, s) ==
    LET clean == PruneBindings(SetVma(UnmapPages(m, s, Pages), s, Pages, LAMBDA p : NoVma), s)
    IN  [clean EXCEPT !.space[s] = NoSpace]

=============================================================================
