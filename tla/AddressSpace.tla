---------------------------- MODULE AddressSpace ----------------------------
(***************************************************************************)
(* The calls on address spaces: src/mapping.c, src/fault.c, src/access.c,  *)
(* src/fork.c, src/memory_api.c and src/space.c.                           *)
(*                                                                         *)
(* A call holds the lock of its space from its first look at the snapshot  *)
(* to its last change.  What other threads can do meanwhile is to evict a  *)
(* frame that is not pinned and to use the same frames through another     *)
(* space, so a call whose outcome does not depend on residency is one      *)
(* action, and the others (an access, an explicit fault, mlock) take their *)
(* steps one by one, with the state of the call in call[s].  A mmap works  *)
(* on its note before it takes the lock: pending is the one that does.     *)
(*                                                                         *)
(* A call that several of its fallible steps can end is followed for every *)
(* number of steps that succeed before one fails (budget).                 *)
(***************************************************************************)
EXTENDS SpaceState

CONSTANTS
    Root,           \* the space that exists at the start
    MaxLength,      \* the longest range of a call, in pages
    Loads           \* what programs may do: see CallsAssumption

(* What minimm_mmap accepts: anonymous mappings start at offset 0. *)
AllMmapArgs ==
    [kind : Kinds, prot : Prots, max : Prots, off : Offsets, n : 1 .. MaxLength,
     mode : {"auto", "hint", "fixed", "noreplace"}, at : Pages, populate : BOOLEAN]

(* The flags that minimm_mremap accepts. *)
RemapFlags == {{}, {"maymove"}, {"maymove", "fixed"}, {"maymove", "dontunmap"},
               {"maymove", "fixed", "dontunmap"}}

(* A load is the set of calls that are made, the arguments of mmap, the new *)
(* protections of mprotect, the flags of mremap, the sizes given to the     *)
(* note and the values written.  Its bounds: calls name the pages below     *)
(* [pages], a space makes [maps] mappings, one of the first [failures]      *)
(* allocations of a call can fail, and [busy] spaces are in the middle of a *)
(* call at a time.                                                          *)
ASSUME CallsAssumption ==
    /\ Root \in Spaces /\ MaxLength \in Nat
    /\ \A w \in Loads :
        /\ w.args \subseteq AllMmapArgs /\ w.prots \subseteq Prots /\ w.remaps \subseteq RemapFlags
        /\ w.sizes \subseteq Nat
        /\ \A a \in w.args : a.prot \subseteq a.max /\ (IsNote(a.kind) \/ a.off = 0)
        /\ w.values \subseteq Values /\ w.pages \in 0 .. NPages /\ w.maps \in Nat
        /\ w.failures \in Nat /\ w.busy \in Nat
        /\ w.calls \subseteq {"read", "write", "fault", "mmap", "munmap", "mprotect", "mremap", "copy", "fork",
                             "create", "destroy", "mlock", "munlock", "msync", "willneed", "dontneed", "cold",
                             "pageout", "resize", "evict", "snapshot", "flush"}

VARIABLES
    call,       \* of each space: the call that holds its lock across steps
    pending,    \* the mmap that has not taken the lock yet
    status,     \* what the last step returned: a code, and the address that a call hands out
    load        \* the load, which never changes

vars == <<space, frame, backing, note, call, pending, status, load>>

Idle == [op |-> "idle"]
NoMmap == [stage |-> "none"]

Lengths == 1 .. MaxLength
Budgets == 0 .. load.failures - 1 \cup {1000}      \* the last one is enough for any call

Calls == load.calls

Named == 0 .. load.pages - 1

Free(s) == space[s].open /\ call[s] = Idle

(* A bound on the calls under way. *)
MayBegin == Cardinality({s \in Spaces : call[s] # Idle}) < load.busy

(* A step that returns nothing, and the status that a call returns. *)
Silent == [code |-> "-", at |-> None]
Error == [code |-> "error", at |-> None]
Answer(m) == IF m.ok THEN [code |-> "ok", at |-> m.got] ELSE Error

(* The end of a call that is one action. *)
Return(m) ==
    /\ Commit(m)
    /\ status' = Answer(m)
    /\ UNCHANGED <<call, pending, load>>

(* A step of a call that goes on in the state c. *)
Continue(s, m, c) ==
    /\ Commit(m)
    /\ call' = [call EXCEPT ![s] = c]
    /\ status' = Silent
    /\ UNCHANGED <<pending, load>>

(* The last step of a call that took several. *)
End(s, m) ==
    /\ Commit(m)
    /\ call' = [call EXCEPT ![s] = Idle]
    /\ status' = Answer(m)
    /\ UNCHANGED <<pending, load>>

(***************************************************************************)
(* Faults, first what minimm_handle_page_fault_locked and                  *)
(* minimm_populate_page_locked have in common.                             *)
(***************************************************************************)
AccessFlags(access) == IF access = "w" THEN {"accessed", "dirty"} ELSE {"accessed"}

(* Seeded fault: a private mapping writes to the pages of the note. *)
MappingFlagsDirect(m, s, p) == IF IsShared(KindOf(m, s, p)) THEN {"shared"} ELSE {}

(* The flags of an entry for a frame that came from the backing. *)
MappingFlags(m, s, p) ==
    CASE IsShared(KindOf(m, s, p)) -> {"shared"}
      [] KindOf(m, s, p) = "notePrivate" /\ "w" \in m.space[s].vma[p].max -> {"cow"}
      [] OTHER -> {}

GetFrame(m, s, p) == BackingGetFrame(m, BindingOf(m, s, p), m.space[s].vma[p].off)

(* minimm_populate_page_locked: no access, so no accessed or dirty flag and no TLB entry. *)
PopulatePage(m, s, p) ==
    LET g == GetFrame(m, s, p)
        r == EnsureResident(g, g.got)
        e == IF r.ok THEN PageTableMap(r, s, p, g.got, m.space[s].vma[p].prot, MappingFlags(m, s, p))
                     ELSE r
    IN  IF m.space[s].vma[p] = NoVma THEN Fail(m)
        ELSE IF m.space[s].pt[p] # NoPte THEN EnsureResident(m, m.space[s].pt[p].frame)
        ELSE IF ~g.ok THEN g
        ELSE [Release(e, g.got) EXCEPT !.got = None]

(***************************************************************************)
(* minimm_read, minimm_write and minimm_edit on bytes of one page, and     *)
(* minimm_handle_page_fault.                                               *)
(***************************************************************************)
Access(s, op, p, access, v) ==
    [op |-> op, stage |-> "start", page |-> p, access |-> access, val |-> v,
     frame |-> None, prot |-> {}, fresh |-> FALSE]

BeginAccess(s) ==
    \E p \in Named, a \in {<<"read", "r">>, <<"write", "w">>, <<"fault", "r">>, <<"fault", "w">>} :
        \E v \in IF a[1] = "write" THEN load.values ELSE {Zero} :
             /\ Free(s) /\ MayBegin
             /\ a[1] \in Calls
             /\ IF space[s].vma[p] = NoVma \/ a[2] \notin space[s].vma[p].prot
                THEN Return(Fail(Machine(0)))
                ELSE Continue(s, Machine(0), Access(s, a[1], p, a[2], v))

(* The TLB entry of the page can serve the access: minimm_access_memory. *)
TlbServes(e, c) ==
    /\ e.page = c.page
    /\ frame[e.frame].resident
    /\ ~(c.access = "w" /\ "cow" \in e.flags)
    /\ c.access \in e.prot
    /\ AccessFlags(c.access) \subseteq e.flags

LookupTlb(s) ==
    LET c == call[s]
        i == TlbIndex(c.page)
        e == space[s].tlb[i]
        m == Machine(0)
    IN  /\ c.op # "idle" /\ c.stage = "start"
        /\ IF c.op = "fault" THEN Continue(s, m, [c EXCEPT !.stage = "fault"])
           ELSE IF TlbServes(e, c)
                THEN Continue(s, Retain(m, e.frame), [c EXCEPT !.stage = "tlb", !.frame = e.frame,
                                                                  !.prot = e.prot])
           ELSE Continue(s, IF e.page = c.page /\ ~frame[e.frame].resident
                            THEN TlbClear(m, s, i) ELSE m,
                         [c EXCEPT !.stage = "refill"])

(* Seeded fault: the translation is used without asking whether its frame is still there. *)
PinBlindly(s) ==
    LET c == call[s]
        m == Machine(0)
    IN  /\ c.op # "idle" /\ c.stage = "tlb"
        /\ Continue(s, [m EXCEPT !.frame[c.frame].tpins = @ + 1], [c EXCEPT !.stage = "transfer"])

(* The entry was good when it was looked up; its frame may be gone now. *)
PinTranslation(s) ==
    LET c == call[s]
        m == Machine(0)
    IN  /\ c.op # "idle" /\ c.stage = "tlb"
        /\ IF frame[c.frame].resident
           THEN Continue(s, [m EXCEPT !.frame[c.frame].tpins = @ + 1], [c EXCEPT !.stage = "transfer"])
           ELSE Continue(s, Release(m, c.frame), [c EXCEPT !.stage = "refill", !.frame = None,
                                                                !.prot = {}])

(* minimm_access_pte_requires_fault decides what the refill does next. *)
RequiresFault(s, c) ==
    LET e == space[s].pt[c.page]
    IN  \/ e = NoPte
        \/ ~frame[e.frame].resident
        \/ c.access = "w" /\ "cow" \in e.flags
        \/ c.access \notin e.prot

Refill(s) ==
    LET c == call[s]
    IN  /\ c.op # "idle" /\ c.stage = "refill"
        /\ Continue(s, Machine(0), [c EXCEPT !.stage = IF RequiresFault(s, c) THEN "fault" ELSE "pin"])

EndInError(s, m) == End(s, Fail(m))

(* The entry is in place; what follows the fault depends on who raised it. *)
Resolved(s, m, c) ==
    LET r == TlbInsert(TlbInvalidate(Clear(m), s, {c.page}), s, c.page)
    IN  IF c.op = "fault" THEN End(s, r)
        ELSE Continue(s, r, [c EXCEPT !.stage = "pin", !.frame = None, !.fresh = FALSE])

(* minimm_handle_page_fault_locked up to the frame it will install. *)
Fault(s) ==
    LET c == call[s]
        p == c.page
        e == space[s].pt[p]
    IN  /\ c.op # "idle" /\ c.stage = "fault"
        /\ \E k \in Budgets :
             LET m == Machine(k)
                 g == GetFrame(m, s, p)
                 d == IF KindOf(m, s, p) = "notePrivate" /\ c.access = "w" /\ g.ok
                      THEN Release(CopyFrame([g EXCEPT !.got = None], g.got), g.got)
                      ELSE IF g.ok THEN EnsureResident(g, g.got) ELSE g
                 copied == KindOf(m, s, p) = "notePrivate" /\ c.access = "w"
                 w == CopyFrame(m, e.frame)
                 r == EnsureResident(m, e.frame)
             IN  IF e = NoPte
                 THEN IF d.ok THEN Continue(s, d, [c EXCEPT !.stage = "install", !.frame = d.got,
                                                            !.fresh = copied])
                      ELSE EndInError(s, IF g.ok /\ ~copied THEN Release(d, g.got) ELSE d)
                 ELSE IF "cow" \in e.flags /\ c.access = "w"
                 THEN IF w.ok THEN Continue(s, w, [c EXCEPT !.stage = "install", !.frame = w.got])
                      ELSE EndInError(s, w)
                 ELSE IF r.ok /\ c.access \in e.prot
                 THEN Resolved(s, PageTableUpdate(r, s, p, e.prot, AccessFlags(c.access), {}), c)
                 ELSE EndInError(s, r)

(* The rest of it: map the frame, or put the private copy in the place of the shared one. *)
Install(s) ==
    LET c == call[s]
        p == c.page
        e == space[s].pt[p]
        prot == space[s].vma[p].prot
    IN  /\ c.op # "idle" /\ c.stage = "install"
        /\ \E k \in Budgets :
             LET m == Machine(k)
                 flags == AccessFlags(c.access) \cup (IF c.fresh THEN {} ELSE MappingFlags(m, s, p))
                 i == IF e = NoPte THEN PageTableMap(m, s, p, c.frame, prot, flags)
                      ELSE PageTableReplaceFrame(m, s, p, c.frame, prot, AccessFlags(c.access), {"cow"})
                 r == Release(i, c.frame)
             IN  IF i.ok THEN Resolved(s, r, c) ELSE EndInError(s, r)

(* Pin the frame of the entry if it is still resident, or start again. *)
PinEntry(s) ==
    LET c == call[s]
        e == space[s].pt[c.page]
        flags == AccessFlags(c.access)
        m == [Machine(0) EXCEPT !.frame[e.frame].tpins = @ + 1]
        u == IF flags \subseteq e.flags THEN m ELSE PageTableUpdate(m, s, c.page, e.prot, flags, {})
    IN  /\ c.op # "idle" /\ c.stage = "pin"
        /\ IF frame[e.frame].resident
           THEN Continue(s, Retain(TlbInsert(u, s, c.page), e.frame),
                         [c EXCEPT !.stage = "transfer", !.frame = e.frame, !.prot = e.prot])
           ELSE Continue(s, Machine(0), [c EXCEPT !.stage = "refill"])

(* The copy to or from the pinned frame, and the end of the access. *)
Transfer(s) ==
    LET c == call[s]
        m == Machine(0)
        w == IF c.op = "write" /\ c.access \in c.prot THEN [m EXCEPT !.frame[c.frame].value = c.val] ELSE m
    IN  /\ c.op # "idle" /\ c.stage = "transfer"
        /\ End(s, Release([w EXCEPT !.frame[c.frame].tpins = @ - 1], c.frame))

(***************************************************************************)
(* minimm_mmap: the backing first, then the size of the note, and only then*)
(* the lock of the space.                                                  *)
(***************************************************************************)
(* Seeded fault: the size of the note is read before the mapping is counted. *)
MmapAttachLate(s) ==
    \E a \in load.args :
        /\ "mmap" \in Calls /\ space[s].open /\ pending = NoMmap /\ space[s].cookie <= load.maps
        /\ LET m == BackingCreate(Machine(1), a.kind)
           IN  /\ Commit([m EXCEPT !.note = note])
               /\ pending' = IF m.ok THEN [stage |-> "attached", space |-> s, args |-> a, backing |-> m.got]
                                     ELSE NoMmap
               /\ status' = IF m.ok THEN Silent ELSE Error
               /\ UNCHANGED <<call, load>>

MmapAttach(s) ==
    \E a \in load.args, k \in {0, 1} :
        /\ "mmap" \in Calls /\ space[s].open /\ pending = NoMmap /\ space[s].cookie <= load.maps
        /\ LET m == BackingCreate(Machine(k), a.kind)
           IN  /\ Commit(m)
               /\ pending' = IF m.ok THEN [stage |-> "attached", space |-> s, args |-> a, backing |-> m.got]
                                     ELSE NoMmap
               /\ status' = IF m.ok THEN Silent ELSE Error
               /\ UNCHANGED <<call, load>>

(* minimm_mapping_validate_backing. *)
MmapValidate ==
    LET a == pending.args
        fits == ~IsNote(a.kind) \/ a.off + a.n <= note.size
    IN  /\ pending.stage = "attached"
        /\ Commit(IF fits THEN Machine(0) ELSE BackingRelease(Machine(0), pending.backing))
        /\ pending' = IF fits THEN [pending EXCEPT !.stage = "valid"] ELSE NoMmap
        /\ status' = IF fits THEN Silent ELSE Error
        /\ UNCHANGED <<call, load>>

(* Where a new mapping of n pages goes: None is an error. *)
Placement(m, s, mode, at, n) ==
    LET hinted == mode = "hint" /\ at + n <= NPages
        lower == IF hinted /\ at > MmapBase THEN at ELSE MmapBase
        gap == FindGap(m, s, lower, n)
    IN  CASE mode = "fixed" -> IF at + n <= NPages THEN at ELSE None
          [] mode = "noreplace" \/ (hinted /\ Vacant(m, s, Span(at, n))) ->
               IF at + n <= NPages /\ Vacant(m, s, Span(at, n)) THEN at ELSE None
          [] OTHER -> IF gap = None THEN FindGap(m, s, MmapBase, n) ELSE gap

MmapLocked(m, s, a, b) ==
    LET at == Placement(m, s, a.mode, a.at, a.n)
        t == Try(m)
        cookie == m.space[s].cookie
        clean == IF a.mode = "fixed" THEN UnmapPages(t, s, Span(at, a.n)) ELSE t
        new == SetVma(clean, s, Span(at, a.n),
                      LAMBDA p : [cookie |-> cookie, off |-> a.off + (p - at), prot |-> a.prot,
                                  max |-> a.max, shared |-> IsShared(a.kind)])
        bound == PruneBindings([new EXCEPT !.space[s].bind[cookie] = b], s)
        full == IF a.populate /\ a.prot # {}
                THEN Each(LAMBDA x, p : PopulatePage(x, s, p), bound, Span(at, a.n)) ELSE bound
    IN  IF cookie > MaxCookie \/ at = None \/ ~t.ok THEN Fail(BackingRelease(t, b))
        ELSE [full EXCEPT !.ok = TRUE, !.got = at, !.space[s].cookie = cookie + 1]

MmapInstall ==
    \E k \in Budgets :
        LET m == MmapLocked(Machine(k), pending.space, pending.args, pending.backing)
        IN  /\ pending.stage = "valid"
            /\ Free(pending.space)
            /\ Commit(m)
            /\ pending' = NoMmap
            /\ status' = Answer(m)
            /\ UNCHANGED <<call, load>>

(***************************************************************************)
(* minimm_munmap, minimm_mprotect and minimm_mapping_copy.                 *)
(***************************************************************************)
MunmapLocked(m, s, S) ==
    LET t == Try(m)
    IN  IF ~t.ok THEN t
        ELSE PruneBindings(SetVma(UnmapPages(t, s, S), s, S, LAMBDA p : NoVma), s)

Munmap(s, p, n) ==
    /\ "munmap" \in Calls /\ Free(s) /\ p + n <= load.pages
    /\ \E k \in {0, 1} : Return(MunmapLocked(Machine(k), s, Span(p, n)))

(* Seeded fault: the new protection does not reach the TLB. *)
MprotectKeepingTlb(m, s, S, prot) ==
    LET t == Try(m)
        u == Each(LAMBDA a, p : PageTableUpdate(a, s, p, prot, {}, {}), t, Present(m, s, S))
    IN  IF ~t.ok \/ ~Mapped(m, s, S) \/ (\E p \in S : ~(prot \subseteq m.space[s].vma[p].max))
        THEN Fail(t)
        ELSE SetVma(u, s, S, LAMBDA p : [m.space[s].vma[p] EXCEPT !.prot = prot])

MprotectLocked(m, s, S, prot) ==
    LET t == Try(m)
        u == Each(LAMBDA a, p : PageTableUpdate(a, s, p, prot, {}, {}), t, Present(m, s, S))
    IN  IF ~t.ok \/ ~Mapped(m, s, S) \/ (\E p \in S : ~(prot \subseteq m.space[s].vma[p].max))
        THEN Fail(t)
        ELSE SetVma(TlbInvalidate(u, s, S), s, S, LAMBDA p : [m.space[s].vma[p] EXCEPT !.prot = prot])

Mprotect(s, p, n, prot) ==
    /\ "mprotect" \in Calls /\ Free(s) /\ p + n <= load.pages
    /\ \E k \in {0, 1} : Return(MprotectLocked(Machine(k), s, Span(p, n), prot))

(* A call on a range that is not there fails at its first step. *)
RangeBudgets(s, p, n) == IF IsRange(Machine(0), s, p, n) THEN Budgets ELSE {0}

(* minimm_mapping_copy_ptes_locked and the undoing of a part of it. *)
CopyEntries(m, s, a, to, n, cow) ==
    LET One(x, p) ==
            LET e == m.space[s].pt[p]
            IN  PageTableMap(x, s, to + (p - a), e.frame, e.prot,
                             (e.flags \ {"shared", "locked", "accessed", "dirty", "cow"})
                                 \cup (IF cow THEN {"cow"} ELSE {}))
        r == Each(One, m, Present(m, s, Span(a, n)))
    IN  IF r.ok THEN r
        ELSE Fail(Each(LAMBDA x, p : PageTableUnmap(x, s, p), Clear(r), Span(to, n)))

(* minimm_mapping_update_source_copy_state_locked, which cannot fail on entries that are there. *)
UpdateSource(m, s, pages, cow) ==
    LET Mark(x, p) == PageTableUpdate(x, s, p, x.space[s].pt[p].prot, IF cow THEN {"cow"} ELSE {},
                                      IF cow THEN {"shared"} ELSE {"cow", "shared"})
    IN  Each(Mark, m, pages)

(* A private range, whole, gets a second place; both share their frames from now on. *)
CopyLocked(m, s, a, n, mode, hint) ==
    LET v == m.space[s].vma[a]
        cow == "w" \in v.max
        to == Placement(m, s, mode, hint, n)
        cookie == m.space[s].cookie
        b == BindingOf(m, s, a)
        t == Try(m)
        d == CopyEntries(BackingRetain(t, b), s, a, to, n, cow)
        u == UpdateSource(d, s, Present(m, s, Span(a, n)), cow)
        new == SetVma(TlbInvalidate(u, s, Span(a, n) \cup Span(to, n)), s, Span(to, n),
                      LAMBDA p : [v EXCEPT !.cookie = cookie, !.off = @ + (p - to)])
    IN  IF \/ ~IsRange(m, s, a, n) \/ v.shared \/ cookie > MaxCookie
        THEN Fail(m)
        ELSE IF ~t.ok \/ to = None THEN Fail(t)
        ELSE IF ~d.ok THEN BackingRelease(d, b)
        ELSE [new EXCEPT !.got = to, !.space[s].bind[cookie] = b, !.space[s].cookie = cookie + 1]

MappingCopy(s, p, n, mode, hint) ==
    /\ "copy" \in Calls /\ Free(s) /\ p + n <= load.pages
    /\ mode = "auto" => hint = 0
    /\ mode = "hint" => hint + n <= load.pages
    /\ \E k \in RangeBudgets(s, p, n) : Return(CopyLocked(Machine(k), s, p, n, mode, hint))

(***************************************************************************)
(* minimm_mremap.                                                          *)
(***************************************************************************)
(* Seeded fault: the last page of the range is left behind. *)
MoveAllButLast(m, s, a, to, n) ==
    LET One(x, p) == PageTableMap(x, s, to + (p - a), m.space[s].pt[p].frame,
                                  m.space[s].pt[p].prot, m.space[s].pt[p].flags)
        r == Each(One, m, Present(m, s, Span(a, n - 1)))
    IN  IF r.ok THEN UnmapPages(TlbInvalidate(r, s, Span(to, n)), s, Span(a, n))
        ELSE Fail(UnmapPages(Clear(r), s, Span(to, n)))

(* minimm_mapping_move_ptes_locked: copy the entries, undo on failure, then drop the old ones. *)
MoveEntries(m, s, a, to, n) ==
    LET One(x, p) == PageTableMap(x, s, to + (p - a), m.space[s].pt[p].frame,
                                  m.space[s].pt[p].prot, m.space[s].pt[p].flags)
        r == Each(One, m, Present(m, s, Span(a, n)))
    IN  IF r.ok THEN UnmapPages(TlbInvalidate(r, s, Span(to, n)), s, Span(a, n))
        ELSE Fail(UnmapPages(Clear(r), s, Span(to, n)))

(* minimm_mapping_replace_pte_locked. *)
PutEntry(m, s, p, e) ==
    IF m.space[s].pt[p] = NoPte THEN PageTableMap(m, s, p, e.frame, e.prot, e.flags)
    ELSE PageTableReplaceFrame(m, s, p, e.frame, e.prot, e.flags, Flags \ e.flags)

(* Seeded fault: the entries that the failed move replaced are not put back. *)
RestoreHolesOnly(m, s, S, saved) ==
    TlbInvalidate(Each(LAMBDA x, p : PageTableUnmap(x, s, p), m, {p \in S : saved[p] = NoPte}), s, S)

(* minimm_mapping_restore_fixed_destination_locked: the saved entries are  *)
(* still in the table, so putting them back allocates nothing.             *)
RestoreDestination(m, s, S, saved) ==
    LET back == Each(LAMBDA x, p : PutEntry(x, s, p, saved[p]), m, {p \in S : saved[p] # NoPte})
        gone == Each(LAMBDA x, p : PageTableUnmap(x, s, p), back, {p \in S : saved[p] = NoPte})
    IN  TlbInvalidate(gone, s, S)

(* minimm_mapping_move_ptes_fixed_locked: the old entries of the destination*)
(* are kept alive, with their pins, until the move cannot fail any more.   *)
MoveEntriesFixed(m, s, a, n, to, n2) ==
    LET saved == m.space[s].pt
        S == Span(to, n2)
        move == Present(m, s, Span(a, IF n < n2 THEN n ELSE n2))
        old == {p \in S : saved[p] # NoPte}
        t == IF old = {} THEN m ELSE Try(m)
        held == Each(LAMBDA x, p :
                        [Retain(x, saved[p].frame) EXCEPT !.frame[saved[p].frame].tpins =
                                                             @ + LockCount(saved[p].flags)], t, old)
        r == Each(LAMBDA x, p : PutEntry(x, s, to + (p - a), saved[p]), held, move)
        holes == {p \in S : a + (p - to) \notin move}
        done == IF r.ok
                THEN UnmapPages(TlbInvalidate(Each(LAMBDA x, p : PageTableUnmap(x, s, p), r, holes),
                                              s, S), s, Span(a, n))
                ELSE Fail(RestoreDestination(Clear(r), s, S, saved))
        Drop(x, p) == Release([x EXCEPT !.frame[saved[p].frame].tpins = @ - LockCount(saved[p].flags)],
                              saved[p].frame)
        end == Each(Drop, Clear(done), old)
    IN  CASE ~t.ok -> t
          [] \E p \in old : "locked" \in saved[p].flags /\ ~m.frame[saved[p].frame].resident -> Fail(m)
          [] OTHER -> [end EXCEPT !.ok = done.ok]

(* A range [a, a + n), whole, becomes n2 pages: in place, at "to", or where there is a gap. *)
MremapLocked(m, s, a, n, n2, f, to) ==
    LET v == m.space[s].vma[a]
        kind == KindOf(m, s, a)
        fixed == "fixed" \in f
        keep == "dontunmap" \in f
        cookie == m.space[s].cookie
        t == Try(m)
        grown == Span(a, n2) \subseteq Pages /\ Vacant(m, s, Span(a + n, n2 - n))
        place == IF fixed THEN to ELSE FindGap(m, s, MmapBase, n2)
        At(x, p) == [x EXCEPT !.got = p]
        Moved(p) == [v EXCEPT !.off = @ + (p - place), !.cookie = IF keep THEN cookie ELSE @]
        r == IF fixed THEN MoveEntriesFixed(t, s, a, n, place, n2)
             ELSE MoveEntries(t, s, a, place, n)
        gone == IF keep THEN r ELSE SetVma(r, s, Span(a, n), LAMBDA p : NoVma)
        put == SetVma(gone, s, Span(place, n2), Moved)
        bound == IF keep THEN [BackingRetain(put, BindingOf(m, s, a)) EXCEPT
                                  !.space[s].bind[cookie] = BindingOf(m, s, a),
                                  !.space[s].cookie = cookie + 1]
                 ELSE put
    IN  CASE ~IsRange(m, s, a, n) -> Fail(m)
          [] keep /\ (n2 # n \/ kind # "anonPrivate") -> Fail(m)
          [] IsNote(kind) /\ v.off + n2 > m.note.size -> Fail(m)
          [] ~fixed /\ ~keep /\ n2 = n -> At(m, a)
          [] ~t.ok -> t
          [] ~fixed /\ ~keep /\ n2 < n ->
               At(SetVma(UnmapPages(t, s, Span(a + n2, n - n2)), s, Span(a + n2, n - n2), LAMBDA p : NoVma), a)
          [] ~fixed /\ ~keep /\ grown ->
               At(SetVma(t, s, Span(a, n2), LAMBDA p : [v EXCEPT !.off = @ + (p - a)]), a)
          [] "maymove" \notin f \/ place = None \/ (keep /\ cookie > MaxCookie) -> Fail(t)
          [] OTHER -> IF r.ok THEN At(PruneBindings(bound, s), place) ELSE r

Mremap(s, p, n, n2, f, to) ==
    /\ "mremap" \in Calls /\ Free(s) /\ p + n <= load.pages
    /\ space[s].vma[p].off + n2 <= NPages      \* a bound: no offset grows past the address space
    /\ IF "fixed" \in f THEN to + n2 <= load.pages /\ Span(p, n) \cap Span(to, n2) = {} ELSE to = 0
    /\ \E k \in RangeBudgets(s, p, n) : Return(MremapLocked(Machine(k), s, p, n, n2, f, to))

(***************************************************************************)
(* minimm_space_fork, minimm_space_create and minimm_space_destroy.        *)
(***************************************************************************)
(* The flags that fork gives to both entries of a page, by its mapping. *)
ForkFlags(v, flags) ==
    IF v.shared THEN (flags \cup {"shared"}) \ {"cow"}
    ELSE IF "w" \in v.max THEN (flags \cup {"cow"}) \ {"shared"}
    ELSE flags \ {"cow", "shared"}

(* minimm_fork_copy_pte. *)
ForkCopyEntry(m, s, c, p) ==
    LET e == m.space[s].pt[p]
        v == m.space[s].vma[p]
    IN  IF v = NoVma THEN Fail(m)
        ELSE PageTableMap(m, c, p, e.frame, v.prot,
                          ForkFlags(v, e.flags \ {"locked", "accessed"})
                              \ (IF v.shared THEN {"dirty"} ELSE {}))

(* minimm_fork_commit_parent_cow. *)
ForkCommitParent(m, s, p) ==
    LET v == m.space[s].vma[p]
        flags == ForkFlags(v, m.space[s].pt[p].flags)
    IN  IF v = NoVma THEN Fail(m) ELSE PageTableUpdate(m, s, p, v.prot, flags, Flags \ flags)

(* Seeded fault: the pages of the parent become copy-on-write as they are copied. *)
ForkInOnePass(m, s, c) ==
    LET child == CloneBindings([Try(m) EXCEPT !.space[c] = EmptySpace], s, c)
        shown == [child EXCEPT !.space[c].vma = m.space[s].vma, !.space[c].cookie = m.space[s].cookie]
        both == Each(LAMBDA x, p : ForkCopyEntry(ForkCommitParent(x, s, p), s, c, p), shown,
                     Present(m, s, Pages))
    IN  IF ~Try(m).ok THEN Fail(m)
        ELSE IF both.ok THEN TlbInvalidate(both, s, Pages)
        ELSE Fail(DestroySpace(Clear(both), c))

(* Both passes over the table: only the first one can fail, and it only    *)
(* touches the child.                                                      *)
ForkLocked(m, s, c) ==
    LET child == CloneBindings([Try(m) EXCEPT !.space[c] = EmptySpace], s, c)
        shown == [child EXCEPT !.space[c].vma = m.space[s].vma, !.space[c].cookie = m.space[s].cookie]
        copied == Each(LAMBDA x, p : ForkCopyEntry(x, s, c, p), shown, Present(m, s, Pages))
        both == Each(LAMBDA x, p : ForkCommitParent(x, s, p), copied, Present(m, s, Pages))
    IN  IF ~Try(m).ok THEN Fail(m)
        ELSE IF both.ok THEN TlbInvalidate(both, s, Pages)
        ELSE Fail(DestroySpace(Clear(both), c))

Fork(s, c) ==
    /\ "fork" \in Calls /\ Free(s) /\ ~space[c].open
    /\ \E k \in Budgets : Return(ForkLocked(Machine(k), s, c))

(* minimm_space_create, all of it or nothing. *)
Create(s) ==
    /\ "create" \in Calls /\ ~space[s].open
    /\ \E k \in {0, 1} :
         LET t == Try(Machine(k))
         IN  Return(IF t.ok THEN [t EXCEPT !.space[s] = EmptySpace] ELSE t)

(* No call of the space is under way: that is the caller's duty. *)
Destroy(s) ==
    /\ "destroy" \in Calls /\ Free(s)
    /\ pending # NoMmap => pending.space # s
    /\ Return(DestroySpace(Machine(0), s))

(***************************************************************************)
(* minimm_mlock, page by page: a failure restores every page it touched.   *)
(***************************************************************************)
MlockBegin(s) ==
    \E p \in Named, n \in Lengths :
        LET saved == space[s].pt
            held == Each(LAMBDA x, q : Retain(x, saved[q].frame), Machine(0), Present(Machine(0), s, Span(p, n)))
        IN  /\ "mlock" \in Calls /\ Free(s) /\ MayBegin /\ p + n <= load.pages
            /\ IF Mapped(Machine(0), s, Span(p, n))
               THEN Continue(s, held, [op |-> "mlock", stage |-> "populate", first |-> p, last |-> p + n - 1,
                                       page |-> p, saved |-> saved])
               ELSE Return(Fail(Machine(0)))

(* minimm_memory_release_mlock_snapshots. *)
DropSaved(m, c) ==
    Each(LAMBDA x, p : Release(x, c.saved[p].frame), m,
         {p \in c.first .. c.last : c.saved[p] # NoPte})

(* minimm_memory_restore_mlock_pages_locked, for the pages attempted. *)
RestoreMlockPages(m, s, c) ==
    LET One(x, p) ==
            LET e == x.space[s].pt[p]
                o == c.saved[p]
                t == TlbInvalidate(x, s, {p})
            IN  IF e = o THEN x
                ELSE IF o = NoPte THEN PageTableUnmap(t, s, p)
                ELSE PageTableReplaceFrame(t, s, p, o.frame, o.prot, o.flags, Flags \ o.flags)
    IN  Each(One, Clear(m), c.first .. c.page)

MlockFail(s, m, c) ==
    Continue(s, DropSaved(RestoreMlockPages(m, s, c), c), [c EXCEPT !.stage = "failed"])

MlockPopulate(s) ==
    LET c == call[s]
    IN  /\ c.op = "mlock" /\ c.stage = "populate"
        /\ \E k \in Budgets :
             LET m == IF space[s].pt[c.page] = NoPte THEN PopulatePage(Machine(k), s, c.page) ELSE Machine(k)
             IN  IF m.ok THEN Continue(s, m, [c EXCEPT !.stage = "lock"]) ELSE MlockFail(s, m, c)

MlockPin(s) ==
    LET c == call[s]
        e == space[s].pt[c.page]
        m == IF "locked" \in e.flags THEN Machine(0)
             ELSE TlbInvalidate(PageTableUpdate(Machine(0), s, c.page, e.prot, {"locked"}, {}), s, {c.page})
    IN  /\ c.op = "mlock" /\ c.stage = "lock"
        /\ Continue(s, m, [c EXCEPT !.stage = "check"])

MlockNext(c) ==
    IF c.page < c.last THEN [c EXCEPT !.page = @ + 1, !.stage = "populate"] ELSE [c EXCEPT !.stage = "locked"]

(* Seeded fault: the page is not looked at again once it is pinned. *)
MlockTrust(s) ==
    LET c == call[s]
    IN  /\ c.op = "mlock" /\ c.stage = "check"
        /\ Continue(s, Machine(0), MlockNext(c))

(* The frame cannot be evicted any more: make sure that it was not before. *)
MlockCheck(s) ==
    LET c == call[s]
    IN  /\ c.op = "mlock" /\ c.stage = "check"
        /\ \E k \in {0, 1} :
             LET m == EnsureResident(Machine(k), space[s].pt[c.page].frame)
             IN  IF m.ok THEN Continue(s, m, MlockNext(c)) ELSE MlockFail(s, m, c)

(* The end of the call; the frames that a failed one saved are released already. *)
MlockEnd(s) ==
    LET c == call[s]
    IN  /\ c.op = "mlock" /\ c.stage \in {"locked", "failed"}
        /\ End(s, IF c.stage = "locked" THEN DropSaved(Machine(0), c) ELSE Fail(Machine(0)))

(***************************************************************************)
(* minimm_munlock, minimm_msync and minimm_madvise.                        *)
(***************************************************************************)
(* Update the entries of S that Sel selects, and their TLB entries. *)
UpdateEntries(m, s, S, Sel(_), clear) ==
    Each(LAMBDA x, p : TlbInvalidate(PageTableUpdate(x, s, p, x.space[s].pt[p].prot, {}, clear), s, {p}),
         m, {p \in Present(m, s, S) : Sel(m.space[s].pt[p])})

MunlockLocked(m, s, S) ==
    IF Mapped(m, s, S) THEN UpdateEntries(m, s, S, LAMBDA e : "locked" \in e.flags, {"locked"}) ELSE Fail(m)

(* The pages from p on that are in one range of the snapshot with p, as far as S goes. *)
Chunk(m, s, S, p) == {q \in S : q >= p /\ \A r \in p .. q - 1 : Joined(m, s, r, r + 1)}

(* Each range of a shared note mapping is written back; a hole is an error at the end only. *)
MsyncLocked(m, s, S) ==
    LET starts == {p \in S : /\ m.space[s].vma[p] # NoVma
                             /\ KindOf(m, s, p) = "noteShared"
                             /\ p - 1 \in S => ~Joined(m, s, p - 1, p)}
        Sync(x, p) == IF Try(x).ok
                      THEN UpdateEntries(Try(x), s, Chunk(m, s, S, p), LAMBDA e : "dirty" \in e.flags, {"dirty"})
                      ELSE Try(x)
        r == Each(Sync, m, starts)
    IN  IF Mapped(m, s, S) THEN r ELSE Fail(r)

(* Seeded fault: the frame that was brought in is not released when that failed. *)
WillneedLeaking(m, s, S) ==
    LET One(x, p) ==
            LET e == x.space[s].pt[p]
                g == GetFrame(x, s, p)
                r == EnsureResident(g, g.got)
            IN  IF e # NoPte THEN EnsureResident(x, e.frame)
                ELSE IF KindOf(x, s, p) = "anonPrivate" THEN x
                ELSE IF ~g.ok THEN g
                ELSE IF ~r.ok THEN r
                ELSE [Release(r, g.got) EXCEPT !.got = None]
    IN  IF Mapped(m, s, S) THEN Each(One, m, S) ELSE Fail(m)

(* minimm_memory_willneed_locked: no entry is made, only frames brought in. *)
WillneedLocked(m, s, S) ==
    LET One(x, p) ==
            LET e == x.space[s].pt[p]
                g == GetFrame(x, s, p)
                r == EnsureResident(g, g.got)
            IN  IF e # NoPte THEN EnsureResident(x, e.frame)
                ELSE IF KindOf(x, s, p) = "anonPrivate" THEN x
                ELSE IF ~g.ok THEN g
                ELSE [Release(r, g.got) EXCEPT !.got = None]
    IN  IF Mapped(m, s, S) THEN Each(One, m, S) ELSE Fail(m)

(* minimm_memory_validate_reclaimable_locked: nothing is dropped if one page is locked. *)
Reclaimable(m, s, S, pins) ==
    \A p \in Present(m, s, S) :
        LET e == m.space[s].pt[p]
        IN  "locked" \notin e.flags /\ (pins => m.frame[e.frame].pins = 0)

DontneedLocked(m, s, S) ==
    IF Mapped(m, s, S) /\ Reclaimable(m, s, S, FALSE) THEN UnmapPages(m, s, S) ELSE Fail(m)

ColdLocked(m, s, S) ==
    IF Mapped(m, s, S) THEN UpdateEntries(m, s, S, LAMBDA e : TRUE, {"accessed"}) ELSE Fail(m)

(* minimm_frame_page_out fails for a pinned frame or a failed write. *)
PageoutLocked(m, s, S) ==
    LET One(x, p) ==
            LET f == x.space[s].pt[p].frame
                t == Try(x)
            IN  IF x.frame[f].resident /\ (~t.ok \/ x.frame[f].tpins > 0) THEN Fail(t)
                ELSE UpdateEntries([(IF x.frame[f].resident THEN t ELSE x) EXCEPT !.frame[f].resident = FALSE], s, {p}, LAMBDA e : TRUE, {"dirty"})
    IN  IF Mapped(m, s, S) /\ Reclaimable(m, s, S, TRUE) THEN Each(One, m, Present(m, s, S)) ELSE Fail(m)

Advise(m, s, op, S) ==
    CASE op = "munlock" -> MunlockLocked(m, s, S)
      [] op = "msync" -> MsyncLocked(m, s, S)
      [] op = "willneed" -> WillneedLocked(m, s, S)
      [] op = "dontneed" -> DontneedLocked(m, s, S)
      [] op = "cold" -> ColdLocked(m, s, S)
      [] op = "pageout" -> PageoutLocked(m, s, S)

(* The calls that keep the effect on the pages before the one that failed. *)
StopMidway == {"msync", "willneed", "pageout"}

MemoryOps == {"munlock", "msync", "willneed", "dontneed", "cold", "pageout"}

MemoryCall(s, op, p, n) ==
    /\ op \in Calls /\ Free(s) /\ p + n <= load.pages
    /\ \E k \in Budgets :
         LET m == Advise(Machine(k), s, op, Span(p, n))
         IN  /\ Commit(m)
             /\ status' = IF ~m.ok /\ op \in StopMidway THEN Silent ELSE Answer(m)
             /\ UNCHANGED <<call, pending, load>>

(* minimm_space_flush_tlb *)
FlushTlb(s) ==
    /\ "flush" \in Calls /\ Free(s)
    /\ Return(TlbInvalidate(Machine(0), s, Pages))

(***************************************************************************)
(* What happens outside the spaces.                                        *)
(***************************************************************************)
(* The frame store evicts any frame that nothing pins; FrameStore has the details. *)
Evict(f) ==
    /\ "evict" \in Calls
    /\ frame[f].refs > 0 /\ frame[f].resident /\ frame[f].pins = 0 /\ frame[f].tpins = 0
    /\ frame' = [frame EXCEPT ![f].resident = FALSE]
    /\ status' = Silent
    /\ UNCHANGED <<space, backing, note, call, pending, load>>

(* minimm_note_resize refuses to shrink a mapped note and drops the pages it cuts off. *)
ResizeNote(n) ==
    LET cut == {o \in Offsets : o >= n /\ note.pages[o] # None}
        m == Each(LAMBDA x, o : Release(x, note.pages[o]), Machine(0), cut)
    IN  /\ "resize" \in Calls
        /\ n # note.size
        /\ n < note.size => note.attached = 0
        /\ Commit([m EXCEPT !.note.size = n,
                            !.note.pages = [o \in Offsets |-> IF o \in cut THEN None ELSE @[o]]])
        /\ status' = Silent
        /\ UNCHANGED <<call, pending, load>>

(***************************************************************************)
(* The specification.                                                      *)
(***************************************************************************)
Init ==
    /\ space = [s \in Spaces |-> IF s = Root THEN EmptySpace ELSE NoSpace]
    /\ frame = [f \in Frames |-> FreeFrame]
    /\ backing = [b \in Backings |-> FreeBacking]
    /\ load \in Loads
    /\ note \in [size : load.sizes, attached : {0}, pages : {NoPages}]
    /\ call = [s \in Spaces |-> Idle]
    /\ pending = NoMmap
    /\ status = Silent

AccessStep(s) ==
    \/ LookupTlb(s) \/ PinTranslation(s) \/ Refill(s) \/ Fault(s) \/ Install(s)
    \/ PinEntry(s) \/ Transfer(s)

MlockStep(s) == MlockPopulate(s) \/ MlockPin(s) \/ MlockCheck(s) \/ MlockEnd(s)

Next ==
    \/ \E s \in Spaces :
        \/ BeginAccess(s) \/ AccessStep(s)
        \/ MlockBegin(s) \/ MlockStep(s)
        \/ MmapAttach(s) \/ Create(s) \/ Destroy(s) \/ FlushTlb(s)
        \/ \E c \in Spaces : Fork(s, c)
        \/ \E p \in Named, n \in Lengths :
            \/ Munmap(s, p, n)
            \/ \E prot \in load.prots : Mprotect(s, p, n, prot)
            \/ \E mode \in {"auto", "hint"}, hint \in Named : MappingCopy(s, p, n, mode, hint)
            \/ \E n2 \in Lengths, f \in load.remaps, to \in Named : Mremap(s, p, n, n2, f, to)
            \/ \E op \in MemoryOps : MemoryCall(s, op, p, n)
    \/ MmapValidate \/ MmapInstall
    \/ \E f \in Frames : Evict(f)
    \/ \E n \in load.sizes : ResizeNote(n)

Spec == Init /\ [][Next]_vars

(***************************************************************************)
(* Properties.                                                             *)
(***************************************************************************)
Count(S) == Cardinality(S)

(* The entries, in all page tables, for which Sel holds. *)
Entries(Sel(_)) == {<<s, p>> \in Spaces \X Pages : space[s].pt[p] # NoPte /\ Sel(space[s].pt[p])}

InAccess(s) == call[s].op \in {"read", "write", "fault"}
InMlock(s) == call[s].op = "mlock"

(* The variables have their types; a frame is free when nothing refers to  *)
(* it, and counters never go below zero.                                   *)
TypeOK ==
    /\ \A s \in Spaces :
        /\ DOMAIN space[s] = {"open", "vma", "bind", "pt", "tlb", "cookie"}
        /\ space[s].cookie \in 1 .. MaxCookie + 1
        /\ space[s].bind \in [Cookies -> Backings \cup {None}]
        /\ \A p \in Pages : /\ space[s].vma[p].off \in Offsets
                             /\ space[s].pt[p] \in [frame : Frames \cup {None}, prot : Prots, flags : SUBSET Flags]
        /\ space[s].open \/ space[s] = NoSpace
    /\ \A f \in Frames : /\ {frame[f].refs, frame[f].pins, frame[f].tpins, frame[f].maps} \subseteq Nat
                          /\ frame[f].value \in Values /\ frame[f].resident \in BOOLEAN
                          /\ frame[f].refs = 0 => frame[f] = FreeFrame
    /\ backing \in [Backings -> [kind : Kinds \cup {None}, refs : Nat, pages : [Offsets -> Frames \cup {None}]]]
    /\ note \in [size : Nat, attached : Nat, pages : [Offsets -> Frames \cup {None}]]
    /\ pending.stage \in {"none", "attached", "valid"}
    /\ status \in [code : {"ok", "error", "-"}, at : Pages \cup {None}]

(* Every counter of a frame is the number of its holders: page table       *)
(* entries, TLB entries, the pages of backings and of the note, and what   *)
(* calls hold on to while they run.  No path, failed ones included, leaks a*)
(* reference or drops one twice (frame.c through all its callers).         *)
FramesCounted ==
    \A f \in Frames :
        LET maps == Entries(LAMBDA e : e.frame = f)
            tlb == {<<s, i>> \in Spaces \X (0 .. Slots - 1) : space[s].tlb[i].frame = f}
            kept == {<<b, o>> \in Backings \X Offsets : backing[b].pages[o] = f}
            cached == {o \in Offsets : note.pages[o] = f}
            used == {s \in Spaces : InAccess(s) /\ call[s].frame = f}
            saved == {<<s, p>> \in Spaces \X Pages :
                        /\ InMlock(s) /\ call[s].stage # "failed"
                        /\ p \in call[s].first .. call[s].last /\ call[s].saved[p].frame = f}
        IN  /\ frame[f].maps = Count(maps)
            /\ frame[f].pins = Count(Entries(LAMBDA e : e.frame = f /\ "locked" \in e.flags))
            /\ frame[f].tpins = Count({s \in used : call[s].stage = "transfer"})
            /\ frame[f].refs = Count(maps) + Count(tlb) + Count(kept) + Count(cached) + Count(used) + Count(saved)

(* A backing is referenced by the bindings that name it and by a mmap that *)
(* has not installed it, and the note counts its live backings as active   *)
(* mappings (minimm_mapping_backing_retain and _release).                  *)
BackingsCounted ==
    /\ \A b \in Backings :
        LET bound == {<<s, c>> \in Spaces \X Cookies : space[s].bind[c] = b}
            held == IF pending # NoMmap /\ pending.backing = b THEN 1 ELSE 0
        IN  /\ backing[b].refs = Count(bound) + held
            /\ backing[b].kind = None <=> backing[b].refs = 0
    /\ note.attached = Count({b \in Backings : IsNote(backing[b].kind)})

(* A space binds exactly the cookies that its snapshot uses, so a fault in *)
(* a mapped range always finds its backing (minimm_space_binding_prune,    *)
(* minimm_space_binding_list_clone, the dontunmap case of mremap).         *)
CookiesBound ==
    \A s \in Spaces :
        /\ {c \in Cookies : space[s].bind[c] # None} =
               {space[s].vma[p].cookie : p \in {q \in Pages : space[s].vma[q] # NoVma}}
        /\ \A c \in Cookies : c >= space[s].cookie => space[s].bind[c] = None

(* Every reference is counted once: those to frames and those to backings. *)
ReferencesCounted == TypeOK /\ FramesCounted /\ BackingsCounted /\ CookiesBound

(* Every cached translation agrees with the page table entry of its page,  *)
(* in frame, protection and flags, whatever changed the entry (access.c:125*)
(* serves an access from it without looking at the table).  An entry exists*)
(* only in a mapped range, grants what the range grants, less the write    *)
(* permission while copy-on-write, and in a shared mapping it shows the one*)
(* frame of the backing page and is never copy-on-write.                   *)
TranslationsAgree ==
    /\ \A s \in Spaces : \A i \in 0 .. Slots - 1 :
        LET t == space[s].tlb[i]
        IN  t # NoEntry => /\ TlbIndex(t.page) = i
                           /\ space[s].pt[t.page] = [frame |-> t.frame, prot |-> t.prot, flags |-> t.flags]
    /\ \A s \in Spaces : \A p \in Pages :
        LET e == space[s].pt[p]
            v == space[s].vma[p]
            b == backing[space[s].bind[v.cookie]]
        IN  e # NoPte =>
                /\ v # NoVma
                /\ e.prot = IF "cow" \in e.flags THEN v.prot \ {"w"} ELSE v.prot
                /\ "shared" \in e.flags <=> v.shared
                /\ v.shared => /\ "cow" \notin e.flags
                               /\ e.frame = IF b.kind = "noteShared" THEN note.pages[v.off] ELSE b.pages[v.off]

(* No mapping reaches past the end of its note: a shrink is refused while a*)
(* mapping or a mmap under way counts as active (mapping.c:390, note.c:967).*)
NoteCoversMappings ==
    \A s \in Spaces : \A p \in Pages :
        LET v == space[s].vma[p]
        IN  (v # NoVma /\ IsNote(backing[space[s].bind[v.cookie]].kind)) => v.off < note.size

(* The bytes of an access are copied from or to the frame that the page    *)
(* table shows for the page, which is resident, and a write goes to an     *)
(* entry that is writable, not copy-on-write, and marked accessed and      *)
(* dirty, whether the translation came from the TLB or not (access.c:134). *)
TransfersAreCurrent ==
    \A s \in Spaces :
        (InAccess(s) /\ call[s].stage = "transfer") =>
            LET c == call[s]
                e == space[s].pt[c.page]
            IN  /\ c.frame = e.frame /\ frame[c.frame].resident
                /\ c.access \in e.prot
                /\ "accessed" \in e.flags
                /\ c.op = "write" => "dirty" \in e.flags /\ "cow" \notin e.flags

(* mlock is all or nothing, although other threads reclaim meanwhile.  When*)
(* it succeeds every page of its range is locked and resident              *)
(* (memory_api.c:435).  When it fails the entries of its range are what    *)
(* they were: pages that were locked before stay locked, the others lose   *)
(* the lock it set, and the entries it created are gone (memory_api.c:338).*)
MlockAllOrNothing ==
    \A s \in Spaces : InMlock(s) =>
        \A p \in call[s].first .. call[s].last :
            /\ call[s].stage = "locked" => /\ "locked" \in space[s].pt[p].flags
                                           /\ frame[space[s].pt[p].frame].resident
            /\ call[s].stage = "failed" => space[s].pt[p] = call[s].saved[p]

(* A call that fails leaves every space with the ranges, bindings and page *)
(* table entries it had, and every frame with its pins and, as long as it  *)
(* is used, its content, although fork, mremap and mapping_copy find out in*)
(* the middle of their work (mapping.c:939, 983; fork.c).  Of a fault and  *)
(* of mlock this is said of their last step.                               *)
FailedCallsLeaveNoTrace ==
    [][status'.code = "error" =>
        /\ \A s \in Spaces : [space'[s] EXCEPT !.tlb = space[s].tlb] = space[s]
        /\ \A f \in Frames : /\ frame'[f].pins = frame[f].pins /\ frame'[f].tpins = frame[f].tpins
                              /\ frame'[f].maps = frame[f].maps
                              /\ frame'[f].refs > 0 => frame'[f].value = frame[f].value]_vars

=============================================================================
