------------------------- MODULE AddressSpaceMemory -------------------------
(***************************************************************************)
(* AddressSpace implements SpaceMemory.  page and content record what has  *)
(* been promised so far: a step of AddressSpace that ends a call with      *)
(* success does to them what SpaceMemory says of that call, with its       *)
(* arguments and the address it returned; every other step leaves them     *)
(* alone.  What programs see of the state has to be what was promised: a   *)
(* page shows the value of the frame in its entry or, without an entry,    *)
(* what its backing holds.                                                 *)
(***************************************************************************)
EXTENDS AddressSpace

CONSTANT Note       \* the name of the note among the objects that pages show

VARIABLES
    page,       \* the pages that were promised, see SpaceMemory
    content     \* the contents of objects that were promised

MemoryObjects == Backings \cup {Note}

Memory == INSTANCE SpaceMemory WITH Objects <- MemoryObjects

memoryVars == <<vars, page, content>>

(***************************************************************************)
(* What the state shows.                                                   *)
(***************************************************************************)
FrameValue(f) == IF f = None THEN Zero ELSE frame[f].value

(* A private page has a value of its own once its frame is not the note's. *)
OwnValue(s, p) ==
    LET e == space[s].pt[p]
        kind == KindOf([space |-> space, backing |-> backing], s, p)
    IN  CASE kind = "anonPrivate" -> FrameValue(e.frame)
          [] kind = "notePrivate" /\ e # NoPte /\ e.frame # note.pages[space[s].vma[p].off] ->
               frame[e.frame].value
          [] OTHER -> None

ObjectOf(kind, b) == IF IsNote(kind) THEN Note ELSE IF kind = "anonShared" THEN b ELSE None

PageOf(s, p) ==
    LET v == space[s].vma[p]
        b == space[s].bind[v.cookie]
        kind == backing[b].kind
    IN  IF v = NoVma THEN Memory!NoPage
        ELSE [kind |-> kind, prot |-> v.prot, max |-> v.max, own |-> OwnValue(s, p),
              obj |-> ObjectOf(kind, b), off |-> v.off]

ContentOf(x, o) == FrameValue(IF x = Note THEN note.pages[o] ELSE backing[x].pages[o])

(***************************************************************************)
(* The steps, each with what it does to the promised memory.               *)
(***************************************************************************)
Unseen == UNCHANGED <<page, content>>

(* A call does something to memory exactly when it returns success. *)
Answered(operation) == IF status'.code = "ok" THEN operation ELSE Unseen

(* The steps that no program can see in memory. *)
UnseenStep(s) ==
    \/ BeginAccess(s) \/ LookupTlb(s) \/ PinTranslation(s) \/ Refill(s) \/ PinEntry(s)
    \/ MlockBegin(s) \/ MlockStep(s) \/ MmapAttach(s) \/ FlushTlb(s)

(* A write fault that succeeds, whether it was raised by a write or asked for. *)
WriteFaultDone(s) ==
    call[s].access = "w" /\ (status'.code = "ok" \/ (call'[s] # Idle /\ call'[s].stage = "pin"))

SeenFault(s) ==
    /\ Fault(s) \/ Install(s)
    /\ IF WriteFaultDone(s) THEN Memory!Detach(s, call[s].page) ELSE Unseen

SeenTransfer(s) ==
    /\ Transfer(s)
    /\ IF call[s].op = "write" THEN Memory!Write(s, call[s].page, call[s].val) ELSE Unseen

SeenMmap ==
    LET a == pending.args
    IN  /\ MmapInstall
        /\ Answered(Memory!Map(pending.space, Span(status'.at, a.n),
                               [kind |-> a.kind, obj |-> ObjectOf(a.kind, pending.backing), off |-> a.off,
                                own |-> None, prot |-> a.prot, max |-> a.max], a.mode = "fixed"))

(* The calls on a range of pages. *)
SeenRangeCall(s, p, n) ==
    \/ Munmap(s, p, n) /\ Answered(Memory!Unmap(s, Span(p, n)))
    \/ \E prot \in load.prots : Mprotect(s, p, n, prot) /\ Answered(Memory!Protect(s, Span(p, n), prot))
    \/ \E mode \in {"auto", "hint"}, hint \in Named :
        MappingCopy(s, p, n, mode, hint) /\ Answered(Memory!Copy(s, p, n, status'.at))
    \/ \E n2 \in Lengths, f \in load.remaps, to \in Named :
        /\ Mremap(s, p, n, n2, f, to)
        /\ Answered(Memory!Remap(s, p, n, status'.at, n2, "fixed" \in f, "dontunmap" \in f))
    \/ MemoryCall(s, "dontneed", p, n) /\ Answered(Memory!Drop(s, Span(p, n)))
    \/ \E op \in MemoryOps \ {"dontneed"} : MemoryCall(s, op, p, n) /\ Unseen

MemoryNext ==
    \/ \E s \in Spaces :
        \/ UnseenStep(s) /\ Unseen
        \/ SeenFault(s) \/ SeenTransfer(s)
        \/ \E p \in Named, n \in Lengths : SeenRangeCall(s, p, n)
        \/ \E c \in Spaces : Fork(s, c) /\ Answered(Memory!Fork(s, c))
        \/ Create(s) /\ Answered(Memory!Open(s))
        \/ Destroy(s) /\ Answered(Memory!Close(s))
    \/ MmapValidate /\ Unseen
    \/ SeenMmap
    \/ \E f \in Frames : Evict(f) /\ Unseen
    \/ \E n \in load.sizes : ResizeNote(n) /\ Memory!Resize(n)

MemorySpec == Init /\ Memory!Init(Root) /\ [][MemoryNext]_memoryVars

(***************************************************************************)
(* Properties.                                                             *)
(***************************************************************************)
(* What programs see of their memory is what the calls that returned so far*)
(* promise: no write is lost, put off or seen through another private page,*)
(* a failed call shows nowhere, moved and copied pages arrive whole, and   *)
(* frames, page tables, the TLB, eviction and copy-on-write do not show.   *)
(* An access that is about to copy bytes finds what the page must show.    *)
ImplementsMemory ==
    /\ page = [s \in Spaces |-> IF space[s].open THEN [p \in Pages |-> PageOf(s, p)] ELSE None]
    /\ content = [x \in MemoryObjects |-> [o \in Offsets |-> ContentOf(x, o)]]
    /\ \A s \in Spaces :
        (InAccess(s) /\ call[s].stage = "transfer") =>
            frame[call[s].frame].value = Memory!Shows(page[s][call[s].page])

=============================================================================
