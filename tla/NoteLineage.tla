---------------------------- MODULE NoteLineage -----------------------------
(***************************************************************************)
(* Notes and their copy-on-write lineages (src/note.c).  A copy of a note  *)
(* starts with no pages of its own: it reads the pages of its parent below *)
(* inherited_size until it, or its parent, is about to write one, and then *)
(* gets a page of its own.  The mutex of the lineage serialises all this;  *)
(* the loops that run under it are modelled iteration by iteration, because*)
(* a mapping writes the pages it was given (minimm_note_get_frame) without *)
(* that mutex, references are dropped without it, and any iteration may    *)
(* fail and leave what the earlier ones did.                               *)
(*                                                                         *)
(* Sizes and offsets count pages, which is what note_size_is_valid leaves. *)
(* The content of a page is one value, and the frame of a page is that     *)
(* value: FrameStore shows that residency cannot be observed.  The counter *)
(* references is the set of its holders, threads and copies.  Lineages     *)
(* share nothing, and the copy of an external note holds the locks of both *)
(* of them, so one lock stands for all.  Rights never change and every note*)
(* has all of them.                                                        *)
(*                                                                         *)
(* view is a history variable: what a note has to hold, by what its        *)
(* callers did to it and to nothing else.                                  *)
(***************************************************************************)
EXTENDS Integers, FiniteSetsExt

CONSTANTS
    Notes,          \* note objects; a freed one may be allocated again
    Threads,
    Values, Zero,   \* page contents
    MaxPages,       \* the largest size of a note
    MaxTotal,       \* a bound on the pages of all notes together
    Calls,          \* calls made on notes: "read", "write", "resize"
    Writes,         \* the values written
    Mappers,        \* the threads that map notes
    Contents,       \* contents of the files that notes are opened over
    None

ASSUME ConstantsAssumption ==
    /\ Zero \in Values
    /\ MaxPages \in Nat /\ MaxTotal \in Nat
    /\ Writes \subseteq Values
    /\ Calls \subseteq {"read", "write", "resize"}
    /\ Mappers \subseteq Threads
    /\ Contents \subseteq [0 .. MaxPages - 1 -> Values]
    /\ None \notin Notes \cup Threads \cup Values
    /\ Notes \cap Threads = {}

Pages == 0 .. MaxPages - 1
Sizes == 0 .. MaxPages

VARIABLES
    live, external, size,
    parent, inherited,  \* cow_parent and inherited_size
    holders,            \* references: the threads and the copies that hold the note
    file,               \* what the backing file holds for a page that is not cached
    cached,             \* note->pages
    mappers, escaped,   \* active_mappings, and the pages each mapping was given
    view,
    pc, arg,            \* where a thread is outside the lock, and with which note
    detached,           \* dirty pages of a truncated note that a thread still releases
    lock,               \* the thread inside the lineage lock, and its locals:
    call, step, note, work, page, val, at, todo, scan, limit, new, clean, buf, dest

noteVars == <<live, external, size>>
treeVars == <<parent, inherited>>
pageVars == <<file, cached>>
mapVars == <<mappers, escaped>>
threadVars == <<pc, arg, detached>>
localVars == <<call, step, note, work, page, val, at, todo, scan, limit, new, clean,
               buf, dest>>
vars == <<noteVars, treeVars, holders, pageVars, mapVars, view, threadVars, lock, localVars>>

NoPages == [p \in Pages |-> None]
Zeros == [p \in Pages |-> Zero]

Init ==
    /\ live = {} /\ external = {}
    /\ size = [n \in Notes |-> 0]
    /\ parent = [n \in Notes |-> None]
    /\ inherited = [n \in Notes |-> 0]
    /\ holders = [n \in Notes |-> {}]
    /\ file = [n \in Notes |-> Zeros]
    /\ cached = [n \in Notes |-> NoPages]
    /\ mappers = [n \in Notes |-> {}]
    /\ escaped = [n \in Notes |-> {}]
    /\ view = [n \in Notes |-> Zeros]
    /\ pc = [t \in Threads |-> "idle"]
    /\ arg = [t \in Threads |-> None]
    /\ detached = [t \in Threads |-> NoPages]
    /\ lock = None
    /\ call = "none" /\ step = "none" /\ note = None /\ work = {} /\ page = 0 /\ val = Zero
    /\ at = None /\ todo = {} /\ scan = None /\ limit = 0 /\ new = 0 /\ clean = {} /\ buf = NoPages
    /\ dest = None

-----------------------------------------------------------------------------
Children(n) == {c \in Notes : parent[c] = n}
Smaller(a, b) == IF a < b THEN a ELSE b

\* A thread that holds n calls into the note layer.
Enters(t, n) == lock = None /\ pc[t] = "idle" /\ t \in holders[n]

\* An object the allocator may hand out, and the note it becomes.
IsFree(n) == n \notin live /\ n # dest /\ \A m \in Notes : n \notin holders[m]

\* The bound on the pages of all notes, when n gets the size s.
Fits(n, s) == MapThenSumSet(LAMBDA m : IF m = n THEN s ELSE size[m], Notes) <= MaxTotal

Adopt(n, s, content) ==
    /\ live' = live \cup {n}
    /\ size' = [size EXCEPT ![n] = s]
    /\ file' = [file EXCEPT ![n] = content]

\* The call returns: the lock is free and the locals are gone.
Leave ==
    /\ lock' = None
    /\ call' = "none" /\ step' = "none" /\ note' = None /\ work' = {} /\ page' = 0 /\ val' = Zero
    /\ at' = None /\ todo' = {} /\ scan' = None /\ limit' = 0 /\ new' = 0 /\ clean' = {} /\ buf' = NoPages
    /\ dest' = None

-----------------------------------------------------------------------------
(* Creation and references.                                                *)

Create(t, n, s) ==
    /\ pc[t] = "idle" /\ lock # t
    /\ IsFree(n) /\ Fits(n, s)
    /\ Adopt(n, s, Zeros)
    /\ holders' = [holders EXCEPT ![n] = {t}]
    /\ UNCHANGED <<external, treeVars, cached, mapVars, view, threadVars, lock, localVars>>

\* A note over a file that is already there, with any content up to its size.
OpenFd(t, n, s, content) ==
    /\ pc[t] = "idle" /\ lock # t
    /\ IsFree(n) /\ Fits(n, s)
    /\ \A p \in Pages : p >= s => content[p] = Zero
    /\ Adopt(n, s, content)
    /\ external' = external \cup {n}
    /\ view' = [view EXCEPT ![n] = content]
    /\ holders' = [holders EXCEPT ![n] = {t}]
    /\ UNCHANGED <<treeVars, cached, mapVars, threadVars, lock, localVars>>

\* Seeded fault: a mapped note is copied.
CopyOfMapped(t, n, c) ==
    /\ Enters(t, n)
    /\ n \notin external
    /\ IsFree(c) /\ Fits(c, size[n])
    /\ Adopt(c, size[n], Zeros)
    /\ parent' = [parent EXCEPT ![c] = n]
    /\ inherited' = [inherited EXCEPT ![c] = size[n]]
    /\ holders' = [holders EXCEPT ![n] = @ \cup {c}, ![c] = {t}]
    /\ view' = [view EXCEPT ![c] = view[n]]
    /\ UNCHANGED <<external, cached, mapVars, threadVars, lock, localVars>>

\* Seeded fault: the copy does not retain the note it reads from.
CopyWithoutRetain(t, n, c) ==
    /\ Enters(t, n)
    /\ n \notin external
    /\ mappers[n] = {}
    /\ IsFree(c) /\ Fits(c, size[n])
    /\ Adopt(c, size[n], Zeros)
    /\ parent' = [parent EXCEPT ![c] = n]
    /\ inherited' = [inherited EXCEPT ![c] = size[n]]
    /\ holders' = [holders EXCEPT ![c] = {t}]
    /\ view' = [view EXCEPT ![c] = view[n]]
    /\ UNCHANGED <<external, cached, mapVars, threadVars, lock, localVars>>

\* minimm_note_copy of a note with a temporary file: a child with no pages.
Copy(t, n, c) ==
    /\ Enters(t, n)
    /\ n \notin external
    /\ mappers[n] = {}
    /\ IsFree(c) /\ Fits(c, size[n])
    /\ Adopt(c, size[n], Zeros)
    /\ parent' = [parent EXCEPT ![c] = n]
    /\ inherited' = [inherited EXCEPT ![c] = size[n]]
    /\ holders' = [holders EXCEPT ![n] = @ \cup {c}, ![c] = {t}]
    /\ view' = [view EXCEPT ![c] = view[n]]
    /\ UNCHANGED <<external, cached, mapVars, threadVars, lock, localVars>>

\* Another thread that reaches the note through a holder.
Retain(t, n) ==
    /\ pc[t] = "idle" /\ lock # t
    /\ t \notin holders[n]
    /\ holders[n] \cap Threads # {}
    /\ holders' = [holders EXCEPT ![n] = @ \cup {t}]
    /\ UNCHANGED <<noteVars, treeVars, pageVars, mapVars, view, threadVars, lock, localVars>>

\* The holder h of n gives its reference up, outside the lock.
Decrement(t, n, h) ==
    /\ holders' = [holders EXCEPT ![n] = @ \ {h}]
    /\ pc' = [pc EXCEPT ![t] = IF holders[n] = {h} THEN "drop" ELSE "idle"]
    /\ arg' = [arg EXCEPT ![t] = IF holders[n] = {h} THEN n ELSE None]
    /\ UNCHANGED <<noteVars, treeVars, pageVars, mapVars, view, detached, lock, localVars>>

\* A mapping detaches before it gives its reference up.
Release(t, n) ==
    /\ pc[t] = "idle" /\ lock # t
    /\ t \in holders[n] /\ t \notin mappers[n]
    /\ Decrement(t, n, t)

\* The iteration of minimm_note_release for a note nobody holds, under the
\* lock: it is unlinked from its parent and freed.
Drop(t) ==
    LET n == arg[t] IN
    /\ pc[t] = "drop"
    /\ lock = None
    /\ live' = live \ {n}
    /\ external' = external \ {n}
    /\ size' = [size EXCEPT ![n] = 0]
    /\ parent' = [parent EXCEPT ![n] = None]
    /\ inherited' = [inherited EXCEPT ![n] = 0]
    /\ file' = [file EXCEPT ![n] = Zeros]
    /\ cached' = [cached EXCEPT ![n] = NoPages]
    /\ view' = [view EXCEPT ![n] = Zeros]
    /\ pc' = [pc EXCEPT ![t] = IF parent[n] = None THEN "idle" ELSE "parent"]
    /\ arg' = [arg EXCEPT ![t] = IF parent[n] = None THEN None ELSE n]
    /\ UNCHANGED <<holders, mapVars, detached, lock, localVars>>

\* Then the freed note's reference to its parent goes, outside the lock.
ReleaseParent(t, n) ==
    /\ pc[t] = "parent"
    /\ arg[t] \in holders[n]
    /\ Decrement(t, n, arg[t])

-----------------------------------------------------------------------------
(* Mappings of the note, as mapping_backing.c makes them.                  *)

Attach(t, n) ==
    /\ Enters(t, n)
    /\ t \in Mappers \ mappers[n]
    /\ mappers' = [mappers EXCEPT ![n] = @ \cup {t}]
    /\ UNCHANGED <<noteVars, treeVars, holders, pageVars, escaped, view, threadVars, lock,
                   localVars>>

Detach(t, n) ==
    /\ Enters(t, n)
    /\ t \in mappers[n]
    /\ mappers' = [mappers EXCEPT ![n] = @ \ {t}]
    /\ escaped' = [escaped EXCEPT ![n] = @ \ ({t} \X Pages)]
    /\ UNCHANGED <<noteVars, treeVars, holders, pageVars, view, threadVars, lock, localVars>>

\* A mapping stores to a page it was given; no lock of the note layer is held.
MappedWrite(t, n, p, v) ==
    /\ <<t, p>> \in escaped[n]
    /\ cached' = [cached EXCEPT ![n] = [@ EXCEPT ![p] = v]]
    /\ clean' = IF n = note THEN clean \ {p} ELSE clean
    /\ view' = [view EXCEPT ![n] = [@ EXCEPT ![p] = v]]
    /\ UNCHANGED <<noteVars, treeVars, holders, file, mapVars, threadVars, lock, call, step, note,
                   work, page, val, at, todo, scan, limit, new, buf, dest>>

-----------------------------------------------------------------------------
(* Calls that run under the lock.  work has the pages the call has still to*)
(* go through, page the one it is at.                                      *)

Begin(t, n, k, pages, v, c) ==
    /\ Enters(t, n)
    /\ lock' = t
    /\ call' = k
    /\ step' = "next"
    /\ note' = n
    /\ work' = pages
    /\ val' = v
    /\ dest' = c
    /\ UNCHANGED <<noteVars, treeVars, holders, pageVars, mapVars, view, threadVars, page, at, todo,
                   scan, limit, new, clean, buf>>

\* The pages from first to last, all of them inside the note.
PageRange(first, last) == first .. last

Read(t, n, first, last) ==
    /\ "read" \in Calls
    /\ first <= last /\ last < size[n]
    /\ Begin(t, n, "read", PageRange(first, last), Zero, None)

Write(t, n, first, last, v) ==
    /\ "write" \in Calls
    /\ first <= last /\ last < size[n]
    /\ Begin(t, n, "write", PageRange(first, last), v, None)

\* A fault of a mapping asks for the page it will write.
GetFrame(t, n, p) ==
    /\ t \in mappers[n]
    /\ p < size[n]
    /\ Begin(t, n, "frame", {p}, Zero, None)

\* minimm_note_copy of an external note reads every page into the copy.
CopyExternal(t, n, c) ==
    /\ n \in external
    /\ mappers[n] = {}
    /\ IsFree(c) /\ Fits(c, size[n])
    /\ Begin(t, n, "copy", PageRange(0, size[n] - 1), Zero, c)

Locked == UNCHANGED <<noteVars, treeVars, holders, mapVars, threadVars, lock>>
OnlyStep == Locked /\ UNCHANGED <<pageVars, view>>

NextPage ==
    /\ step = "next"
    /\ work # {}
    /\ page' \in work /\ \A q \in work : page' <= q
    /\ at' = note
    /\ step' = "walk"
    /\ OnlyStep
    /\ UNCHANGED <<call, note, work, val, todo, scan, limit, new, clean, buf, dest>>

\* The loop of get_read_frame: the page of at, else of its parent if inherited,
\* else of the file of at, which is cached first.
IsInherited(n, p) == cached[n][p] = None /\ parent[n] # None /\ p < inherited[n]

WalkUp ==
    /\ step = "walk"
    /\ IsInherited(at, page)
    /\ at' = parent[at]
    /\ OnlyStep
    /\ UNCHANGED <<call, step, note, work, page, val, todo, scan, limit, new, clean, buf, dest>>

CacheBackingPage ==
    /\ step = "walk"
    /\ cached[at][page] = None /\ ~IsInherited(at, page)
    /\ page < size[at]
    /\ cached' = [cached EXCEPT ![at] = [@ EXCEPT ![page] = file[at][page]]]
    /\ Locked
    /\ UNCHANGED <<file, view, localVars>>

\* No memory, no frame, no room in the arena, a failed read, or a page that the
\* owner does not have.
WalkFails ==
    /\ step = "walk"
    /\ cached[at][page] = None /\ ~IsInherited(at, page)
    /\ Leave
    /\ UNCHANGED <<noteVars, treeVars, holders, pageVars, mapVars, view, threadVars>>

\* The frame is found; whoever is about to write goes through the children.
Found ==
    /\ step = "walk"
    /\ cached[at][page] # None
    /\ step' = IF call \in {"read", "copy"} THEN "use" ELSE "preserve"
    /\ todo' = IF call \in {"read", "copy"} THEN {} ELSE Children(note)
    /\ OnlyStep
    /\ UNCHANGED <<call, note, work, page, val, at, scan, limit, new, clean, buf, dest>>

\* One iteration of preserve_children.
MustPreserve(c) == page < inherited[c] /\ cached[c][page] = None

CachedCopy(n) == cached' = [cached EXCEPT ![n] = [@ EXCEPT ![page] = cached[at][page]]]

PreserveChild(c) ==
    /\ step = "preserve"
    /\ c \in todo
    /\ todo' = todo \ {c}
    /\ IF MustPreserve(c) THEN CachedCopy(c) ELSE UNCHANGED cached
    /\ Locked
    /\ UNCHANGED <<file, view, call, step, note, work, page, val, at, scan, limit, new, clean, buf, dest>>

\* Children that were done before keep their pages.
PreserveFails ==
    /\ step = "preserve"
    /\ \E c \in todo : MustPreserve(c)
    /\ Leave
    /\ UNCHANGED <<noteVars, treeVars, holders, pageVars, mapVars, view, threadVars>>

\* All children have the page: the note itself gets one, unless it shrinks.
PreserveDone ==
    /\ step = "preserve"
    /\ todo = {}
    /\ IF call = "shrink"
       THEN step' = "next" /\ work' = work \ {page} /\ UNCHANGED cached
       ELSE /\ step' = "use"
            /\ IF cached[note][page] = None THEN CachedCopy(note) ELSE UNCHANGED cached
            /\ UNCHANGED work
    /\ Locked
    /\ UNCHANGED <<file, view, call, note, page, val, at, todo, scan, limit, new, clean, buf, dest>>

OwnFails ==
    /\ step = "preserve"
    /\ todo = {}
    /\ call # "shrink" /\ cached[note][page] = None
    /\ Leave
    /\ UNCHANGED <<noteVars, treeVars, holders, pageVars, mapVars, view, threadVars>>

-----------------------------------------------------------------------------
(* What a call does with the frame it got.                                 *)

UseRead ==
    /\ step = "use"
    /\ call = "read"
    /\ step' = "next"
    /\ work' = work \ {page}
    /\ OnlyStep
    /\ UNCHANGED <<call, note, page, val, at, todo, scan, limit, new, clean, buf, dest>>

UseCopy ==
    /\ step = "use"
    /\ call = "copy"
    /\ step' = "next"
    /\ work' = work \ {page}
    /\ buf' = [buf EXCEPT ![page] = cached[at][page]]
    /\ OnlyStep
    /\ UNCHANGED <<call, note, page, val, at, todo, scan, limit, new, clean, dest>>

UseWrite ==
    /\ step = "use"
    /\ call = "write"
    /\ step' = "next"
    /\ work' = work \ {page}
    /\ cached' = [cached EXCEPT ![note] = [@ EXCEPT ![page] = val]]
    /\ view' = [view EXCEPT ![note] = [@ EXCEPT ![page] = val]]
    /\ Locked
    /\ UNCHANGED <<file, call, note, page, val, at, todo, scan, limit, new, clean, buf, dest>>

\* The frame leaves with the mapping that asked for it.
UseFrame ==
    /\ step = "use"
    /\ call = "frame"
    /\ escaped' = [escaped EXCEPT ![note] = @ \cup {<<lock, page>>}]
    /\ Leave
    /\ UNCHANGED <<noteVars, treeVars, holders, pageVars, mappers, view, threadVars>>

\* The frame cannot be read or written; pages done before stay done.
UseFails ==
    /\ step = "use"
    /\ call # "frame"
    /\ Leave
    /\ UNCHANGED <<noteVars, treeVars, holders, pageVars, mapVars, view, threadVars>>

Done ==
    /\ step = "next"
    /\ work = {}
    /\ call \in {"read", "write"}
    /\ Leave
    /\ UNCHANGED <<noteVars, treeVars, holders, pageVars, mapVars, view, threadVars>>

\* The copy of an external note becomes a note of a lineage of its own.
CopyDone ==
    /\ step = "next"
    /\ work = {}
    /\ call = "copy"
    /\ Adopt(dest, size[note], Zeros)
    /\ cached' = [cached EXCEPT ![dest] = buf]
    /\ view' = [view EXCEPT ![dest] = view[note]]
    /\ holders' = [holders EXCEPT ![dest] = {lock}]
    /\ Leave
    /\ UNCHANGED <<external, treeVars, mapVars, threadVars>>

-----------------------------------------------------------------------------
(* Resize.                                                                 *)

\* The file grows and reads as zeros there; a failure changes nothing.
Grow(t, n, s) ==
    /\ "resize" \in Calls
    /\ Enters(t, n)
    /\ s > size[n] /\ Fits(n, s)
    /\ size' = [size EXCEPT ![n] = s]
    /\ UNCHANGED <<live, external, treeVars, holders, pageVars, mapVars, view, threadVars, lock,
                   localVars>>

\* A mapped note does not shrink.  The others begin with
\* preserve_truncated_children: scan goes through the owners of the pages that
\* go away and are visible, those below limit.
Shrink(t, n, s) ==
    /\ "resize" \in Calls
    /\ Enters(t, n)
    /\ s < size[n]
    /\ mappers[n] = {}
    /\ lock' = t
    /\ call' = "shrink"
    /\ step' = "scan"
    /\ note' = n
    /\ new' = s
    /\ scan' = n
    /\ limit' = size[n]
    /\ UNCHANGED <<noteVars, treeVars, holders, pageVars, mapVars, view, threadVars, work, page, val,
                   at, todo, clean, buf, dest>>

\* The pages of the owner that some child of the note still inherits.
ScanOwner ==
    /\ step = "scan"
    /\ work' = {p \in new .. limit - 1 :
                    cached[scan][p] # None /\ \E c \in Children(note) : p < inherited[c]}
    /\ step' = "next"
    /\ OnlyStep
    /\ UNCHANGED <<call, note, page, val, at, todo, scan, limit, new, clean, buf, dest>>

\* Seeded fault: the scan goes on without going to the parent.
ScanStays ==
    LET visible == Smaller(limit, inherited[scan]) IN
    /\ step = "next"
    /\ call = "shrink"
    /\ work = {}
    /\ IF parent[scan] # None /\ visible > new
       THEN step' = "scan" /\ scan' = scan /\ limit' = visible
       ELSE step' = "clip" /\ UNCHANGED <<scan, limit>>
    /\ OnlyStep
    /\ UNCHANGED <<call, note, work, page, val, at, todo, new, clean, buf, dest>>

ScanParent ==
    LET visible == Smaller(limit, inherited[scan]) IN
    /\ step = "next"
    /\ call = "shrink"
    /\ work = {}
    /\ IF parent[scan] # None /\ visible > new
       THEN step' = "scan" /\ scan' = parent[scan] /\ limit' = visible
       ELSE step' = "clip" /\ UNCHANGED <<scan, limit>>
    /\ OnlyStep
    /\ UNCHANGED <<call, note, work, page, val, at, todo, new, clean, buf, dest>>

\* The children inherit nothing beyond the new size from here on, whatever
\* happens next, and the pages of the note are written back.
Clip ==
    /\ step = "clip"
    /\ inherited' = [c \in Notes |-> IF c \in Children(note) THEN Smaller(inherited[c], new)
                                     ELSE inherited[c]]
    /\ clean' = {p \in Pages : cached[note][p] # None}
    /\ step' = "truncate"
    /\ UNCHANGED <<noteVars, parent, holders, file, cached, mapVars, view, threadVars, lock, call,
                   note, work, page, val, at, todo, scan, limit, new, buf, dest>>

\* A page cannot be written back.
ClipFails ==
    /\ step = "clip"
    /\ inherited' = [c \in Notes |-> IF c \in Children(note) THEN Smaller(inherited[c], new)
                                     ELSE inherited[c]]
    /\ cached[note] # NoPages
    /\ Leave
    /\ UNCHANGED <<noteVars, parent, holders, file, cached, mapVars, view, threadVars>>

Below(f, s, rest) == [p \in Pages |-> IF p < s THEN f[p] ELSE rest]

\* Seeded fault: the note itself still inherits what it gave up.
TruncateKeepsInherited ==
    /\ step = "truncate"
    /\ size' = [size EXCEPT ![note] = new]
    /\ file' = [file EXCEPT ![note] = Below(@, new, Zero)]
    /\ cached' = [cached EXCEPT ![note] = Below(@, new, None)]
    /\ view' = [view EXCEPT ![note] = Below(@, new, Zero)]
    /\ detached' = [detached EXCEPT ![lock] =
                        [p \in Pages |-> IF p \in clean \/ p < new THEN None ELSE cached[note][p]]]
    /\ pc' = [pc EXCEPT ![lock] = "pages"]
    /\ arg' = [arg EXCEPT ![lock] = note]
    /\ Leave
    /\ UNCHANGED <<live, external, treeVars, holders, mapVars>>

\* The file is cut, the size is set and the pages beyond it leave the note;
\* their frames are released after the lock.
Truncate ==
    /\ step = "truncate"
    /\ size' = [size EXCEPT ![note] = new]
    /\ inherited' = [inherited EXCEPT ![note] = Smaller(@, new)]
    /\ file' = [file EXCEPT ![note] = Below(@, new, Zero)]
    /\ cached' = [cached EXCEPT ![note] = Below(@, new, None)]
    /\ view' = [view EXCEPT ![note] = Below(@, new, Zero)]
    /\ detached' = [detached EXCEPT ![lock] =
                        [p \in Pages |-> IF p \in clean \/ p < new THEN None ELSE cached[note][p]]]
    /\ pc' = [pc EXCEPT ![lock] = "pages"]
    /\ arg' = [arg EXCEPT ![lock] = note]
    /\ Leave
    /\ UNCHANGED <<live, external, parent, holders, mapVars>>

TruncateFails ==
    /\ step = "truncate"
    /\ Leave
    /\ UNCHANGED <<noteVars, treeVars, holders, pageVars, mapVars, view, threadVars>>

\* release_pages after a resize: a dirty frame would still be written to the
\* file of the note.
ReleasePages(t) ==
    /\ pc[t] = "pages"
    /\ file' = [file EXCEPT ![arg[t]] =
                    [p \in Pages |-> IF detached[t][p] # None THEN detached[t][p] ELSE @[p]]]
    /\ detached' = [detached EXCEPT ![t] = NoPages]
    /\ pc' = [pc EXCEPT ![t] = "idle"]
    /\ arg' = [arg EXCEPT ![t] = None]
    /\ UNCHANGED <<noteVars, treeVars, holders, cached, mapVars, view, lock, localVars>>

-----------------------------------------------------------------------------
\* What the thread inside the lock does next.
LockedStep ==
    \/ NextPage \/ WalkUp \/ CacheBackingPage \/ WalkFails \/ Found
    \/ \E c \in Notes : PreserveChild(c)
    \/ PreserveFails \/ PreserveDone \/ OwnFails
    \/ UseRead \/ UseCopy \/ UseWrite \/ UseFrame \/ UseFails \/ Done \/ CopyDone
    \/ ScanOwner \/ ScanParent \/ Clip \/ ClipFails \/ Truncate \/ TruncateFails

Call(t, n) ==
    \/ \E first, last \in Pages :
        Read(t, n, first, last) \/ \E v \in Writes : Write(t, n, first, last, v)
    \/ \E p \in Pages : GetFrame(t, n, p)
    \/ \E s \in Sizes : Grow(t, n, s) \/ Shrink(t, n, s)
    \/ \E c \in Notes : Copy(t, n, c) \/ CopyExternal(t, n, c)
    \/ Attach(t, n) \/ Detach(t, n)

References(t, n) ==
    \/ \E s \in Sizes : Create(t, n, s)
    \/ \E s \in Sizes, content \in Contents : OpenFd(t, n, s, content)
    \/ Retain(t, n) \/ Release(t, n) \/ ReleaseParent(t, n)

Next ==
    \/ LockedStep
    \/ \E t \in Threads, n \in Notes : Call(t, n) \/ References(t, n)
    \/ \E t \in Threads : Drop(t) \/ ReleasePages(t)
    \/ \E t \in Threads, n \in Notes, p \in Pages, v \in Writes : MappedWrite(t, n, p, v)

Spec == Init /\ [][Next]_vars

\* Whoever is inside the lock goes on and comes out, and the lock is fair to a
\* thread that has to free a note.
Fairness ==
    /\ WF_vars(LockedStep)
    /\ \A t \in Threads :
        /\ SF_vars(Drop(t))
        /\ WF_vars(\E n \in Notes : ReleaseParent(t, n))

FairSpec == Spec /\ Fairness

-----------------------------------------------------------------------------
(* Properties.                                                             *)

\* The types, group by group: the family, the pages, the mappings, the threads
\* outside the lock, and the locals of the one inside.
TreeTyped ==
    /\ live \in SUBSET Notes /\ external \in SUBSET Notes
    /\ size \in [Notes -> Sizes]
    /\ parent \in [Notes -> Notes \cup {None}]
    /\ inherited \in [Notes -> Sizes]
    /\ holders \in [Notes -> SUBSET (Threads \cup Notes)]

PagesTyped ==
    /\ file \in [Notes -> [Pages -> Values]]
    /\ cached \in [Notes -> [Pages -> Values \cup {None}]]
    /\ view \in [Notes -> [Pages -> Values]]

MapsTyped ==
    /\ mappers \in [Notes -> SUBSET Threads]
    /\ escaped \in [Notes -> SUBSET (Threads \X Pages)]

ThreadsTyped ==
    /\ pc \in [Threads -> {"idle", "drop", "parent", "pages"}]
    /\ arg \in [Threads -> Notes \cup {None}]
    /\ detached \in [Threads -> [Pages -> Values \cup {None}]]

LocalsTyped ==
    /\ call \in {"none", "read", "write", "frame", "copy", "shrink"}
    /\ step \in {"none", "next", "walk", "preserve", "use", "scan", "clip", "truncate"}
    /\ note \in Notes \cup {None} /\ at \in Notes \cup {None} /\ scan \in Notes \cup {None}
    /\ dest \in Notes \cup {None}
    /\ work \in SUBSET Pages /\ page \in Sizes /\ limit \in Sizes /\ new \in Sizes
    /\ val \in Values
    /\ todo \in SUBSET Notes /\ clean \in SUBSET Pages
    /\ buf \in [Pages -> Values \cup {None}]

TypeOK ==
    /\ TreeTyped /\ PagesTyped /\ MapsTyped /\ ThreadsTyped /\ LocalsTyped
    /\ lock \in Threads \cup {None}

\* A note's page is the cached page, else the parent's where it is inherited,
\* else the file's.
ViewsHold ==
    \A n \in live, p \in Pages :
        IF cached[n][p] # None THEN p < size[n] /\ view[n][p] = cached[n][p]
        ELSE IF IsInherited(n, p) THEN view[n][p] = view[parent[n]][p]
        ELSE view[n][p] = file[n][p]

\* A note's page is what its callers made it, whatever its relatives and their
\* mappings do, wherever it is found.  And the frame that a read returns, or
\* that a writer or a mapping gets, holds the note's page at that moment.
Isolation ==
    /\ ViewsHold
    /\ step = "use" =>
        cached[IF call \in {"read", "copy"} THEN at ELSE note][page] = view[note][page]

\* A note is freed only when it has no child and no mapping left (no abort in
\* note_release), and whoever is inside the lock sees live notes only.
FreedIsUnused ==
    /\ TypeOK
    /\ \A n \in Notes \ live : Children(n) = {} /\ mappers[n] = {}
    /\ \A t \in Threads : pc[t] = "drop" => Children(arg[t]) = {} /\ mappers[arg[t]] = {}
    /\ ({note, at, scan} \ {None}) \cup todo \subseteq live

-----------------------------------------------------------------------------
(* The inductive invariant behind Isolation and FreedIsUnused.             *)

\* A free object is blank.  A child is a reference to its parent, which is not
\* external; only an external note has a file with content of its own.
Family ==
    \A n \in Notes :
        /\ n \notin live => /\ n \notin external /\ holders[n] = {} /\ size[n] = 0
                            /\ cached[n] = NoPages /\ escaped[n] = {}
        /\ parent[n] # None => /\ parent[n] # n /\ {n, parent[n]} \subseteq live \ external
                               /\ n \in holders[parent[n]]
        /\ n \notin external => file[n] = Zeros

\* Nothing lies beyond the size of a note.
WithinSize ==
    \A n \in Notes :
        /\ inherited[n] <= size[n]
        /\ \A p \in Pages : p >= size[n] => view[n][p] = Zero

\* Some child still reads the page p of n.
StillRead(n, p) == \E c \in Children(n) : p < inherited[c] /\ cached[c][p] = None

\* A page that a mapping may write is in the note, and no child reads it there.
EscapedIsPrivate ==
    \A n \in Notes :
        /\ mappers[n] \subseteq holders[n]
        /\ \A t \in Threads, p \in Pages :
            <<t, p>> \in escaped[n] =>
                t \in mappers[n] /\ cached[n][p] # None /\ ~StillRead(n, p)

\* A note is freed by one thread, the last to hold it, and it is not allocated
\* again before its reference to its parent is gone.  What a truncation leaves
\* to be released is clean.
ReleasedOnce ==
    \A t \in Threads :
        /\ pc[t] = "idle" <=> arg[t] = None
        /\ pc[t] = "drop" => arg[t] \in live /\ holders[arg[t]] = {}
        /\ pc[t] = "parent" => /\ arg[t] \notin live /\ arg[t] # dest
                               /\ \E n \in Notes : arg[t] \in holders[n]
        /\ pc[t] \in {"drop", "parent"} =>
            \A u \in Threads : pc[u] \in {"drop", "parent"} /\ arg[u] = arg[t] => u = t
        /\ detached[t] = NoPages

\* The thread inside the lock holds its note.  A copy and a shrink are of a note
\* without mappings, and a frame is for a mapping.
LockHeld ==
    IF lock = None
    THEN /\ call = "none" /\ step = "none" /\ note = None /\ at = None /\ scan = None /\ work = {}
         /\ todo = {} /\ dest = None /\ buf = NoPages
    ELSE /\ call # "none" /\ step # "none"
         /\ pc[lock] = "idle"
         /\ note \in live /\ lock \in holders[note]
         /\ at # None => at \in live
         /\ work \subseteq 0 .. size[note] - 1
         /\ step \in {"walk", "preserve", "use"} => page \in work /\ at # None
         /\ step = "preserve" => call \in {"write", "frame", "shrink"}
         /\ step = "use" => call # "shrink"
         /\ step \in {"scan", "clip", "truncate"} => call = "shrink"
         /\ todo \subseteq Children(note)
         /\ call = "frame" => lock \in mappers[note]
         /\ call \in {"copy", "shrink"} => mappers[note] = {}
         /\ call # "copy" => dest = None
         /\ call # "shrink" => scan = None

\* Where a walk has come to, the page is that of the note, and no mapping can
\* write it there; a page about to be written is the note's own.
WalkIsRight ==
    /\ step \in {"walk", "preserve"} \/ (step = "use" /\ call \in {"read", "copy"}) =>
        /\ view[at][page] = view[note][page]
        /\ at # note => cached[note][page] = None /\ StillRead(at, page)
        /\ step # "walk" => cached[at][page] # None
    /\ step = "preserve" =>
        \A c \in Children(note) \ todo : page < inherited[c] => cached[c][page] # None
    /\ step = "use" /\ call \in {"write", "frame"} =>
        cached[note][page] # None /\ ~StillRead(note, page)

\* The copy of an external note is not yet a note, and has the pages done so far.
CopyIsRight ==
    call = "copy" =>
        /\ dest \in Notes \ live
        /\ \A n \in Notes : dest \notin holders[n]
        /\ \A p \in Pages :
            /\ p >= size[note] => buf[p] = None
            /\ p < size[note] /\ p \notin work => buf[p] = view[note][p]

\* A page that goes away and that a child still reads is that of the owner the
\* scan has come to, or is about to be saved, or is zero, as the child's file is.
ScanCovers(p) ==
    /\ step = "scan" /\ p < limit =>
        view[note][p] = view[scan][p] /\ (scan = note \/ StillRead(scan, p))
    /\ step \in {"next", "walk", "preserve"} /\ p < limit /\ p \notin work =>
        view[note][p] = view[scan][p] /\ cached[scan][p] = None
    /\ step = "clip" \/ p >= limit => view[note][p] = Zero

ShrinkIsRight ==
    call = "shrink" =>
        /\ new < size[note] /\ limit <= size[note]
        /\ scan \in live /\ (scan = note \/ scan \notin external)
        /\ \A p \in Pages : p >= new /\ StillRead(note, p) => ScanCovers(p)
        /\ step = "truncate" => /\ clean = {p \in Pages : cached[note][p] # None}
                                /\ \A c \in Children(note) : inherited[c] <= new

NotesInv == Family /\ WithinSize /\ EscapedIsPrivate /\ ReleasedOnce /\ ViewsHold

LocalsInv == LockHeld /\ WalkIsRight /\ CopyIsRight /\ ShrinkIsRight

\* The notes and the thread inside the lock are as the loops of note.c need them;
\* Isolation and FreedIsUnused follow.
Inv == TypeOK /\ NotesInv /\ LocalsInv

\* A call under the lock ends, for the walks along the parents are finite, and so
\* does the cascade of releases along the parents.
CallsEnd ==
    /\ lock # None ~> lock = None
    /\ \A t \in Threads : pc[t] = "drop" ~> pc[t] = "idle"

=============================================================================
