------------------------- MODULE NoteLineageSafety --------------------------
(***************************************************************************)
(* The part of the induction about the thread inside the lock, and what    *)
(* follows from both: notes are isolated from their relatives, and none is *)
(* freed while anything refers to it.                                      *)
(***************************************************************************)
EXTENDS NoteLineagePages

USE DEF noteVars, treeVars, pageVars, mapVars, threadVars, localVars

-----------------------------------------------------------------------------
(* Steps that change nothing the locals speak of.                          *)

\* A call that returns leaves no locals.
LEMMA LocalsLeave ==
    ASSUME Leave
    PROVE  LocalsInv'
<1>1. LockHeld'
  BY Zenon DEF Leave, LockHeld
<1>2. WalkIsRight' /\ CopyIsRight' /\ ShrinkIsRight'
  BY Zenon DEF Leave, WalkIsRight, CopyIsRight, ShrinkIsRight
<1> QED BY Zenon, <1>1, <1>2 DEF LocalsInv

\* Nor are there any while nobody is inside the lock.
LEMMA LocalsFree ==
    ASSUME Inv, lock = None, UNCHANGED <<lock, localVars>>
    PROVE  LocalsInv'
<1>1. LockHeld'
  BY Zenon DEF Inv, LocalsInv, LockHeld
<1>2. call' = "none" /\ step' = "none"
  BY Zenon DEF Inv, LocalsInv, LockHeld
<1>3. WalkIsRight' /\ CopyIsRight' /\ ShrinkIsRight'
  BY Zenon, <1>2 DEF WalkIsRight, CopyIsRight, ShrinkIsRight
<1> QED BY Zenon, <1>1, <1>3 DEF LocalsInv

\* A step outside the lock that creates a note or moves references.
Outside ==
    /\ live \subseteq live'
    /\ \A m \in live : /\ size'[m] = size[m] /\ cached'[m] = cached[m] /\ view'[m] = view[m]
                       /\ m \in external' <=> m \in external
    /\ lock # None => pc'[lock] = pc[lock] /\ (lock \in holders[note] => lock \in holders'[note])
    /\ dest \in Notes \ live => dest \in Notes \ live'
    /\ \A m \in Notes : dest \in Notes /\ dest \in holders'[m] => dest \in holders[m]
    /\ UNCHANGED <<treeVars, mapVars, lock, localVars>>

\* What is done outside the lock leaves the thread inside undisturbed.
LEMMA LocalsOutside ==
    ASSUME Inv, Outside
    PROVE  LocalsInv'
<1>1. CASE lock = None
  BY Zenon, <1>1, LocalsFree DEF Outside
<1>2. CASE lock # None
  <2>1. /\ note \in Notes /\ note \in live
        /\ at # None => at \in live
        /\ UNCHANGED <<treeVars, mapVars, lock, localVars>>
    BY Zenon, <1>2, ConstantsAssumption DEF Outside, Inv, TypeOK, TreeTyped, LocalsInv, LockHeld
  <2>2. \A m \in live : size'[m] = size[m] /\ cached'[m] = cached[m] /\ view'[m] = view[m]
    BY Zenon DEF Outside
  <2>3. \A m \in Notes : Children(m)' = Children(m) /\ Children(m) \subseteq live
    BY <2>1, ConstantsAssumption DEF Children, Inv, NotesInv, Family
  <2>4. \A m \in Notes, p \in Pages : StillRead(m, p)' <=> StillRead(m, p)
    BY Zenon, <2>1, <2>2, <2>3 DEF StillRead
  <2>5. LockHeld'
    <3>1. LockHeld
      BY Zenon DEF Inv, LocalsInv
    <3>2. note \in live' /\ lock \in holders'[note] /\ pc'[lock] = pc[lock]
      BY Zenon, <1>2, <2>1, <3>1 DEF Outside, LockHeld
    <3>3. (at # None => at \in live') /\ size'[note] = size[note]
      BY Zenon, <2>1, <2>2 DEF Outside
    <3> QED BY Zenon, <1>2, <2>1, <2>3, <3>1, <3>2, <3>3 DEF LockHeld
  <2>6. WalkIsRight'
    <3>1. step \in {"walk", "preserve", "use"} => at \in live /\ at \in Notes /\ page \in Pages
      BY Zenon, Inside
    <3>2. WalkIsRight
      BY Zenon DEF Inv, LocalsInv
    <3>3. \A c \in Children(note) : cached'[c] = cached[c]
      BY Zenon, <2>1, <2>2, <2>3
    <3> QED BY Zenon, <2>1, <2>2, <2>3, <2>4, <3>1, <3>2, <3>3 DEF WalkIsRight
  <2>7. CopyIsRight'
    <3>1. CopyIsRight
      BY Zenon DEF Inv, LocalsInv
    <3> QED BY <2>1, <2>2, <3>1 DEF Outside, CopyIsRight
  <2>8. ShrinkIsRight'
    <3>1. ShrinkIsRight
      BY Zenon DEF Inv, LocalsInv
    <3>2. CASE call # "shrink"
      BY Zenon, <2>1, <3>2 DEF ShrinkIsRight
    <3>3. CASE call = "shrink"
      <4>1. scan \in live /\ scan \in Notes
        BY Zenon, <3>1, <3>3 DEF ShrinkIsRight, Inv, TypeOK, TreeTyped
      <4>2. \A p \in Pages : ScanCovers(p) => ScanCovers(p)'
        BY Zenon, <2>1, <2>2, <2>4, <4>1 DEF ScanCovers
      <4>3. scan = note \/ scan \notin external'
        BY Zenon, <3>1, <3>3, <4>1 DEF ShrinkIsRight, Outside
      <4>4. \A p \in Pages : p >= new /\ StillRead(note, p)' => ScanCovers(p)'
        BY Zenon, <2>1, <2>4, <3>1, <3>3, <4>2 DEF ShrinkIsRight
      <4>5. step = "truncate" => /\ clean = {p \in Pages : cached'[note][p] # None}
                                 /\ \A c \in Children(note)' : inherited[c] <= new
        BY Zenon, <2>1, <2>2, <2>3, <3>1, <3>3 DEF ShrinkIsRight
      <4>6. new < size'[note] /\ limit <= size'[note] /\ scan \in live'
        BY Zenon, <2>1, <2>2, <3>1, <3>3, <4>1 DEF ShrinkIsRight, Outside
      <4> QED BY Zenon, <2>1, <4>3, <4>4, <4>5, <4>6 DEF ShrinkIsRight
    <3> QED BY Zenon, <3>2, <3>3
  <2> QED BY Zenon, <2>5, <2>6, <2>7, <2>8 DEF LocalsInv
<1> QED BY Zenon, <1>1, <1>2

\* The steps of other threads that do not need the lock.
LEMMA LocalsReferences ==
    ASSUME Inv, NEW t \in Threads, NEW n \in Notes,
           \/ \E s \in Sizes : Create(t, n, s)
           \/ \E s \in Sizes, content \in Contents : OpenFd(t, n, s, content)
           \/ Retain(t, n) \/ Release(t, n) \/ ReleaseParent(t, n)
    PROVE  LocalsInv'
<1>1. /\ live \subseteq Notes /\ Notes \cap Threads = {} /\ None \notin Notes \cup Threads
      /\ lock # None => /\ lock \in Threads /\ pc[lock] = "idle" /\ note \in Notes /\ note \in live
  BY Zenon, ConstantsAssumption DEF Inv, TypeOK, TreeTyped, LocalsInv, LockHeld
<1>2. /\ size \in [Notes -> Sizes] /\ view \in [Notes -> [Pages -> Values]]
      /\ holders \in [Notes -> SUBSET (Threads \cup Notes)] /\ pc \in [Threads -> {"idle", "drop", "parent", "pages"}]
  BY Zenon DEF Inv, TypeOK, TreeTyped, PagesTyped, ThreadsTyped
<1>3. ASSUME NEW s \in Sizes, Create(t, n, s)
      PROVE  Outside
  BY Zenon, <1>1, <1>2, <1>3 DEF Create, Adopt, IsFree, Outside
<1>4. ASSUME NEW s \in Sizes, NEW content \in Contents, OpenFd(t, n, s, content)
      PROVE  Outside
  BY Zenon, <1>1, <1>2, <1>4 DEF OpenFd, Adopt, IsFree, Outside
<1>5. ASSUME Retain(t, n)
      PROVE  Outside
  <2>1. UNCHANGED <<noteVars, treeVars, cached, mapVars, view, pc, lock, localVars>>
    BY Zenon, <1>5 DEF Retain
  <2>2. \A m \in Notes : holders[m] \subseteq holders'[m] /\ holders'[m] \subseteq holders[m] \cup {t}
    BY Zenon, <1>2, <1>5 DEF Retain
  <2>3. /\ lock # None => pc'[lock] = pc[lock] /\ (lock \in holders[note] => lock \in holders'[note])
        /\ \A m \in Notes : dest \in Notes /\ dest \in holders'[m] => dest \in holders[m]
    BY Zenon, <1>1, <2>1, <2>2
  <2> QED BY Zenon, <2>1, <2>3 DEF Outside
<1>6. ASSUME Release(t, n)
      PROVE  Outside
  <2>1. UNCHANGED <<noteVars, treeVars, cached, mapVars, view, lock, localVars>>
    BY Zenon, <1>6 DEF Release, Decrement
  <2>2. \A m \in Notes : holders'[m] \subseteq holders[m] /\ holders[m] \subseteq holders'[m] \cup {t}
    BY Zenon, <1>2, <1>6 DEF Release, Decrement
  <2>3. lock # t /\ (lock # None => pc'[lock] = pc[lock])
    BY Zenon, <1>1, <1>2, <1>6 DEF Release, Decrement
  <2>4. /\ lock # None => pc'[lock] = pc[lock] /\ (lock \in holders[note] => lock \in holders'[note])
        /\ \A m \in Notes : dest \in Notes /\ dest \in holders'[m] => dest \in holders[m]
    BY Zenon, <1>1, <2>2, <2>3
  <2> QED BY Zenon, <2>1, <2>4 DEF Outside
<1>7. ASSUME ReleaseParent(t, n)
      PROVE  Outside
  <2>1. UNCHANGED <<noteVars, treeVars, cached, mapVars, view, lock, localVars>>
    BY Zenon, <1>7 DEF ReleaseParent, Decrement
  <2>2. arg[t] \in Notes
    BY Zenon, <1>7, ConstantsAssumption DEF ReleaseParent, Inv, TypeOK, ThreadsTyped, NotesInv,
                                            ReleasedOnce
  <2>3. \A m \in Notes : holders'[m] \subseteq holders[m] /\ holders[m] \subseteq holders'[m] \cup {arg[t]}
    BY Zenon, <1>2, <1>7 DEF ReleaseParent, Decrement
  <2>4. t # lock /\ (lock # None => pc'[lock] = pc[lock])
    BY Zenon, <1>1, <1>2, <1>7 DEF ReleaseParent, Decrement
  <2>5. /\ lock # None => pc'[lock] = pc[lock] /\ (lock \in holders[note] => lock \in holders'[note])
        /\ \A m \in Notes : dest \in Notes /\ dest \in holders'[m] => dest \in holders[m]
    BY Zenon, <1>1, <2>2, <2>3, <2>4
  <2> QED BY Zenon, <2>1, <2>5 DEF Outside
<1> QED BY Zenon, <1>3, <1>4, <1>5, <1>6, <1>7, LocalsOutside

\* The pages a truncation detached are released after the lock.
LEMMA LocalsReleasePages ==
    ASSUME Inv, NEW t \in Threads, ReleasePages(t)
    PROVE  LocalsInv'
<1>1. lock # None => lock \in Threads /\ pc[lock] = "idle"
  BY Zenon DEF Inv, TypeOK, LocalsInv, LockHeld
<1>2. lock # None => pc'[lock] = pc[lock]
  BY <1>1 DEF ReleasePages, Inv, TypeOK
<1>3. Outside
  BY Zenon, <1>2 DEF ReleasePages, Outside
<1> QED BY Zenon, <1>3, LocalsOutside

\* The steps that need the lock to be free, and leave it free.
LEMMA LocalsUnlocked ==
    ASSUME Inv,
           \/ \E t \in Threads : Drop(t)
           \/ \E t \in Threads, n \in Notes :
                \/ Attach(t, n) \/ Detach(t, n)
                \/ \E s \in Sizes : Grow(t, n, s)
                \/ \E c \in Notes : Copy(t, n, c)
    PROVE  LocalsInv'
<1>1. lock = None /\ UNCHANGED <<lock, localVars>>
  BY DEF Drop, Attach, Detach, Grow, Copy, Enters
<1> QED BY Zenon, <1>1, LocalsFree

-----------------------------------------------------------------------------
(* A call begins.                                                          *)

\* A call enters the lock on a note that its thread holds.
LEMMA LocalsBegin ==
    ASSUME Inv, NEW t \in Threads, NEW n \in Notes, NEW k \in {"read", "write", "frame", "copy"},
           NEW pages \in SUBSET (0 .. size[n] - 1), NEW v \in Values, NEW c \in Notes \cup {None},
           Begin(t, n, k, pages, v, c),
           k = "frame" => t \in mappers[n],
           k # "copy" => c = None,
           k = "copy" => /\ mappers[n] = {} /\ c \in Notes /\ IsFree(c)
                         /\ pages = 0 .. size[n] - 1
    PROVE  LocalsInv'
<1>1. /\ lock = None /\ at = None /\ todo = {} /\ scan = None /\ buf = NoPages
      /\ pc[t] = "idle" /\ t \in holders[n] /\ t # None
  BY Zenon, ConstantsAssumption DEF Begin, Enters, Inv, LocalsInv, LockHeld
<1>2. n \in live
  BY Zenon, <1>1, FreeIsBlank
<1>3. /\ lock' = t /\ call' = k /\ step' = "next" /\ note' = n /\ work' = pages /\ dest' = c
      /\ at' = None /\ todo' = {} /\ scan' = None /\ buf' = NoPages
      /\ UNCHANGED <<noteVars, holders, mapVars, view, pc>>
  BY Zenon, <1>1 DEF Begin
<1>4. LockHeld'
  BY Zenon, <1>1, <1>2, <1>3 DEF LockHeld
<1>5. CopyIsRight'
  <2> SUFFICES ASSUME k = "copy"
               PROVE  /\ c \in Notes \ live
                      /\ \A m \in Notes : c \notin holders[m]
                      /\ \A p \in Pages : /\ p >= size[n] => NoPages[p] = None
                                          /\ p < size[n] /\ p \notin pages => NoPages[p] = view[n][p]
    BY Zenon, <1>3 DEF CopyIsRight
  <2>1. \A p \in Pages : p < size[n] => p \in pages
    BY ConstantsAssumption DEF Inv, TypeOK, TreeTyped, Sizes, Pages
  <2> QED BY Zenon, <2>1 DEF IsFree, NoPages
<1>6. WalkIsRight' /\ ShrinkIsRight'
  BY Zenon, <1>3 DEF WalkIsRight, ShrinkIsRight
<1> QED BY Zenon, <1>4, <1>5, <1>6 DEF LocalsInv

\* A read, a write, a frame for a mapping or a copy of an external note begins.
LEMMA LocalsCalls ==
    ASSUME Inv, NEW t \in Threads, NEW n \in Notes,
           \/ \E first, last \in Pages :
                Read(t, n, first, last) \/ \E v \in Writes : Write(t, n, first, last, v)
           \/ \E p \in Pages : GetFrame(t, n, p)
           \/ \E c \in Notes : CopyExternal(t, n, c)
    PROVE  LocalsInv'
<1>1. /\ size[n] \in Int /\ Pages \subseteq Nat
      /\ Zero \in Values /\ Writes \subseteq Values
  BY ConstantsAssumption DEF Pages, Inv, TypeOK, TreeTyped, Sizes
<1>2. ASSUME NEW first \in Pages, NEW last \in Pages, Read(t, n, first, last)
      PROVE  LocalsInv'
  <2>1. PageRange(first, last) \in SUBSET (0 .. size[n] - 1)
    BY <1>1, <1>2 DEF Read, PageRange
  <2>2. Begin(t, n, "read", PageRange(first, last), Zero, None)
    BY Zenon, <1>2 DEF Read
  <2> QED BY Zenon, <1>1, <2>1, <2>2, LocalsBegin
<1>3. ASSUME NEW first \in Pages, NEW last \in Pages, NEW v \in Writes, Write(t, n, first, last, v)
      PROVE  LocalsInv'
  <2>1. PageRange(first, last) \in SUBSET (0 .. size[n] - 1)
    BY <1>1, <1>3 DEF Write, PageRange
  <2>2. Begin(t, n, "write", PageRange(first, last), v, None)
    BY Zenon, <1>3 DEF Write
  <2> QED BY Zenon, <1>1, <2>1, <2>2, LocalsBegin
<1>4. ASSUME NEW p \in Pages, GetFrame(t, n, p)
      PROVE  LocalsInv'
  <2>1. {p} \in SUBSET (0 .. size[n] - 1)
    BY <1>1, <1>4 DEF GetFrame
  <2>2. Begin(t, n, "frame", {p}, Zero, None) /\ t \in mappers[n]
    BY Zenon, <1>4 DEF GetFrame
  <2> QED BY Zenon, <1>1, <2>1, <2>2, LocalsBegin
<1>5. ASSUME NEW c \in Notes, CopyExternal(t, n, c)
      PROVE  LocalsInv'
  <2>1. PageRange(0, size[n] - 1) = 0 .. size[n] - 1
    BY Zenon DEF PageRange
  <2>2. Begin(t, n, "copy", 0 .. size[n] - 1, Zero, c) /\ mappers[n] = {} /\ IsFree(c)
    BY Zenon, <1>5, <2>1 DEF CopyExternal
  <2> QED BY Zenon, <1>1, <2>2, LocalsBegin
<1> QED BY Zenon, <1>2, <1>3, <1>4, <1>5

\* A shrinking resize begins: no page is dealt with yet.
LEMMA LocalsShrink ==
    ASSUME Inv, NEW t \in Threads, NEW n \in Notes, NEW s \in Sizes, Shrink(t, n, s)
    PROVE  LocalsInv'
<1>1. /\ lock = None /\ at = None /\ todo = {} /\ dest = None /\ work = {}
      /\ pc[t] = "idle" /\ t \in holders[n] /\ t # None
  BY Zenon, ConstantsAssumption DEF Shrink, Enters, Inv, LocalsInv, LockHeld
<1>2. n \in live
  BY Zenon, <1>1, FreeIsBlank
<1>3. /\ lock' = t /\ call' = "shrink" /\ step' = "scan" /\ note' = n /\ work' = {} /\ dest' = None
      /\ at' = None /\ todo' = {} /\ scan' = n /\ limit' = size[n] /\ new' = s
      /\ s < size[n] /\ mappers[n] = {}
      /\ UNCHANGED <<noteVars, treeVars, holders, pageVars, mapVars, view, pc>>
  BY Zenon, <1>1 DEF Shrink
<1>4. LockHeld'
  BY Zenon, <1>1, <1>2, <1>3 DEF LockHeld
<1>5. ShrinkIsRight'
  <2>1. \A p \in Pages : ScanCovers(p)'
    BY Zenon, <1>3 DEF ScanCovers, Inv, NotesInv, WithinSize
  <2>2. size[n] <= size[n]
    BY ConstantsAssumption DEF Inv, TypeOK, TreeTyped, Sizes
  <2> QED BY Zenon, <1>2, <1>3, <2>1, <2>2 DEF ShrinkIsRight
<1>6. WalkIsRight' /\ CopyIsRight'
  BY Zenon, <1>3 DEF WalkIsRight, CopyIsRight
<1> QED BY Zenon, <1>4, <1>5, <1>6 DEF LocalsInv

-----------------------------------------------------------------------------
(* Steps of the walk.                                                      *)

\* Pages of the notes appear, and only those the call is at work on.
SavesPages ==
    \A m \in Notes, p \in Pages :
        cached'[m][p] # cached[m][p] => p \in work /\ cached'[m][p] # None

\* What the scan has left to be saved stays covered while the walk goes on.
LEMMA ShrinkGoesOn ==
    ASSUME Inv, Locked, SavesPages, UNCHANGED <<view, call, note, work, scan, limit, new, clean>>,
           step \in {"next", "walk", "preserve"}, step' \in {"next", "walk", "preserve"}
    PROVE  ShrinkIsRight'
<1>1. note \in Notes /\ ShrinkIsRight
  BY Zenon, Inside DEF Inv, LocalsInv
<1>2. CASE call = "shrink"
  <2>1. scan \in Notes
    BY Zenon, <1>1, <1>2 DEF ShrinkIsRight, Inv, TypeOK, TreeTyped
  <2>2. \A p \in Pages : StillRead(note, p)' => StillRead(note, p)
    BY Zenon DEF StillRead, Children, Locked, SavesPages
  <2>3. \A p \in Pages : ScanCovers(p) => ScanCovers(p)'
    BY Zenon, <2>1 DEF ScanCovers, Locked, SavesPages
  <2> QED BY Zenon, <1>1, <2>2, <2>3 DEF ShrinkIsRight, Locked
<1>3. CASE call # "shrink"
  BY Zenon, <1>3 DEF ShrinkIsRight
<1> QED BY Zenon, <1>2, <1>3

\* A step of the walk that caches and writes nothing keeps what the shrink knows.
LEMMA ShrinkStays ==
    ASSUME Inv, OnlyStep, UNCHANGED <<call, note, work, scan, limit, new, clean>>,
           step \in {"next", "walk", "preserve"}, step' \in {"next", "walk", "preserve"}
    PROVE  ShrinkIsRight'
BY Zenon, ShrinkGoesOn DEF OnlyStep, SavesPages

\* The next page: the walk begins at the note itself.
LEMMA LocalsNextPage ==
    ASSUME Inv, NextPage
    PROVE  LocalsInv'
<1>1. note \in Notes /\ note \in live /\ note # None /\ LocalsInv
  BY Zenon, Inside, ConstantsAssumption DEF NextPage, Inv
<1>2. LockHeld'
  BY Zenon, <1>1 DEF NextPage, OnlyStep, Locked, LocalsInv, LockHeld, Children
<1>3. WalkIsRight'
  BY Zenon DEF NextPage, OnlyStep, Locked, WalkIsRight
<1>4. CopyIsRight'
  BY Zenon, <1>1 DEF NextPage, OnlyStep, Locked, LocalsInv, CopyIsRight
<1>5. ShrinkIsRight'
  BY Zenon, ShrinkStays DEF NextPage
<1> QED BY Zenon, <1>2, <1>3, <1>4, <1>5 DEF LocalsInv

\* A page that is inherited is the parent's, and the child that inherits it
\* keeps mappings from writing it there.
LEMMA LocalsWalkUp ==
    ASSUME Inv, WalkUp
    PROVE  LocalsInv'
<1>1. /\ step = "walk" /\ at \in Notes /\ at \in live /\ page \in Pages /\ LocalsInv
      /\ cached[at][page] = None /\ parent[at] # None /\ page < inherited[at]
  BY Zenon, Inside DEF WalkUp, Inv, IsInherited
<1>2. parent[at] \in Notes /\ parent[at] \in live /\ parent[at] # None
  BY Zenon, <1>1, ConstantsAssumption DEF Inv, TypeOK, TreeTyped, NotesInv, Family
<1>3. view[parent[at]][page] = view[note][page]
  <2>1. view[at][page] = view[parent[at]][page]
    BY Zenon, <1>1 DEF Inv, NotesInv, ViewsHold, IsInherited
  <2> QED BY Zenon, <1>1, <2>1 DEF LocalsInv, WalkIsRight
<1>4. StillRead(parent[at], page)
  BY Zenon, <1>1 DEF StillRead, Children
<1>5. cached[note][page] = None
  BY Zenon, <1>1 DEF LocalsInv, WalkIsRight
<1>6. /\ at' = parent[at] /\ step' = "walk" /\ UNCHANGED <<note, page, work, lock, call, todo, dest, scan>>
      /\ UNCHANGED <<noteVars, treeVars, holders, cached, mapVars, view, pc>>
  BY Zenon, <1>1 DEF WalkUp, OnlyStep, Locked
<1>7. LockHeld'
  BY Zenon, <1>1, <1>2, <1>6 DEF LocalsInv, LockHeld, Children
<1>8. WalkIsRight'
  <2>1. StillRead(at, page)'
    BY Zenon, <1>4, <1>6 DEF StillRead, Children
  <2> QED BY Zenon, <1>3, <1>5, <1>6, <2>1 DEF WalkIsRight
<1>9. CopyIsRight'
  BY Zenon, <1>1 DEF WalkUp, OnlyStep, Locked, LocalsInv, CopyIsRight
<1>10. ShrinkIsRight'
  BY Zenon, ShrinkStays DEF WalkUp
<1> QED BY Zenon, <1>7, <1>8, <1>9, <1>10 DEF LocalsInv

\* The frame is found: a reader uses it, a writer goes through the children.
LEMMA LocalsFound ==
    ASSUME Inv, Found
    PROVE  LocalsInv'
<1>1. step = "walk" /\ note \in Notes /\ LocalsInv /\ cached[at][page] # None
  BY Zenon, Inside DEF Found, Inv
<1>2. /\ step' = IF call \in {"read", "copy"} THEN "use" ELSE "preserve"
      /\ todo' = IF call \in {"read", "copy"} THEN {} ELSE Children(note)
      /\ UNCHANGED <<call, note, page, at, work, lock, dest, scan>>
      /\ UNCHANGED <<noteVars, treeVars, holders, cached, mapVars, view, pc>>
  BY Zenon DEF Found, OnlyStep, Locked
<1>3. lock # None /\ call \in {"read", "write", "frame", "copy", "shrink"}
  BY Zenon, <1>1 DEF LocalsInv, LockHeld, Inv, TypeOK, LocalsTyped
<1>4. LockHeld'
  BY Zenon, <1>1, <1>2, <1>3 DEF LocalsInv, LockHeld, Children
<1>5. WalkIsRight'
  <2>1. StillRead(at, page)' <=> StillRead(at, page)
    BY Zenon, <1>2 DEF StillRead, Children
  <2>2. /\ view[at][page] = view[note][page]
        /\ at # note => cached[note][page] = None /\ StillRead(at, page)
    BY Zenon, <1>1 DEF LocalsInv, WalkIsRight
  <2>3. Children(note)' = Children(note)
    BY Zenon, <1>2 DEF Children
  <2> QED BY Zenon, <1>1, <1>2, <2>1, <2>2, <2>3 DEF WalkIsRight
<1>6. CopyIsRight'
  BY Zenon, <1>1 DEF Found, OnlyStep, Locked, LocalsInv, CopyIsRight
<1>7. ShrinkIsRight'
  <2>1. CASE call = "shrink"
    BY Zenon, <1>1, <2>1, ShrinkStays DEF Found
  <2>2. CASE call # "shrink"
    BY Zenon, <1>2, <2>2 DEF ShrinkIsRight
  <2> QED BY Zenon, <2>1, <2>2
<1> QED BY Zenon, <1>4, <1>5, <1>6, <1>7 DEF LocalsInv

\* The read of one page at the ancestor the walk has come to.
LEMMA LocalsUseRead ==
    ASSUME Inv, UseRead
    PROVE  LocalsInv'
<1>1. LocalsInv
  BY Zenon DEF Inv
<1>2. LockHeld'
  BY Zenon, <1>1 DEF UseRead, OnlyStep, Locked, LocalsInv, LockHeld, Children
<1>3. WalkIsRight' /\ CopyIsRight' /\ ShrinkIsRight'
  BY Zenon DEF UseRead, WalkIsRight, CopyIsRight, ShrinkIsRight
<1> QED BY Zenon, <1>2, <1>3 DEF LocalsInv

\* A copied page is the note's.
LEMMA LocalsUseCopy ==
    ASSUME Inv, UseCopy
    PROVE  LocalsInv'
<1>1. /\ step = "use" /\ call = "copy" /\ LocalsInv /\ at \in live /\ page \in Pages
      /\ page < size[note] /\ note \in Notes
  BY Zenon, Inside DEF UseCopy, Inv
<1>2. cached[at][page] = view[note][page]
  BY Zenon, <1>1 DEF LocalsInv, WalkIsRight, Inv, NotesInv, ViewsHold
<1>3. LockHeld'
  BY Zenon, <1>1 DEF UseCopy, OnlyStep, Locked, LocalsInv, LockHeld, Children
<1>4. CopyIsRight'
  <2>1. /\ buf'[page] = view[note][page]
        /\ \A p \in Pages \ {page} : buf'[p] = buf[p]
        /\ work' = work \ {page}
        /\ UNCHANGED <<call, dest, live, holders, size, note, view>>
    BY Zenon, <1>1, <1>2 DEF UseCopy, OnlyStep, Locked, Inv, TypeOK, LocalsTyped
  <2>2. CopyIsRight
    BY Zenon, <1>1 DEF LocalsInv
  <2>3. size[note] \in Int /\ page \in Int
    BY <1>1, ConstantsAssumption DEF Inv, TypeOK, TreeTyped, Sizes, Pages
  <2>4. ~(page >= size[note])
    BY <1>1, <2>3
  <2> QED BY Zenon, <1>1, <2>1, <2>2, <2>4 DEF CopyIsRight
<1>5. WalkIsRight' /\ ShrinkIsRight'
  BY Zenon, <1>1 DEF UseCopy, WalkIsRight, ShrinkIsRight
<1> QED BY Zenon, <1>3, <1>4, <1>5 DEF LocalsInv

-----------------------------------------------------------------------------
(* Steps that change pages.                                                *)

\* A page of the file is cached where the walk has come to.
LEMMA LocalsCacheBackingPage ==
    ASSUME Inv, CacheBackingPage
    PROVE  LocalsInv'
<1>1. /\ step = "walk" /\ at \in Notes /\ at \in live /\ page \in Pages /\ page \in work
      /\ note \in Notes /\ LocalsInv
  BY Zenon, Inside DEF CacheBackingPage, Inv
<1>2. /\ \A m \in Notes, p \in Pages : m # at \/ p # page => cached'[m][p] = cached[m][p]
      /\ cached'[at][page] # None
      /\ Locked /\ UNCHANGED <<view, localVars>>
  <2>1. /\ cached'[at] = [cached[at] EXCEPT ![page] = file[at][page]]
        /\ \A m \in Notes \ {at} : cached'[m] = cached[m]
        /\ cached[at] \in [Pages -> Values \cup {None}]
    BY Zenon, <1>1 DEF CacheBackingPage, Inv, TypeOK, PagesTyped
  <2>2. file[at][page] # None
    BY <1>1, ConstantsAssumption DEF Inv, TypeOK, PagesTyped
  <2>3. Locked /\ UNCHANGED <<view, localVars>>
    BY Zenon DEF CacheBackingPage
  <2> QED BY Zenon, <1>1, <2>1, <2>2, <2>3
<1>3. LockHeld'
  BY Zenon, <1>1, <1>2 DEF Locked, LocalsInv, LockHeld, Children
<1>4. WalkIsRight'
  <2>1. /\ view[at][page] = view[note][page]
        /\ at # note => cached[note][page] = None /\ StillRead(at, page)
    BY Zenon, <1>1 DEF LocalsInv, WalkIsRight
  <2>2. ASSUME at # note
        PROVE  StillRead(at, page)'
    <3>1. PICK c \in Children(at) : page < inherited[c] /\ cached[c][page] = None
      BY Zenon, <2>1, <2>2 DEF StillRead
    <3>2. c # at
      BY Zenon, <1>1, <3>1, ConstantsAssumption DEF CacheBackingPage, IsInherited, Children
    <3> QED BY Zenon, <1>1, <1>2, <3>1, <3>2 DEF StillRead, Children, Locked
  <2>3. at # note => cached'[note][page] = None
    BY Zenon, <1>1, <1>2, <2>1
  <2> QED BY Zenon, <1>1, <1>2, <2>1, <2>2, <2>3 DEF WalkIsRight
<1>5. CopyIsRight'
  BY Zenon, <1>1, <1>2 DEF Locked, LocalsInv, CopyIsRight
<1>6. ShrinkIsRight'
  <2>1. SavesPages
    BY Zenon, <1>1, <1>2 DEF SavesPages
  <2> QED BY Zenon, <1>1, <1>2, <2>1, ShrinkGoesOn
<1> QED BY Zenon, <1>3, <1>4, <1>5, <1>6 DEF LocalsInv

\* A child gets its page; the others wait.
LEMMA LocalsPreserveChild ==
    ASSUME Inv, NEW c \in Notes, PreserveChild(c)
    PROVE  LocalsInv'
<1>1. /\ step = "preserve" /\ at \in Notes /\ at \in live /\ page \in Pages /\ page \in work
      /\ note \in Notes /\ LocalsInv /\ c \in Children(note) /\ cached[at][page] # None
  BY Zenon, Inside DEF PreserveChild, Inv, LocalsInv, LockHeld, WalkIsRight
<1>2. /\ \A m \in Notes, p \in Pages : m # c \/ p # page => cached'[m][p] = cached[m][p]
      /\ cached[c][page] # None => cached'[c][page] # None
      /\ page < inherited[c] => cached'[c][page] # None
  <2>1. CASE MustPreserve(c)
    <3>1. /\ cached'[c] = [cached[c] EXCEPT ![page] = cached[at][page]]
          /\ \A m \in Notes \ {c} : cached'[m] = cached[m]
          /\ cached[c] \in [Pages -> Values \cup {None}]
      BY Zenon, <2>1 DEF PreserveChild, CachedCopy, Inv, TypeOK, PagesTyped
    <3> QED BY Zenon, <1>1, <3>1
  <2>2. CASE ~MustPreserve(c)
    BY Zenon, <2>2 DEF PreserveChild, MustPreserve
  <2> QED BY Zenon, <2>1, <2>2
<1>3. /\ todo' = todo \ {c}
      /\ Locked
      /\ UNCHANGED <<view, call, step, note, work, page, at, scan, limit, new, clean, buf, dest>>
  BY Zenon DEF PreserveChild
<1>4. LockHeld'
  BY Zenon, <1>1, <1>3 DEF Locked, LocalsInv, LockHeld, Children
<1>5. WalkIsRight'
  <2>1. /\ view[at][page] = view[note][page]
        /\ at # note => cached[note][page] = None /\ StillRead(at, page)
    BY Zenon, <1>1 DEF LocalsInv, WalkIsRight
  <2>2. parent[c] = note /\ c # note
    BY <1>1, ConstantsAssumption DEF Children, Inv, NotesInv, Family
  <2>3. at # note => StillRead(at, page)'
    BY Zenon, <1>1, <1>2, <1>3, <2>1, <2>2 DEF StillRead, Children, Locked
  <2>4. cached'[at][page] # None /\ cached'[note][page] = cached[note][page]
    BY Zenon, <1>1, <1>2, <2>2
  <2>5. \A d \in Children(note) \ todo' : page < inherited[d] => cached'[d][page] # None
    BY Zenon, <1>1, <1>2, <1>3 DEF LocalsInv, WalkIsRight, Children
  <2>6. Children(note)' = Children(note)
    BY Zenon, <1>3 DEF Children, Locked
  <2> QED BY Zenon, <1>1, <1>3, <2>1, <2>3, <2>4, <2>5, <2>6 DEF WalkIsRight, Locked
<1>6. CopyIsRight'
  BY Zenon, <1>1, <1>3 DEF Locked, LocalsInv, CopyIsRight
<1>7. ShrinkIsRight'
  <2>1. SavesPages
    BY Zenon, <1>1, <1>2 DEF SavesPages, PreserveChild, MustPreserve
  <2> QED BY Zenon, <1>1, <1>3, <2>1, ShrinkGoesOn
<1> QED BY Zenon, <1>4, <1>5, <1>6, <1>7 DEF LocalsInv

\* All children have the page: nobody reads it in the note any more.
LEMMA LocalsPreserveDone ==
    ASSUME Inv, PreserveDone
    PROVE  LocalsInv'
<1>1. /\ step = "preserve" /\ page \in Pages /\ page \in work /\ todo = {}
      /\ note \in Notes /\ LocalsInv /\ cached[at][page] # None
      /\ Locked /\ UNCHANGED <<view, call, note, page, at, todo, scan, limit, new, clean, buf, dest>>
  BY Zenon, Inside DEF PreserveDone, Inv, LocalsInv, WalkIsRight
<1>2. ~StillRead(note, page)
  BY Zenon, <1>1 DEF StillRead, LocalsInv, WalkIsRight
<1>3. CASE call = "shrink"
  <2>1. step' = "next" /\ work' = work \ {page} /\ cached' = cached
    BY Zenon, <1>3 DEF PreserveDone
  <2>2. LockHeld'
    BY Zenon, <1>1, <1>3, <2>1 DEF Locked, LocalsInv, LockHeld, Children
  <2>3. WalkIsRight' /\ CopyIsRight'
    BY Zenon, <1>1, <1>3, <2>1 DEF WalkIsRight, CopyIsRight
  <2>4. ShrinkIsRight'
    <3>1. \A p \in Pages : StillRead(note, p)' <=> StillRead(note, p)
      BY Zenon, <1>1, <2>1 DEF StillRead, Children, Locked
    <3>2. \A p \in Pages : p # page /\ ScanCovers(p) => ScanCovers(p)'
      BY Zenon, <1>1, <2>1 DEF ScanCovers, Locked
    <3>3. ShrinkIsRight
      BY Zenon, <1>1 DEF LocalsInv
    <3> QED BY Zenon, <1>1, <1>2, <1>3, <2>1, <3>1, <3>2, <3>3 DEF ShrinkIsRight, Locked
  <2> QED BY Zenon, <2>2, <2>3, <2>4 DEF LocalsInv
<1>4. CASE call # "shrink"
  <2>1. step' = "use" /\ work' = work
    BY Zenon, <1>4 DEF PreserveDone
  <2>2. call \in {"write", "frame"}
    BY Zenon, <1>1, <1>4 DEF LocalsInv, LockHeld, Inv, TypeOK
  <2>3. /\ cached'[note][page] # None
        /\ \A m \in Notes : cached[m][page] # None => cached'[m][page] # None
    <3>1. CASE cached[note][page] = None
      <4>1. /\ cached'[note] = [cached[note] EXCEPT ![page] = cached[at][page]]
            /\ \A m \in Notes \ {note} : cached'[m] = cached[m]
            /\ cached[note] \in [Pages -> Values \cup {None}]
        BY Zenon, <1>1, <1>4, <3>1 DEF PreserveDone, CachedCopy, Inv, TypeOK, PagesTyped
      <4> QED BY Zenon, <1>1, <4>1
    <3>2. CASE cached[note][page] # None
      BY Zenon, <1>4, <3>2 DEF PreserveDone
    <3> QED BY Zenon, <3>1, <3>2
  <2>4. LockHeld'
    BY Zenon, <1>1, <1>4, <2>1, <2>2 DEF Locked, LocalsInv, LockHeld, Children
  <2>5. WalkIsRight'
    <3>1. ~StillRead(note, page)'
      BY Zenon, <1>1, <1>2, <2>3 DEF StillRead, Children, Locked
    <3> QED BY Zenon, <1>1, <2>1, <2>2, <2>3, <3>1 DEF WalkIsRight
  <2>6. CopyIsRight' /\ ShrinkIsRight'
    BY Zenon, <1>1, <2>2 DEF CopyIsRight, ShrinkIsRight
  <2> QED BY Zenon, <2>4, <2>5, <2>6 DEF LocalsInv
<1> QED BY Zenon, <1>3, <1>4

\* The write of one page.
LEMMA LocalsUseWrite ==
    ASSUME Inv, UseWrite
    PROVE  LocalsInv'
<1>1. LocalsInv
  BY Zenon DEF Inv
<1>2. LockHeld'
  BY Zenon, <1>1 DEF UseWrite, Locked, LocalsInv, LockHeld, Children
<1>3. step' = "next" /\ call' = "write"
  BY Zenon DEF UseWrite
<1>4. WalkIsRight' /\ CopyIsRight' /\ ShrinkIsRight'
  BY Zenon, <1>3 DEF WalkIsRight, CopyIsRight, ShrinkIsRight
<1> QED BY Zenon, <1>2, <1>4 DEF LocalsInv

-----------------------------------------------------------------------------
(* The scan of a shrink.                                                   *)

\* The pages the owner has and a child reads are those to be saved.
LEMMA LocalsScanOwner ==
    ASSUME Inv, ScanOwner
    PROVE  LocalsInv'
<1>1. step = "scan" /\ call = "shrink" /\ note \in Notes /\ LocalsInv /\ ShrinkIsRight
  BY Zenon, Inside DEF ScanOwner, Inv, LocalsInv, LockHeld
<1>2. /\ step' = "next"
      /\ \A p \in Pages : p \in work' <=>
            /\ p >= new /\ p < limit /\ cached[scan][p] # None
            /\ \E c \in Children(note) : p < inherited[c]
      /\ UNCHANGED <<call, note, page, at, todo, scan, limit, new, clean, dest, lock>>
      /\ UNCHANGED <<noteVars, treeVars, holders, cached, mapVars, view, pc>>
  BY ConstantsAssumption DEF ScanOwner, OnlyStep, Locked, Inv, TypeOK, LocalsTyped, Sizes, Pages
<1>3. work' \subseteq 0 .. size[note] - 1
  <2>1. /\ new \in Nat /\ limit \in Int /\ size[note] \in Int /\ limit <= size[note]
    BY <1>1, ConstantsAssumption DEF ShrinkIsRight, Inv, TypeOK, TreeTyped, LocalsTyped, Sizes
  <2>2. work' \subseteq new .. limit - 1
    BY Zenon DEF ScanOwner
  <2> QED BY <2>1, <2>2
<1>4. LockHeld'
  BY Zenon, <1>1, <1>2, <1>3 DEF LocalsInv, LockHeld, Children
<1>5. WalkIsRight' /\ CopyIsRight'
  BY Zenon, <1>1, <1>2 DEF WalkIsRight, CopyIsRight
<1>6. ShrinkIsRight'
  <2>1. ASSUME NEW p \in Pages, p >= new, StillRead(note, p)
        PROVE  ScanCovers(p)'
    <3>1. ScanCovers(p)
      BY Zenon, <1>1, <2>1 DEF ShrinkIsRight
    <3>2. \E c \in Children(note) : p < inherited[c]
      BY Zenon, <2>1 DEF StillRead
    <3> QED BY Zenon, <1>1, <1>2, <2>1, <3>1, <3>2 DEF ScanCovers
  <2>2. \A p \in Pages : StillRead(note, p)' <=> StillRead(note, p)
    BY Zenon, <1>2 DEF StillRead, Children
  <2> QED BY Zenon, <1>1, <1>2, <2>1, <2>2 DEF ShrinkIsRight
<1> QED BY Zenon, <1>4, <1>5, <1>6 DEF LocalsInv

\* The scan goes on to the parent with what is inherited from it; what is not
\* was never written, and reads as zero.
LEMMA LocalsScanParent ==
    ASSUME Inv, ScanParent
    PROVE  LocalsInv'
<1> DEFINE visible == Smaller(limit, inherited[scan])
<1>1. /\ step = "next" /\ call = "shrink" /\ work = {} /\ note \in Notes /\ note \in live
      /\ LocalsInv /\ ShrinkIsRight /\ scan \in live /\ scan \in Notes
  BY Zenon, Inside DEF ScanParent, Inv, TypeOK, TreeTyped, LocalsInv, ShrinkIsRight
<1>2. /\ limit \in Int /\ new \in Int /\ inherited[scan] \in Int /\ visible \in Int
      /\ size[note] \in Int /\ visible <= limit /\ Pages \subseteq Int
  BY <1>1, ConstantsAssumption DEF Inv, TypeOK, TreeTyped, LocalsTyped, Sizes, Smaller, Pages
<1>3. /\ IF parent[scan] # None /\ visible > new
         THEN step' = "scan" /\ scan' = parent[scan] /\ limit' = visible
         ELSE step' = "clip" /\ scan' = scan /\ limit' = limit
      /\ UNCHANGED <<call, note, work, page, at, todo, new, clean, dest, lock>>
      /\ UNCHANGED <<noteVars, treeVars, holders, cached, mapVars, view, pc>>
  BY Zenon, <1>1 DEF ScanParent, OnlyStep, Locked
<1>4. ASSUME NEW p \in Pages, p >= new, StillRead(note, p)
      PROVE  /\ p < limit => cached[scan][p] = None /\ view[note][p] = view[scan][p]
             /\ p >= limit => view[note][p] = Zero
             /\ p < limit /\ (parent[scan] = None \/ p >= inherited[scan]) => view[note][p] = Zero
  <2>1. ScanCovers(p)
    BY Zenon, <1>1, <1>4 DEF ShrinkIsRight
  <2>2. /\ p < limit => cached[scan][p] = None /\ view[note][p] = view[scan][p]
        /\ p >= limit => view[note][p] = Zero
    BY Zenon, <1>1, <2>1 DEF ScanCovers
  <2>3. scan \notin external
    <3>1. note \notin external
      BY <1>1, <1>4, ConstantsAssumption DEF StillRead, Children, Inv, NotesInv, Family
    <3> QED BY Zenon, <1>1, <3>1 DEF ShrinkIsRight
  <2>4. file[scan][p] = Zero
    BY <1>1, <2>3 DEF Inv, NotesInv, Family, Zeros
  <2>5. ASSUME p < limit, parent[scan] = None \/ p >= inherited[scan]
        PROVE  view[note][p] = Zero
    <3>1. ~IsInherited(scan, p)
      BY <1>2, <2>5 DEF IsInherited
    <3> QED BY Zenon, <1>1, <2>2, <2>4, <2>5, <3>1 DEF Inv, NotesInv, ViewsHold
  <2> QED BY Zenon, <2>2, <2>5
<1>5. \A p \in Pages : StillRead(note, p)' <=> StillRead(note, p)
  BY Zenon, <1>3 DEF StillRead, Children
<1>6. LockHeld'
  BY Zenon, <1>1, <1>3 DEF LocalsInv, LockHeld, Children
<1>7. WalkIsRight' /\ CopyIsRight'
  BY Zenon, <1>1, <1>3 DEF WalkIsRight, CopyIsRight
<1>8. CASE parent[scan] # None /\ visible > new
  <2>1. /\ step' = "scan" /\ scan' = parent[scan] /\ limit' = visible
        /\ parent[scan] \in live /\ parent[scan] \in Notes /\ parent[scan] \notin external
    BY Zenon, <1>1, <1>3, <1>8 DEF Inv, TypeOK, TreeTyped, NotesInv, Family
  <2>2. ASSUME NEW p \in Pages, p >= new, StillRead(note, p)
        PROVE  ScanCovers(p)'
    <3>1. CASE p < visible
      <4>1. p < limit /\ p < inherited[scan] /\ ~(p >= visible)
        BY <1>2, <3>1 DEF Smaller
      <4>2. cached[scan][p] = None /\ view[note][p] = view[scan][p]
        BY Zenon, <1>4, <2>2, <4>1
      <4>3. view[scan][p] = view[parent[scan]][p]
        BY Zenon, <1>1, <1>8, <4>1, <4>2 DEF Inv, NotesInv, ViewsHold, IsInherited
      <4>4. StillRead(parent[scan], p)
        BY Zenon, <1>1, <4>1, <4>2 DEF StillRead, Children
      <4>5. StillRead(scan, p)'
        BY Zenon, <1>3, <2>1, <4>4 DEF StillRead, Children
      <4> QED BY Zenon, <1>3, <2>1, <4>1, <4>2, <4>3, <4>5 DEF ScanCovers
    <3>2. CASE ~(p < visible)
      <4>1. p >= limit \/ (p < limit /\ p >= inherited[scan])
        BY <1>2, <3>2 DEF Smaller
      <4>2. view[note][p] = Zero
        BY Zenon, <1>4, <2>2, <4>1
      <4> QED BY Zenon, <1>3, <2>1, <3>2, <4>2 DEF ScanCovers
    <3> QED BY Zenon, <3>1, <3>2
  <2>3. visible <= size[note]
    BY <1>1, <1>2 DEF ShrinkIsRight
  <2> QED BY Zenon, <1>1, <1>3, <1>5, <1>6, <1>7, <2>1, <2>2, <2>3 DEF ShrinkIsRight, LocalsInv
<1>9. CASE ~(parent[scan] # None /\ visible > new)
  <2>1. step' = "clip" /\ scan' = scan /\ limit' = limit
    BY Zenon, <1>3, <1>9
  <2>2. ASSUME NEW p \in Pages, p >= new, StillRead(note, p)
        PROVE  ScanCovers(p)'
    <3>1. p >= limit \/ (p < limit /\ (parent[scan] = None \/ p >= inherited[scan]))
      BY <1>2, <1>9, <2>2 DEF Smaller
    <3>2. view[note][p] = Zero
      BY Zenon, <1>4, <2>2, <3>1
    <3> QED BY Zenon, <1>3, <2>1, <3>2 DEF ScanCovers
  <2> QED BY Zenon, <1>1, <1>3, <1>5, <1>6, <1>7, <2>1, <2>2 DEF ShrinkIsRight, LocalsInv
<1> QED BY Zenon, <1>8, <1>9

\* From here on no child reads a page that goes away.
LEMMA LocalsClip ==
    ASSUME Inv, Clip
    PROVE  LocalsInv'
<1>1. step = "clip" /\ call = "shrink" /\ note \in Notes /\ LocalsInv /\ ShrinkIsRight
  BY Zenon, Inside DEF Clip, Inv, LocalsInv, LockHeld
<1>2. /\ step' = "truncate" /\ clean' = {p \in Pages : cached[note][p] # None}
      /\ UNCHANGED <<call, note, work, page, at, todo, scan, limit, new, dest, lock>>
      /\ UNCHANGED <<noteVars, parent, holders, cached, mapVars, view, pc>>
  BY Zenon DEF Clip
<1>3. \A c \in Children(note) : inherited'[c] <= new /\ inherited'[c] \in Int
  BY ConstantsAssumption DEF Clip, Children, Smaller, Inv, TypeOK, TreeTyped, LocalsTyped, Sizes
<1>4. LockHeld'
  BY Zenon, <1>1, <1>2 DEF LocalsInv, LockHeld, Children
<1>5. WalkIsRight' /\ CopyIsRight'
  BY Zenon, <1>1, <1>2 DEF WalkIsRight, CopyIsRight
<1>6. ShrinkIsRight'
  <2>1. Children(note)' = Children(note)
    BY Zenon, <1>2 DEF Children
  <2>2. \A p \in Pages : p >= new => ~StillRead(note, p)'
    <3>1. new \in Int /\ Pages \subseteq Int
      BY ConstantsAssumption DEF Inv, TypeOK, LocalsTyped, Sizes, Pages
    <3>2. \A p \in Pages, c \in Children(note) : p >= new => ~(p < inherited'[c])
      BY <1>3, <3>1
    <3>3. note' = note
      BY Zenon, <1>2
    <3> QED BY Zenon, <2>1, <3>2, <3>3 DEF StillRead
  <2> QED BY Zenon, <1>1, <1>2, <1>3, <2>1, <2>2 DEF ShrinkIsRight
<1> QED BY Zenon, <1>4, <1>5, <1>6 DEF LocalsInv

-----------------------------------------------------------------------------
(* A mapping writes while somebody else is inside the lock.                *)

\* The page is neither the one the walk has come to, nor one a scan counts on:
\* a child still reads those, or they are in no note yet.
LEMMA LocalsMappedWrite ==
    ASSUME Inv, NEW t \in Threads, NEW n \in Notes, NEW p \in Pages, NEW v \in Writes,
           MappedWrite(t, n, p, v)
    PROVE  LocalsInv'
<1>1. cached[n][p] # None /\ ~StillRead(n, p) /\ mappers[n] # {} /\ LocalsInv
  BY Zenon DEF MappedWrite, Inv, NotesInv, EscapedIsPrivate
<1>2. /\ \A m \in Notes, q \in Pages : m # n \/ q # p => /\ cached'[m][q] = cached[m][q]
                                                         /\ view'[m][q] = view[m][q]
      /\ cached'[n][p] # None
      /\ \A m \in Notes : m # n => cached'[m] = cached[m] /\ view'[m] = view[m]
  <2>1. /\ cached'[n] = [cached[n] EXCEPT ![p] = v] /\ view'[n] = [view[n] EXCEPT ![p] = v]
        /\ \A m \in Notes \ {n} : cached'[m] = cached[m] /\ view'[m] = view[m]
        /\ cached[n] \in [Pages -> Values \cup {None}] /\ view[n] \in [Pages -> Values]
    BY Zenon DEF MappedWrite, Inv, TypeOK, PagesTyped
  <2>2. v # None
    BY Zenon, ConstantsAssumption
  <2> QED BY <2>1, <2>2
<1>3. /\ UNCHANGED <<lock, call, step, note, work, page, at, todo, scan, limit, new, buf, dest>>
      /\ UNCHANGED <<noteVars, treeVars, holders, mapVars, pc>>
      /\ n # note => clean' = clean
  BY Zenon DEF MappedWrite
<1>4. \A m \in Notes, q \in Pages : /\ cached'[m][q] = None <=> cached[m][q] = None
                                    /\ StillRead(m, q)' <=> StillRead(m, q)
  <2>1. \A m \in Notes, q \in Pages : cached'[m][q] = None <=> cached[m][q] = None
    BY Zenon, <1>1, <1>2
  <2> QED BY Zenon, <1>3, <2>1 DEF StillRead, Children
<1>5. LockHeld'
  BY Zenon, <1>1, <1>3 DEF LocalsInv, LockHeld, Children
<1>6. step # "none" => note \in Notes
  BY Zenon, Inside
<1>7. WalkIsRight'
  <2>1. CASE step \in {"walk", "preserve", "use"}
    <3>1. at \in Notes /\ note \in Notes /\ page \in Pages
      BY Zenon, <2>1, Inside
    <3>2. WalkIsRight
      BY Zenon, <1>1 DEF LocalsInv
    <3>3. ASSUME view[at][page] = view[note][page],
                 at # note => cached[note][page] = None /\ StillRead(at, page)
          PROVE  view'[at][page] = view'[note][page]
      <4>1. CASE at = note
        BY Zenon, <4>1
      <4>2. CASE at # note
        <5>1. ~(at = n /\ page = p) /\ ~(note = n /\ page = p)
          BY Zenon, <1>1, <3>3, <4>2
        <5> QED BY Zenon, <1>2, <3>1, <3>3, <5>1
      <4> QED BY Zenon, <4>1, <4>2
    <3>4. /\ cached'[at][page] = None <=> cached[at][page] = None
          /\ cached'[note][page] = None <=> cached[note][page] = None
          /\ StillRead(at, page)' <=> StillRead(at, page)
          /\ StillRead(note, page)' <=> StillRead(note, page)
      BY Zenon, <1>3, <1>4, <3>1
    <3>5. /\ Children(note)' = Children(note)
          /\ \A c \in Children(note) : cached'[c][page] = None <=> cached[c][page] = None
      BY Zenon, <1>3, <1>4, <3>1 DEF Children
    <3> QED BY Zenon, <1>3, <3>2, <3>3, <3>4, <3>5 DEF WalkIsRight
  <2>2. CASE step \notin {"walk", "preserve", "use"}
    BY Zenon, <1>3, <2>2 DEF WalkIsRight
  <2> QED BY Zenon, <2>1, <2>2
<1>8. call \in {"copy", "shrink"} => /\ n # note /\ note \in Notes
                                     /\ cached'[note] = cached[note] /\ view'[note] = view[note]
  <2>1. call \in {"copy", "shrink"} => mappers[note] = {} /\ step # "none"
    BY Zenon, <1>1 DEF LocalsInv, LockHeld
  <2> QED BY Zenon, <1>1, <1>2, <1>6, <2>1
<1>9. CopyIsRight'
  BY Zenon, <1>1, <1>3, <1>8 DEF LocalsInv, CopyIsRight
<1>10. ShrinkIsRight'
  <2>1. CASE call = "shrink"
    <3>1. ShrinkIsRight /\ scan \in Notes /\ note \in Notes
      BY Zenon, <1>1, <1>8, <2>1 DEF LocalsInv, ShrinkIsRight, Inv, TypeOK, TreeTyped
    <3>2. ASSUME NEW q \in Pages, ScanCovers(q)
          PROVE  ScanCovers(q)'
      <4>1. view'[note][q] = view[note][q]
        BY Zenon, <1>8, <2>1
      <4>2. scan = note \/ StillRead(scan, q) \/ cached[scan][q] = None => view'[scan][q] = view[scan][q]
        BY Zenon, <1>1, <1>2, <1>8, <2>1, <3>1
      <4>3. /\ cached'[scan][q] = None <=> cached[scan][q] = None
            /\ StillRead(scan, q)' <=> StillRead(scan, q)
        BY Zenon, <1>3, <1>4, <3>1
      <4> QED BY Zenon, <1>3, <3>2, <4>1, <4>2, <4>3 DEF ScanCovers
    <3>3. \A q \in Pages : StillRead(note, q)' <=> StillRead(note, q)
      BY Zenon, <1>3, <1>4, <3>1
    <3>4. Children(note)' = Children(note)
      BY Zenon, <1>3 DEF Children
    <3> QED BY Zenon, <1>3, <1>8, <2>1, <3>1, <3>2, <3>3, <3>4 DEF ShrinkIsRight
  <2>2. CASE call # "shrink"
    BY Zenon, <1>3, <2>2 DEF ShrinkIsRight
  <2> QED BY Zenon, <2>1, <2>2
<1> QED BY Zenon, <1>5, <1>7, <1>9, <1>10 DEF LocalsInv

-----------------------------------------------------------------------------
(* The invariant, and what follows from it.                                *)

\* The invariant holds while no note exists.
LEMMA InitInv ==
    ASSUME Init
    PROVE  Inv
<1>1. TypeOK
  BY ConstantsAssumption DEF Init, TypeOK, TreeTyped, PagesTyped, MapsTyped, ThreadsTyped,
                             LocalsTyped, Zeros, NoPages, Sizes, Pages
<1>2. Family /\ WithinSize /\ EscapedIsPrivate /\ ReleasedOnce /\ ViewsHold
  BY ConstantsAssumption
     DEF Init, Family, WithinSize, EscapedIsPrivate, ReleasedOnce, ViewsHold, Zeros
<1>3. LocalsInv
  BY Zenon DEF Init, LocalsInv, LockHeld, WalkIsRight, CopyIsRight, ShrinkIsRight
<1> QED BY Zenon, <1>1, <1>2, <1>3 DEF Inv, NotesInv

\* The thread inside the lock.
LEMMA LockedStepInv ==
    ASSUME Inv, LockedStep
    PROVE  Inv'
<1>1. CASE NextPage
  BY Zenon, <1>1, NotesSteps, LocalsNextPage DEF Inv
<1>2. CASE WalkUp
  BY Zenon, <1>2, NotesSteps, LocalsWalkUp DEF Inv
<1>3. CASE CacheBackingPage
  BY Zenon, <1>3, NotesCacheBackingPage, LocalsCacheBackingPage DEF Inv
<1>4. CASE WalkFails \/ PreserveFails \/ OwnFails \/ UseFails \/ Done \/ TruncateFails
  <2>1. /\ Leave
        /\ UNCHANGED <<noteVars, treeVars, holders, pageVars, mapVars, view, threadVars>>
    BY Zenon, <1>4 DEF WalkFails, PreserveFails, OwnFails, UseFails, Done, TruncateFails
  <2> QED BY Zenon, <2>1, NotesLeave, LocalsLeave DEF Inv
<1>5. CASE Found
  BY Zenon, <1>5, NotesSteps, LocalsFound DEF Inv
<1>6. ASSUME NEW c \in Notes, PreserveChild(c)
      PROVE  Inv'
  BY Zenon, <1>6, NotesPreserveChild, LocalsPreserveChild DEF Inv
<1>7. CASE PreserveDone
  BY Zenon, <1>7, NotesPreserveDone, LocalsPreserveDone DEF Inv
<1>8. CASE UseRead
  BY Zenon, <1>8, NotesSteps, LocalsUseRead DEF Inv
<1>9. CASE UseCopy
  BY Zenon, <1>9, NotesSteps, LocalsUseCopy DEF Inv
<1>10. CASE UseWrite
  BY Zenon, <1>10, NotesUseWrite, LocalsUseWrite DEF Inv
<1>11. CASE UseFrame
  <2>1. Leave
    BY Zenon, <1>11 DEF UseFrame
  <2> QED BY Zenon, <1>11, <2>1, NotesUseFrame, LocalsLeave DEF Inv
<1>12. CASE CopyDone
  <2>1. Leave
    BY Zenon, <1>12 DEF CopyDone
  <2> QED BY Zenon, <1>12, <2>1, NotesCopyDone, LocalsLeave DEF Inv
<1>13. CASE ScanOwner
  BY Zenon, <1>13, NotesSteps, LocalsScanOwner DEF Inv
<1>14. CASE ScanParent
  BY Zenon, <1>14, NotesSteps, LocalsScanParent DEF Inv
<1>15. CASE Clip
  BY Zenon, <1>15, NotesClip, LocalsClip DEF Inv
<1>16. CASE ClipFails
  <2>1. Leave
    BY Zenon, <1>16 DEF ClipFails
  <2> QED BY Zenon, <1>16, <2>1, NotesClip, LocalsLeave DEF Inv
<1>17. CASE Truncate
  <2>1. Leave
    BY Zenon, <1>17 DEF Truncate
  <2> QED BY Zenon, <1>17, <2>1, NotesTruncate, LocalsLeave DEF Inv
<1> QED BY Zenon, <1>1, <1>2, <1>3, <1>4, <1>5, <1>6, <1>7, <1>8, <1>9, <1>10, <1>11, <1>12,
           <1>13, <1>14, <1>15, <1>16, <1>17 DEF LockedStep

\* The threads outside it.
LEMMA CallInv ==
    ASSUME Inv, NEW t \in Threads, NEW n \in Notes, Call(t, n)
    PROVE  Inv'
<1>1. CASE \/ \E first, last \in Pages :
                Read(t, n, first, last) \/ \E v \in Writes : Write(t, n, first, last, v)
           \/ \E p \in Pages : GetFrame(t, n, p)
           \/ \E c \in Notes : CopyExternal(t, n, c)
  BY Zenon, <1>1, NotesCalls, LocalsCalls DEF Inv
<1>2. ASSUME NEW s \in Sizes, Grow(t, n, s)
      PROVE  Inv'
  BY Zenon, <1>2, NotesGrow, LocalsUnlocked DEF Inv
<1>3. ASSUME NEW s \in Sizes, Shrink(t, n, s)
      PROVE  Inv'
  BY Zenon, <1>3, NotesShrink, LocalsShrink DEF Inv
<1>4. ASSUME NEW c \in Notes, Copy(t, n, c)
      PROVE  Inv'
  BY Zenon, <1>4, NotesCopy, LocalsUnlocked DEF Inv
<1>5. CASE Attach(t, n)
  BY Zenon, <1>5, NotesAttach, LocalsUnlocked DEF Inv
<1>6. CASE Detach(t, n)
  BY Zenon, <1>6, NotesDetach, LocalsUnlocked DEF Inv
<1> QED BY Zenon, <1>1, <1>2, <1>3, <1>4, <1>5, <1>6 DEF Call

\* Creation, references and their release keep the invariant.
LEMMA ReferencesInv ==
    ASSUME Inv, NEW t \in Threads, NEW n \in Notes, References(t, n)
    PROVE  Inv'
<1>1. LocalsInv'
  BY Zenon, LocalsReferences DEF References
<1>2. TypeOK' /\ NotesInv'
  BY Zenon, NotesCreate, NotesOpenFd, NotesRetain, NotesRelease, NotesReleaseParent DEF References
<1> QED BY Zenon, <1>1, <1>2 DEF Inv

\* Every step keeps the invariant.
LEMMA NextInv ==
    ASSUME Inv, [Next]_vars
    PROVE  Inv'
<1>1. CASE LockedStep
  BY Zenon, <1>1, LockedStepInv
<1>2. ASSUME NEW t \in Threads, NEW n \in Notes, Call(t, n) \/ References(t, n)
      PROVE  Inv'
  BY Zenon, <1>2, CallInv, ReferencesInv
<1>3. ASSUME NEW t \in Threads, Drop(t)
      PROVE  Inv'
  BY Zenon, <1>3, NotesDrop, LocalsUnlocked DEF Inv
<1>4. ASSUME NEW t \in Threads, ReleasePages(t)
      PROVE  Inv'
  BY Zenon, <1>4, NotesReleasePages, LocalsReleasePages DEF Inv
<1>5. ASSUME NEW t \in Threads, NEW n \in Notes, NEW p \in Pages, NEW v \in Writes,
             MappedWrite(t, n, p, v)
      PROVE  Inv'
  BY Zenon, <1>5, NotesMappedWrite, LocalsMappedWrite DEF Inv
<1>6. CASE UNCHANGED vars
  <2>1. /\ UNCHANGED <<noteVars, treeVars, holders, pageVars, mapVars, view, threadVars>>
        /\ UNCHANGED <<lock, localVars>>
    BY Zenon, <1>6 DEF vars
  <2>2. TypeOK'
    BY <2>1 DEF Inv, TypeOK, TreeTyped, PagesTyped, MapsTyped, ThreadsTyped, LocalsTyped
  <2>3. NotesInv'
    BY Zenon, <2>1, NotesFrame DEF Inv, NotesInv, ReleasedOnce
  <2>4. Outside
    BY Zenon, <2>1 DEF Outside
  <2> QED BY Zenon, <2>2, <2>3, <2>4, LocalsOutside DEF Inv
<1> QED BY Zenon, <1>1, <1>2, <1>3, <1>4, <1>5, <1>6 DEF Next

\* Every execution of note.c keeps the notes and the thread inside the lock as
\* its loops need them, for any number of notes, threads, pages and values.
THEOREM Safety == Spec => []Inv
<1>1. Init => Inv
  BY Zenon, InitInv
<1>2. Inv /\ [Next]_vars => Inv'
  BY Zenon, NextInv
<1> QED BY <1>1, <1>2, PTL DEF Spec

\* A note shows what its callers made of it, whatever its parent, its copies and
\* their mappings do, and the frame a call uses holds the page of its note.
THEOREM NotesAreIsolated == Spec => []Isolation
<1>1. Inv => Isolation
  <2> SUFFICES ASSUME Inv
               PROVE  Isolation
    OBVIOUS
  <2>1. ViewsHold
    BY Zenon DEF Inv, NotesInv
  <2>2. ASSUME step = "use"
        PROVE  cached[IF call \in {"read", "copy"} THEN at ELSE note][page] = view[note][page]
    <3>1. at \in live /\ note \in live /\ page \in Pages
      BY Zenon, <2>2, Inside
    <3>2. call \in {"read", "copy", "write", "frame"}
      BY Zenon, <2>2 DEF Inv, TypeOK, LocalsTyped, LocalsInv, LockHeld
    <3>3. WalkIsRight
      BY Zenon DEF Inv, LocalsInv
    <3>4. CASE call \in {"read", "copy"}
      BY Zenon, <2>1, <2>2, <3>1, <3>3, <3>4 DEF WalkIsRight, ViewsHold
    <3>5. CASE call \in {"write", "frame"}
      BY Zenon, <2>1, <2>2, <3>1, <3>3, <3>5 DEF WalkIsRight, ViewsHold
    <3> QED BY Zenon, <3>2, <3>4, <3>5
  <2> QED BY Zenon, <2>1, <2>2 DEF Isolation
<1> QED BY <1>1, Safety, PTL

\* A note that is freed has no child and no mapping, so note_release never
\* aborts, and a walk inside the lock meets live notes only.
THEOREM NotesFreedUnused == Spec => []FreedIsUnused
<1>1. Inv => FreedIsUnused
  <2> SUFFICES ASSUME Inv
               PROVE  FreedIsUnused
    OBVIOUS
  <2>1. \A n \in Notes \ live : Children(n) = {} /\ mappers[n] = {}
    BY Zenon, FreeIsBlank
  <2>2. ASSUME NEW t \in Threads, pc[t] = "drop"
        PROVE  Children(arg[t]) = {} /\ mappers[arg[t]] = {}
    <3>1. arg[t] \in Notes /\ holders[arg[t]] = {}
      BY Zenon, <2>2 DEF Inv, TypeOK, ThreadsTyped, NotesInv, ReleasedOnce
    <3>2. Children(arg[t]) = {}
      BY <3>1, ConstantsAssumption DEF Children, Inv, NotesInv, Family
    <3>3. mappers[arg[t]] = {}
      BY Zenon, <3>1 DEF Inv, NotesInv, EscapedIsPrivate
    <3> QED BY Zenon, <3>2, <3>3
  <2>3. ({note, at, scan} \ {None}) \cup todo \subseteq live
    <3>1. CASE lock = None
      BY Zenon, <3>1 DEF Inv, LocalsInv, LockHeld
    <3>2. CASE lock # None
      <4>1. note \in live /\ note \in Notes /\ (at # None => at \in live) /\ todo \subseteq Children(note)
        BY Zenon, <3>2 DEF Inv, TypeOK, TreeTyped, LocalsInv, LockHeld
      <4>2. scan # None => scan \in live
        BY Zenon, <3>2 DEF Inv, LocalsInv, LockHeld, ShrinkIsRight
      <4>3. Children(note) \subseteq live
        BY <4>1, ConstantsAssumption DEF Children, Inv, NotesInv, Family
      <4> QED BY Zenon, <4>1, <4>2, <4>3
    <3> QED BY Zenon, <3>1, <3>2
  <2>4. TypeOK
    BY Zenon DEF Inv
  <2> QED BY Zenon, <2>1, <2>2, <2>3, <2>4 DEF FreedIsUnused
<1> QED BY <1>1, Safety, PTL

=============================================================================
