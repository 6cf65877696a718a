------------------------- MODULE NoteLineagePages ---------------------------
(***************************************************************************)
(* The part of the induction about the notes, continued: the steps of the  *)
(* calls under the lineage lock, mapped writes and shrinking.              *)
(***************************************************************************)
EXTENDS NoteLineageProofs

USE DEF noteVars, treeVars, pageVars, mapVars, threadVars, localVars

-----------------------------------------------------------------------------
(* Calls under the lock.                                                   *)

\* A call begins; the copy of an external note takes a free object.
LEMMA NotesBegin ==
    ASSUME Inv, NEW t \in Threads, NEW n \in Notes, NEW k \in {"read", "write", "frame", "copy"},
           NEW pages \in SUBSET Pages, NEW v \in Values, NEW c \in Notes \cup {None},
           Begin(t, n, k, pages, v, c), c \in Notes => IsFree(c)
    PROVE  TypeOK' /\ NotesInv'
<1>1. TypeOK'
  BY Zenon DEF Inv, TypeOK, TreeTyped, PagesTyped, MapsTyped, ThreadsTyped, LocalsTyped, Begin
<1>2. \A u \in Threads : pc[u] = "parent" => arg[u] # dest'
  <2>1. dest' = c
    BY Zenon DEF Begin
  <2>2. \A u \in Threads : pc[u] = "parent" => arg[u] \in Notes /\ \E m \in Notes : arg[u] \in holders[m]
    BY Zenon, ConstantsAssumption DEF Inv, NotesInv, ReleasedOnce, TypeOK, ThreadsTyped
  <2> QED BY <2>1, <2>2, ConstantsAssumption DEF IsFree
<1>3. NotesInv'
  BY Zenon, <1>2, NotesFrame DEF Begin
<1> QED BY Zenon, <1>1, <1>3

\* A read, a write, a frame for a mapping or a copy of an external note begins.
LEMMA NotesCalls ==
    ASSUME Inv, NEW t \in Threads, NEW n \in Notes,
           \/ \E first, last \in Pages :
                Read(t, n, first, last) \/ \E v \in Writes : Write(t, n, first, last, v)
           \/ \E p \in Pages : GetFrame(t, n, p)
           \/ \E c \in Notes : CopyExternal(t, n, c)
    PROVE  TypeOK' /\ NotesInv'
<1>1. /\ \A first, last \in Pages : PageRange(first, last) \in SUBSET Pages
      /\ \A p \in Pages : {p} \in SUBSET Pages
      /\ PageRange(0, size[n] - 1) \in SUBSET Pages
      /\ Zero \in Values /\ Writes \subseteq Values
  BY ConstantsAssumption DEF PageRange, Pages, Inv, TypeOK, TreeTyped, Sizes
<1>2. None \notin Notes
  BY Zenon, ConstantsAssumption
<1>3. ASSUME NEW first \in Pages, NEW last \in Pages, Read(t, n, first, last)
      PROVE  TypeOK' /\ NotesInv'
  BY Zenon, <1>1, <1>2, <1>3, NotesBegin DEF Read
<1>4. ASSUME NEW first \in Pages, NEW last \in Pages, NEW v \in Writes, Write(t, n, first, last, v)
      PROVE  TypeOK' /\ NotesInv'
  BY Zenon, <1>1, <1>2, <1>4, NotesBegin DEF Write
<1>5. ASSUME NEW p \in Pages, GetFrame(t, n, p)
      PROVE  TypeOK' /\ NotesInv'
  BY Zenon, <1>1, <1>2, <1>5, NotesBegin DEF GetFrame
<1>6. ASSUME NEW c \in Notes, CopyExternal(t, n, c)
      PROVE  TypeOK' /\ NotesInv'
  BY Zenon, <1>1, <1>6, NotesBegin DEF CopyExternal
<1> QED BY Zenon, <1>3, <1>4, <1>5, <1>6

\* A shrinking resize begins.
LEMMA NotesShrink ==
    ASSUME Inv, NEW t \in Threads, NEW n \in Notes, NEW s \in Sizes, Shrink(t, n, s)
    PROVE  TypeOK' /\ NotesInv'
<1>1. TypeOK'
  BY Zenon DEF Inv, TypeOK, TreeTyped, PagesTyped, MapsTyped, ThreadsTyped, LocalsTyped, Shrink
<1>2. \A u \in Threads : pc[u] = "parent" => arg[u] # dest'
  BY Zenon DEF Inv, NotesInv, ReleasedOnce, Shrink
<1>3. NotesInv'
  BY Zenon, <1>2, NotesFrame DEF Shrink
<1> QED BY Zenon, <1>1, <1>3

\* The types of the locals, apart from the others'.
LEMMA TypedLocals ==
    ASSUME Inv
    PROVE  /\ LocalsTyped
           /\ OnlyStep /\ LocalsTyped' => TypeOK'
BY Zenon DEF Inv, TypeOK, TreeTyped, PagesTyped, MapsTyped, ThreadsTyped, OnlyStep, Locked

\* The steps that only move the locals.
LEMMA NotesSteps ==
    ASSUME Inv, NextPage \/ WalkUp \/ Found \/ UseRead \/ UseCopy \/ ScanOwner \/ ScanParent
    PROVE  TypeOK' /\ NotesInv'
<1>1. OnlyStep /\ UNCHANGED dest
  BY Zenon DEF NextPage, WalkUp, Found, UseRead, UseCopy, ScanOwner, ScanParent
<1>2. NotesInv'
  BY Zenon, <1>1, NotesOnlyStep
<1>3. /\ LocalsTyped
      /\ LocalsTyped' => TypeOK'
      /\ Pages \subseteq Sizes
      /\ lock \in Threads
  <2>1. lock \in Threads
    BY Zenon DEF NextPage, WalkUp, Found, UseRead, UseCopy, ScanOwner, ScanParent,
           Inv, TypeOK, LocalsInv, LockHeld
  <2> QED BY <1>1, <2>1, TypedLocals, ConstantsAssumption DEF Pages, Sizes
<1>4. /\ step \in {"walk", "preserve", "use"} => at \in Notes /\ page \in Pages
      /\ call = "shrink" => scan \in Notes
      /\ parent \in [Notes -> Notes \cup {None}] /\ inherited \in [Notes -> Sizes]
      /\ cached \in [Notes -> [Pages -> Values \cup {None}]]
  BY Zenon, <1>3, ConstantsAssumption DEF Inv, TypeOK, TreeTyped, PagesTyped, LocalsTyped,
                                          LocalsInv, LockHeld, ShrinkIsRight
<1>5. CASE NextPage
  BY Zenon, <1>2, <1>3, <1>5 DEF LocalsTyped, NextPage
<1>6. CASE WalkUp
  BY Zenon, <1>2, <1>3, <1>4, <1>6 DEF LocalsTyped, WalkUp
<1>7. CASE Found
  BY Zenon, <1>2, <1>3, <1>7 DEF LocalsTyped, Found, Children
<1>8. CASE UseRead
  BY Zenon, <1>2, <1>3, <1>8 DEF LocalsTyped, UseRead
<1>9. CASE UseCopy
  <2>1. buf' \in [Pages -> Values \cup {None}]
    BY <1>3, <1>4, <1>9 DEF LocalsTyped, UseCopy
  <2> QED BY Zenon, <1>2, <1>3, <1>9, <2>1 DEF LocalsTyped, UseCopy
<1>10. CASE ScanOwner
  <2>1. \A p \in new .. limit - 1 : p \in Pages
    BY <1>3, ConstantsAssumption DEF LocalsTyped, Pages, Sizes
  <2> QED BY Zenon, <1>2, <1>3, <1>10, <2>1 DEF LocalsTyped, ScanOwner
<1>11. CASE ScanParent
  <2>1. Smaller(limit, inherited[scan]) \in Sizes /\ parent[scan] \in Notes \cup {None}
    BY Zenon, <1>3, <1>4, <1>11 DEF LocalsTyped, Smaller, ScanParent
  <2> QED BY Zenon, <1>2, <1>3, <1>11, <2>1 DEF LocalsTyped, ScanParent
<1> QED BY Zenon, <1>5, <1>6, <1>7, <1>8, <1>9, <1>10, <1>11

\* The file grows and reads as zeros there.
LEMMA NotesGrow ==
    ASSUME Inv, NEW t \in Threads, NEW n \in Notes, NEW s \in Sizes, Grow(t, n, s)
    PROVE  TypeOK' /\ NotesInv'
<1>1. /\ size'[n] = s /\ s > size[n] /\ t \in holders[n] /\ size' \in [Notes -> Sizes]
      /\ \A m \in Notes \ {n} : size'[m] = size[m]
      /\ UNCHANGED <<live, external, treeVars, holders, pageVars, mapVars, view, threadVars, lock,
                     localVars>>
  BY Zenon DEF Inv, TypeOK, TreeTyped, Grow, Enters
<1>2. n \in live
  BY Zenon, <1>1, FreeIsBlank
<1>3. \A m \in Notes : /\ size[m] \in Int /\ size'[m] \in Int /\ size[m] <= size'[m]
                       /\ inherited[m] \in Int
  <2>1. Sizes \subseteq Int /\ size \in [Notes -> Sizes] /\ inherited \in [Notes -> Sizes]
    BY ConstantsAssumption DEF Inv, TypeOK, TreeTyped, Sizes
  <2> SUFFICES ASSUME NEW m \in Notes
               PROVE  size[m] \in Int /\ size'[m] \in Int /\ size[m] <= size'[m] /\ inherited[m] \in Int
    OBVIOUS
  <2>2. size[m] \in Int /\ size'[m] \in Int /\ inherited[m] \in Int
    BY Zenon, <1>1, <2>1
  <2> QED BY <1>1, <2>2
<1>4. TypeOK'
  BY <1>1 DEF Inv, TypeOK, TreeTyped, PagesTyped, MapsTyped, ThreadsTyped, LocalsTyped
<1>5. Family'
  <2>1. \A m \in Notes : m \notin live => size'[m] = size[m]
    BY Zenon, <1>1, <1>2
  <2> QED BY Zenon, <1>1, <2>1 DEF Inv, NotesInv, Family
<1>6. WithinSize'
  <2> SUFFICES ASSUME NEW m \in Notes
               PROVE  /\ inherited'[m] <= size'[m]
                      /\ \A p \in Pages : p >= size'[m] => view'[m][p] = Zero
    BY Zenon DEF WithinSize
  <2>1. /\ size[m] \in Int /\ size'[m] \in Int /\ size[m] <= size'[m]
        /\ inherited[m] \in Int /\ inherited' = inherited /\ view' = view
    BY Zenon, <1>1, <1>3
  <2>2. inherited[m] <= size[m] /\ \A p \in Pages : p >= size[m] => view[m][p] = Zero
    BY Zenon DEF Inv, NotesInv, WithinSize
  <2>3. \A p \in Pages : p >= size'[m] => p >= size[m]
    BY <2>1, ConstantsAssumption DEF Pages
  <2>4. inherited[m] <= size'[m]
    BY <2>1, <2>2
  <2> QED BY Zenon, <2>1, <2>2, <2>3, <2>4
<1>7. EscapedIsPrivate'
  BY Zenon, <1>1 DEF Inv, NotesInv, EscapedIsPrivate, StillRead, Children
<1>8. ReleasedOnce'
  BY Zenon, <1>1 DEF Inv, NotesInv, ReleasedOnce
<1>9. ViewsHold'
  <2>1. \A m \in live, p \in Pages : p < size[m] => p < size'[m]
    BY <1>3, ConstantsAssumption DEF Inv, TypeOK, TreeTyped, PagesTyped, MapsTyped, ThreadsTyped,
                                     Pages
  <2>2. UNCHANGED <<live, cached, parent, inherited, view, file>>
    BY Zenon, <1>1
  <2>3. ViewsHold
    BY Zenon DEF Inv, NotesInv
  <2>4. \A m \in live, p \in Pages : IsInherited(m, p)' <=> IsInherited(m, p)
    BY Zenon, <2>2 DEF IsInherited
  <2> QED BY Zenon, <2>1, <2>2, <2>3, <2>4 DEF ViewsHold
<1> QED BY Zenon, <1>4, <1>5, <1>6, <1>7, <1>8, <1>9 DEF NotesInv

-----------------------------------------------------------------------------
(* Steps under the lock that change pages.                                 *)

\* Where the thread inside the lock is.
LEMMA Inside ==
    ASSUME Inv, step # "none"
    PROVE  /\ lock \in Threads /\ note \in Notes /\ note \in live
           /\ pc[lock] = "idle" /\ lock \in holders[note]
           /\ work \subseteq 0 .. size[note] - 1
           /\ step \in {"walk", "preserve", "use"} =>
                /\ at \in Notes /\ at \in live /\ page \in work /\ page \in Pages
                /\ page < size[note]
<1>1. /\ lock \in Threads /\ note \in Notes /\ note \in live
      /\ pc[lock] = "idle" /\ lock \in holders[note]
      /\ work \subseteq 0 .. size[note] - 1 /\ work \subseteq Pages
      /\ step \in {"walk", "preserve", "use"} => at \in Notes /\ at \in live /\ page \in work
  BY Zenon, ConstantsAssumption DEF Inv, TypeOK, TreeTyped, LocalsTyped, LocalsInv, LockHeld
<1>2. size[note] \in Int
  BY <1>1, ConstantsAssumption DEF Inv, TypeOK, TreeTyped, Sizes
<1>3. \A p \in work : p \in Pages /\ p < size[note]
  BY <1>1, <1>2
<1> QED BY Zenon, <1>1, <1>3

\* A page that a note showed anyway becomes a page of its own.
CachesPage(n, p) ==
    /\ n \in live /\ cached[n][p] = None /\ p < size[n]
    /\ cached' = [cached EXCEPT ![n] = [@ EXCEPT ![p] = view[n][p]]]
    /\ UNCHANGED <<noteVars, treeVars, holders, file, mapVars, view, threadVars, dest>>

\* Giving a note its own copy of a page it shows changes what no note shows.
LEMMA CachePage ==
    ASSUME Inv, NEW n \in Notes, NEW p \in Pages, CachesPage(n, p)
    PROVE  /\ NotesInv'
           /\ cached' \in [Notes -> [Pages -> Values \cup {None}]]
<1> USE DEF CachesPage
<1>1. /\ cached' \in [Notes -> [Pages -> Values \cup {None}]]
      /\ cached'[n][p] = view[n][p] /\ view[n][p] # None
      /\ \A m \in Notes, q \in Pages : m # n \/ q # p => cached'[m][q] = cached[m][q]
  <2>1. view[n][p] \in Values /\ None \notin Values
    BY ConstantsAssumption DEF Inv, TypeOK, PagesTyped
  <2>2. [cached[n] EXCEPT ![p] = view[n][p]] \in [Pages -> Values \cup {None}]
    BY Zenon, <2>1 DEF Inv, TypeOK, PagesTyped
  <2>3. cached' \in [Notes -> [Pages -> Values \cup {None}]]
    BY Zenon, <2>2 DEF Inv, TypeOK, PagesTyped
  <2>4. /\ cached'[n] = [cached[n] EXCEPT ![p] = view[n][p]]
        /\ \A m \in Notes \ {n} : cached'[m] = cached[m]
        /\ cached[n] \in [Pages -> Values \cup {None}]
    BY Zenon DEF Inv, TypeOK, PagesTyped
  <2> QED BY Zenon, <2>1, <2>3, <2>4
<1>2. Family' /\ WithinSize'
  <2>1. \A m \in Notes : m \notin live => cached'[m] = cached[m]
    BY DEF Inv, TypeOK
  <2> QED BY <2>1 DEF Inv, NotesInv, Family, WithinSize
<1>3. EscapedIsPrivate'
  <2>1. \A m \in Notes, q \in Pages : cached[m][q] # None => cached'[m][q] # None
    BY Zenon, <1>1
  <2>2. inherited' \in [Notes -> Sizes] /\ \A m \in Notes : inherited'[m] <= inherited[m]
    BY ConstantsAssumption DEF Inv, TypeOK, TreeTyped, PagesTyped, Sizes
  <2> QED BY Zenon, <2>1, <2>2, EscapedFrame
<1>4. ReleasedOnce'
  BY Zenon DEF Inv, NotesInv, ReleasedOnce
<1>5. ViewsHold'
  <2> SUFFICES ASSUME NEW m \in live, NEW q \in Pages
               PROVE  IF cached'[m][q] # None THEN q < size[m] /\ view[m][q] = cached'[m][q]
                      ELSE IF IsInherited(m, q)' THEN view[m][q] = view[parent[m]][q]
                      ELSE view[m][q] = file[m][q]
    BY Zenon DEF ViewsHold
  <2>1. CASE m = n /\ q = p
    BY Zenon, <1>1, <2>1
  <2>2. CASE m # n \/ q # p
    <3>1. cached'[m][q] = cached[m][q]
      BY <1>1, <2>2 DEF Inv, TypeOK
    <3>2. IsInherited(m, q)' <=> IsInherited(m, q)
      BY Zenon, <3>1 DEF IsInherited
    <3> QED BY Zenon, <3>1, <3>2 DEF Inv, NotesInv, ViewsHold
  <2> QED BY Zenon, <2>1, <2>2
<1> QED BY Zenon, <1>1, <1>2, <1>3, <1>4, <1>5 DEF NotesInv

\* A page of its own that no child reads is written.
WritesPage(n, p, v) ==
    /\ n \in live /\ cached[n][p] # None /\ ~StillRead(n, p)
    /\ cached' = [cached EXCEPT ![n] = [@ EXCEPT ![p] = v]]
    /\ view' = [view EXCEPT ![n] = [@ EXCEPT ![p] = v]]
    /\ UNCHANGED <<noteVars, treeVars, holders, file, mapVars, threadVars, dest>>

\* Writing a page that no child reads changes what this note shows, and no other.
LEMMA WritePage ==
    ASSUME Inv, NEW n \in Notes, NEW p \in Pages, NEW v \in Values, WritesPage(n, p, v)
    PROVE  /\ NotesInv'
           /\ cached' \in [Notes -> [Pages -> Values \cup {None}]]
           /\ view' \in [Notes -> [Pages -> Values]]
<1> USE DEF WritesPage
<1>1. /\ cached' \in [Notes -> [Pages -> Values \cup {None}]] /\ view' \in [Notes -> [Pages -> Values]]
      /\ cached'[n][p] = v /\ view'[n][p] = v /\ v # None
      /\ \A m \in Notes, q \in Pages : m # n \/ q # p => /\ cached'[m][q] = cached[m][q]
                                                         /\ view'[m][q] = view[m][q]
  <2>1. v # None
    BY Zenon, ConstantsAssumption
  <2>2. /\ [cached[n] EXCEPT ![p] = v] \in [Pages -> Values \cup {None}]
        /\ [view[n] EXCEPT ![p] = v] \in [Pages -> Values]
    BY Zenon DEF Inv, TypeOK, PagesTyped
  <2>3. /\ cached' \in [Notes -> [Pages -> Values \cup {None}]]
        /\ view' \in [Notes -> [Pages -> Values]]
    BY Zenon, <2>2 DEF Inv, TypeOK, PagesTyped
  <2>4. /\ cached'[n] = [cached[n] EXCEPT ![p] = v] /\ view'[n] = [view[n] EXCEPT ![p] = v]
        /\ \A m \in Notes \ {n} : cached'[m] = cached[m] /\ view'[m] = view[m]
        /\ cached[n] \in [Pages -> Values \cup {None}] /\ view[n] \in [Pages -> Values]
    BY Zenon DEF Inv, TypeOK, PagesTyped
  <2> QED BY Zenon, <2>1, <2>3, <2>4
<1>2. p < size[n]
  BY Zenon DEF Inv, NotesInv, ViewsHold
<1>3. Family'
  <2>1. \A m \in Notes : m \notin live => cached'[m] = cached[m]
    BY DEF Inv, TypeOK
  <2> QED BY Zenon, <2>1 DEF Inv, NotesInv, Family
<1>4. WithinSize'
  <2>1. size[n] \in Int /\ p \in Int
    BY ConstantsAssumption DEF Inv, TypeOK, TreeTyped, Pages, Sizes
  <2>2. \A m \in Notes, q \in Pages : q >= size[m] => view'[m][q] = view[m][q]
    BY <1>1, <1>2, <2>1
  <2> QED BY Zenon, <2>2 DEF Inv, NotesInv, WithinSize
<1>5. EscapedIsPrivate'
  <2>1. \A m \in Notes, q \in Pages : cached[m][q] # None => cached'[m][q] # None
    BY Zenon, <1>1
  <2>2. inherited' \in [Notes -> Sizes] /\ \A m \in Notes : inherited'[m] <= inherited[m]
    BY ConstantsAssumption DEF Inv, TypeOK, TreeTyped, PagesTyped, Sizes
  <2> QED BY Zenon, <2>1, <2>2, EscapedFrame
<1>6. ReleasedOnce'
  BY Zenon DEF Inv, NotesInv, ReleasedOnce
<1>7. ViewsHold'
  <2> SUFFICES ASSUME NEW m \in live, NEW q \in Pages
               PROVE  IF cached'[m][q] # None THEN q < size[m] /\ view'[m][q] = cached'[m][q]
                      ELSE IF IsInherited(m, q)' THEN view'[m][q] = view'[parent[m]][q]
                      ELSE view'[m][q] = file[m][q]
    BY DEF ViewsHold
  <2>1. CASE m = n /\ q = p
    BY Zenon, <1>1, <1>2, <2>1
  <2>2. CASE m # n \/ q # p
    <3>1. m \in Notes /\ cached'[m][q] = cached[m][q] /\ view'[m][q] = view[m][q]
      BY Zenon, <1>1, <2>2 DEF Inv, TypeOK, TreeTyped
    <3>2. IsInherited(m, q)' <=> IsInherited(m, q)
      BY Zenon, <3>1 DEF IsInherited
    <3>3. IsInherited(m, q) => view'[parent[m]][q] = view[parent[m]][q]
      <4>1. IsInherited(m, q) => parent[m] \in Notes /\ ~(parent[m] = n /\ q = p)
        BY Zenon, <3>1 DEF IsInherited, StillRead, Children, Inv, TypeOK, TreeTyped
      <4> QED BY Zenon, <1>1, <4>1
    <3> QED BY Zenon, <3>1, <3>2, <3>3 DEF Inv, NotesInv, ViewsHold
  <2> QED BY Zenon, <2>1, <2>2
<1> QED BY Zenon, <1>1, <1>3, <1>4, <1>5, <1>6, <1>7 DEF NotesInv

\* The page found nowhere in the lineage is read from the file and cached.
LEMMA NotesCacheBackingPage ==
    ASSUME Inv, CacheBackingPage
    PROVE  TypeOK' /\ NotesInv'
<1>1. at \in Notes /\ at \in live /\ page \in Pages
  BY Zenon, Inside DEF CacheBackingPage
<1>2. view[at][page] = file[at][page]
  BY Zenon, <1>1 DEF CacheBackingPage, Inv, NotesInv, ViewsHold
<1>3. CachesPage(at, page)
  BY Zenon, <1>1, <1>2 DEF CacheBackingPage, CachesPage, Locked
<1>4. NotesInv' /\ cached' \in [Notes -> [Pages -> Values \cup {None}]]
  BY Zenon, <1>1, <1>3, CachePage
<1>5. TypeOK'
  BY Zenon, <1>4 DEF Inv, TypeOK, TreeTyped, PagesTyped, MapsTyped, ThreadsTyped, LocalsTyped,
                     CacheBackingPage, Locked
<1> QED BY Zenon, <1>4, <1>5

\* A child gets its own copy of a page before the page is written.
LEMMA NotesPreserveChild ==
    ASSUME Inv, NEW c \in Notes, PreserveChild(c)
    PROVE  TypeOK' /\ NotesInv'
<1>1. /\ at \in live /\ at \in Notes /\ note \in live /\ page \in Pages
      /\ todo \subseteq Children(note) /\ c \in todo /\ step = "preserve" /\ lock \in Threads
  BY Zenon, Inside, ConstantsAssumption DEF PreserveChild, Inv, LocalsInv, LockHeld
<1>2. CASE MustPreserve(c)
  <2>1. IsInherited(c, page) /\ parent[c] = note /\ c \in live
    BY <1>1, <1>2, ConstantsAssumption
       DEF MustPreserve, IsInherited, Children, Inv, NotesInv, Family, TypeOK, TreeTyped
  <2>2. view[c][page] = view[note][page]
    BY Zenon, <1>1, <2>1 DEF Inv, NotesInv, ViewsHold, IsInherited
  <2>3. cached[at][page] = view[note][page]
    BY Zenon, <1>1 DEF Inv, NotesInv, ViewsHold, LocalsInv, WalkIsRight
  <2>4. page < size[c]
    <3>1. inherited[c] <= size[c] /\ page < inherited[c]
      BY Zenon, <1>2 DEF Inv, NotesInv, WithinSize, MustPreserve
    <3>2. inherited[c] \in Int /\ size[c] \in Int /\ page \in Int
      BY <1>1, ConstantsAssumption DEF Inv, TypeOK, TreeTyped, Sizes, Pages
    <3> QED BY <3>1, <3>2
  <2>5. CachesPage(c, page)
    BY Zenon, <1>2, <2>1, <2>2, <2>3, <2>4 DEF PreserveChild, CachesPage, CachedCopy,
                                               MustPreserve, Locked
  <2>6. NotesInv' /\ cached' \in [Notes -> [Pages -> Values \cup {None}]]
    BY Zenon, <1>1, <2>5, CachePage
  <2>7. TypeOK'
    BY Zenon, <2>6 DEF Inv, TypeOK, TreeTyped, PagesTyped, MapsTyped, ThreadsTyped, LocalsTyped,
                       PreserveChild, Locked
  <2> QED BY Zenon, <2>6, <2>7
<1>3. CASE ~MustPreserve(c)
  <2>1. OnlyStep /\ UNCHANGED dest
    BY Zenon, <1>3 DEF PreserveChild, OnlyStep
  <2>2. TypeOK'
    BY Zenon, <1>3 DEF Inv, TypeOK, TreeTyped, PagesTyped, MapsTyped, ThreadsTyped, LocalsTyped,
                       PreserveChild, Locked
  <2> QED BY Zenon, <2>1, <2>2, NotesOnlyStep
<1> QED BY Zenon, <1>2, <1>3

\* No child is left to preserve: the note has or gets its own page.
LEMMA NotesPreserveDone ==
    ASSUME Inv, PreserveDone
    PROVE  TypeOK' /\ NotesInv'
<1>1. /\ at \in live /\ at \in Notes /\ note \in live /\ note \in Notes /\ page \in Pages
      /\ page < size[note] /\ step = "preserve"
  BY Zenon, Inside DEF PreserveDone
<1>2. CASE call # "shrink" /\ cached[note][page] = None
  <2>1. cached[at][page] = view[note][page]
    BY Zenon, <1>1 DEF Inv, NotesInv, ViewsHold, LocalsInv, WalkIsRight
  <2>2. CachesPage(note, page)
    BY Zenon, <1>1, <1>2, <2>1 DEF PreserveDone, CachesPage, CachedCopy, Locked
  <2>3. NotesInv' /\ cached' \in [Notes -> [Pages -> Values \cup {None}]]
    BY Zenon, <1>1, <2>2, CachePage
  <2>4. TypeOK'
    BY Zenon, <1>2, <2>3 DEF Inv, TypeOK, TreeTyped, PagesTyped, MapsTyped, ThreadsTyped,
                             LocalsTyped, PreserveDone, Locked
  <2> QED BY Zenon, <2>3, <2>4
<1>3. CASE call = "shrink" \/ cached[note][page] # None
  <2>1. OnlyStep /\ UNCHANGED dest
    BY Zenon, <1>3 DEF PreserveDone, OnlyStep
  <2>2. LocalsTyped'
    BY Zenon, <1>3, TypedLocals DEF LocalsTyped, PreserveDone
  <2> QED BY Zenon, <2>1, <2>2, NotesOnlyStep, TypedLocals
<1> QED BY Zenon, <1>2, <1>3

\* The write of one page, which is the note's own and read by no child.
LEMMA NotesUseWrite ==
    ASSUME Inv, UseWrite
    PROVE  TypeOK' /\ NotesInv'
<1>1. note \in live /\ note \in Notes /\ page \in Pages
  BY Zenon, Inside DEF UseWrite
<1>2. cached[note][page] # None /\ ~StillRead(note, page)
  BY Zenon DEF UseWrite, Inv, LocalsInv, WalkIsRight
<1>3. WritesPage(note, page, val)
  BY Zenon, <1>1, <1>2 DEF UseWrite, WritesPage, Locked
<1>4. val \in Values
  BY Zenon DEF Inv, TypeOK, LocalsTyped
<1>5. /\ NotesInv' /\ cached' \in [Notes -> [Pages -> Values \cup {None}]]
      /\ view' \in [Notes -> [Pages -> Values]]
  BY Zenon, <1>1, <1>3, <1>4, WritePage
<1>6. TypeOK'
  <2>1. LocalsTyped'
    BY Zenon, TypedLocals DEF LocalsTyped, UseWrite
  <2>2. Locked /\ UNCHANGED file
    BY Zenon DEF UseWrite
  <2> QED BY Zenon, <1>5, <2>1, <2>2 DEF Inv, TypeOK, TreeTyped, PagesTyped, MapsTyped,
                                         ThreadsTyped, Locked
<1> QED BY Zenon, <1>5, <1>6

\* A mapping writes only pages it was given, which no child reads.
LEMMA NotesMappedWrite ==
    ASSUME Inv, NEW t \in Threads, NEW n \in Notes, NEW p \in Pages, NEW v \in Writes,
           MappedWrite(t, n, p, v)
    PROVE  TypeOK' /\ NotesInv'
<1>1. n \in live
  <2>1. escaped[n] # {}
    BY Zenon DEF MappedWrite
  <2> QED BY Zenon, <2>1, FreeIsBlank
<1>2. cached[n][p] # None /\ ~StillRead(n, p)
  BY Zenon DEF MappedWrite, Inv, NotesInv, EscapedIsPrivate
<1>3. WritesPage(n, p, v)
  BY Zenon, <1>1, <1>2 DEF MappedWrite, WritesPage
<1>4. v \in Values
  BY Zenon, ConstantsAssumption
<1>5. /\ NotesInv' /\ cached' \in [Notes -> [Pages -> Values \cup {None}]]
      /\ view' \in [Notes -> [Pages -> Values]]
  BY Zenon, <1>3, <1>4, WritePage
<1>6. TypeOK'
  <2>1. LocalsTyped'
    BY Zenon, TypedLocals DEF LocalsTyped, MappedWrite
  <2>2. UNCHANGED <<noteVars, treeVars, holders, file, mapVars, threadVars, lock>>
    BY Zenon DEF MappedWrite
  <2> QED BY Zenon, <1>5, <2>1, <2>2 DEF Inv, TypeOK, TreeTyped, PagesTyped, MapsTyped, ThreadsTyped
<1> QED BY Zenon, <1>5, <1>6

\* A frame leaves with the mapping that asked for it.
LEMMA NotesUseFrame ==
    ASSUME Inv, UseFrame
    PROVE  TypeOK' /\ NotesInv'
<1>1. /\ note \in live /\ note \in Notes /\ page \in Pages /\ lock \in Threads
      /\ lock \in mappers[note] /\ cached[note][page] # None /\ ~StillRead(note, page)
  BY Zenon, Inside, ConstantsAssumption DEF UseFrame, Inv, LocalsInv, LockHeld, WalkIsRight
<1>2. /\ escaped'[note] = escaped[note] \cup {<<lock, page>>}
      /\ \A m \in Notes \ {note} : escaped'[m] = escaped[m]
      /\ UNCHANGED <<noteVars, treeVars, holders, pageVars, mappers, view, threadVars>>
  BY Zenon, <1>1 DEF Inv, TypeOK, MapsTyped, UseFrame
<1>3. TypeOK'
  <2>1. escaped' \in [Notes -> SUBSET (Threads \X Pages)]
    BY <1>1 DEF Inv, TypeOK, MapsTyped, UseFrame
  <2>2. LocalsTyped' /\ lock' = None
    BY ConstantsAssumption DEF LocalsTyped, UseFrame, Leave, NoPages, Sizes
  <2> QED BY Zenon, <1>2, <2>1, <2>2 DEF Inv, TypeOK, TreeTyped, PagesTyped, MapsTyped, ThreadsTyped
<1>4. Family' /\ WithinSize'
  <2>1. \A m \in Notes : m \notin live => escaped'[m] = escaped[m]
    BY Zenon, <1>1, <1>2
  <2> QED BY <1>2, <2>1 DEF Inv, NotesInv, Family, WithinSize
<1>5. EscapedIsPrivate'
  <2>1. \A m \in Notes, u \in Threads, p \in Pages :
            <<u, p>> \in escaped'[m] => \/ <<u, p>> \in escaped[m]
                                        \/ m = note /\ u = lock /\ p = page
    BY Zenon, <1>1, <1>2
  <2>2. \A m \in Notes, p \in Pages : StillRead(m, p)' <=> StillRead(m, p)
    BY Zenon, <1>2 DEF StillRead, Children
  <2> QED BY <1>1, <1>2, <2>1, <2>2 DEF Inv, NotesInv, EscapedIsPrivate
<1>6. ReleasedOnce'
  <2>1. dest' = None /\ UNCHANGED <<live, holders, threadVars>>
    BY Zenon, <1>2 DEF UseFrame, Leave
  <2> QED BY Zenon, <2>1 DEF Inv, NotesInv, ReleasedOnce
<1>7. ViewsHold'
  BY Zenon, <1>2 DEF Inv, NotesInv, ViewsHold, IsInherited
<1> QED BY Zenon, <1>3, <1>4, <1>5, <1>6, <1>7 DEF NotesInv

-----------------------------------------------------------------------------
(* The end of a shrink.                                                    *)

\* The children give up the pages that go away: they were saved, or are zero.
LEMMA Clipped ==
    ASSUME Inv, step = "clip",
           inherited' = [c \in Notes |-> IF c \in Children(note) THEN Smaller(inherited[c], new)
                                         ELSE inherited[c]],
           UNCHANGED <<noteVars, parent, holders, pageVars, mapVars, view, threadVars>>,
           dest' \in {dest, None}
    PROVE  /\ NotesInv'
           /\ inherited' \in [Notes -> Sizes]
<1>1. /\ note \in Notes /\ call = "shrink"
  BY Zenon, Inside DEF Inv, TypeOK, LocalsInv, LockHeld
<1>2. /\ \A c \in Notes : inherited[c] \in Int /\ inherited[c] \in Sizes
      /\ new \in Int /\ new \in Sizes
  BY ConstantsAssumption DEF Inv, TypeOK, TreeTyped, LocalsTyped, Sizes
<1>3. \A c \in Notes : /\ inherited'[c] \in Sizes /\ inherited'[c] <= inherited[c]
                       /\ c \notin Children(note) => inherited'[c] = inherited[c]
                       /\ c \in Children(note) /\ inherited'[c] # inherited[c] => inherited'[c] = new
  BY <1>2 DEF Smaller
<1>4. inherited' \in [Notes -> Sizes]
  BY Zenon, <1>3
<1>5. Family'
  BY Zenon DEF Inv, NotesInv, Family
<1>6. WithinSize'
  <2>1. \A c \in Notes : size[c] \in Int /\ inherited[c] \in Int /\ inherited'[c] \in Int
    BY <1>4, ConstantsAssumption DEF Inv, TypeOK, TreeTyped, Sizes
  <2>2. \A c \in Notes : inherited'[c] <= size[c]
    BY <1>3, <2>1 DEF Inv, NotesInv, WithinSize
  <2> QED BY Zenon, <2>2 DEF Inv, NotesInv, WithinSize
<1>7. EscapedIsPrivate'
  BY Zenon, <1>3, <1>4, EscapedFrame
<1>8. ReleasedOnce'
  BY Zenon DEF Inv, NotesInv, ReleasedOnce
<1>9. ViewsHold'
  <2> SUFFICES ASSUME NEW m \in live, NEW p \in Pages
               PROVE  IF cached[m][p] # None THEN p < size[m] /\ view[m][p] = cached[m][p]
                      ELSE IF IsInherited(m, p)' THEN view[m][p] = view[parent[m]][p]
                      ELSE view[m][p] = file[m][p]
    BY Zenon DEF ViewsHold
  <2>1. m \in Notes /\ p \in Int
    BY ConstantsAssumption DEF Inv, TypeOK, TreeTyped, Pages
  <2>2. IsInherited(m, p)' => IsInherited(m, p)
    BY <1>2, <1>3, <2>1, ConstantsAssumption DEF IsInherited, Sizes
  <2>3. CASE IsInherited(m, p) /\ ~IsInherited(m, p)'
    <3>1. m \in Children(note) /\ inherited'[m] = new /\ p >= new /\ p < inherited[m]
          /\ cached[m][p] = None /\ parent[m] = note
      BY <1>2, <1>3, <2>1, <2>3 DEF IsInherited, Children
    <3>2. StillRead(note, p)
      BY Zenon, <3>1 DEF StillRead
    <3>3. ScanCovers(p)
      BY Zenon, <1>1, <3>1, <3>2 DEF Inv, LocalsInv, ShrinkIsRight
    <3>4. view[note][p] = Zero
      BY Zenon, <3>3 DEF ScanCovers
    <3>5. view[m][p] = Zero
      BY Zenon, <2>3, <3>1, <3>4 DEF Inv, NotesInv, ViewsHold
    <3>6. file[m][p] = Zero
      BY <1>1, <2>1, <3>1, ConstantsAssumption DEF Inv, NotesInv, Family, Zeros
    <3> QED BY Zenon, <2>3, <3>1, <3>5, <3>6
  <2>4. CASE IsInherited(m, p)' <=> IsInherited(m, p)
    BY Zenon, <2>4 DEF Inv, NotesInv, ViewsHold
  <2> QED BY Zenon, <2>2, <2>3, <2>4
<1> QED BY Zenon, <1>4, <1>5, <1>6, <1>7, <1>8, <1>9 DEF NotesInv

\* The children of a shrinking note stop to inherit what goes away, or this fails.
LEMMA NotesClip ==
    ASSUME Inv, Clip \/ ClipFails
    PROVE  TypeOK' /\ NotesInv'
<1>1. NotesInv' /\ inherited' \in [Notes -> Sizes]
  <2>1. CASE Clip
    BY Zenon, <2>1, Clipped DEF Clip
  <2>2. CASE ClipFails
    BY Zenon, <2>2, Clipped DEF ClipFails, Leave
  <2> QED BY Zenon, <2>1, <2>2
<1>2. LocalsTyped' /\ lock' \in Threads \cup {None}
  <2>1. CASE Clip
    BY Zenon, <2>1, TypedLocals DEF LocalsTyped, Clip, Inv, TypeOK
  <2>2. CASE ClipFails
    BY <2>2, ConstantsAssumption DEF LocalsTyped, ClipFails, Leave, NoPages, Sizes
  <2> QED BY Zenon, <2>1, <2>2
<1>3. UNCHANGED <<noteVars, parent, holders, pageVars, mapVars, view, threadVars>>
  BY Zenon DEF Clip, ClipFails
<1>4. TypeOK'
  BY Zenon, <1>1, <1>2, <1>3 DEF Inv, TypeOK, TreeTyped, PagesTyped, MapsTyped, ThreadsTyped
<1> QED BY Zenon, <1>1, <1>4

\* The note loses its pages from the new size on; no child reads them any more.
LEMMA NotesTruncate ==
    ASSUME Inv, Truncate
    PROVE  TypeOK' /\ NotesInv'
<1>1. /\ note \in Notes /\ note \in live /\ lock \in Threads /\ pc[lock] = "idle"
      /\ call = "shrink" /\ mappers[note] = {} /\ new < size[note]
      /\ clean = {p \in Pages : cached[note][p] # None}
      /\ \A c \in Children(note) : inherited[c] <= new
  BY Zenon, Inside DEF Truncate, Inv, LocalsInv, LockHeld, ShrinkIsRight
<1>2. /\ new \in Sizes /\ new \in Int /\ size[note] \in Int
      /\ \A m \in Notes : inherited[m] \in Sizes /\ inherited[m] \in Int
  BY <1>1, ConstantsAssumption DEF Inv, TypeOK, TreeTyped, LocalsTyped, Sizes
<1>3. /\ \A m \in Notes \ {note} : /\ size'[m] = size[m] /\ file'[m] = file[m] /\ view'[m] = view[m]
                                   /\ inherited'[m] = inherited[m] /\ cached'[m] = cached[m]
      /\ size'[note] = new /\ inherited'[note] = Smaller(inherited[note], new)
      /\ file'[note] = Below(file[note], new, Zero)
      /\ cached'[note] = Below(cached[note], new, None)
      /\ view'[note] = Below(view[note], new, Zero)
      /\ UNCHANGED <<live, external, parent, holders, mapVars>>
  BY Zenon, <1>1 DEF Inv, TypeOK, TreeTyped, PagesTyped, Truncate
<1>4. /\ \A u \in Threads \ {lock} : pc'[u] = pc[u] /\ arg'[u] = arg[u] /\ detached'[u] = detached[u]
      /\ pc'[lock] = "pages" /\ arg'[lock] = note /\ dest' = None
      /\ detached'[lock] = NoPages
  <2>1. detached'[lock] = [p \in Pages |-> IF p \in clean \/ p < new THEN None ELSE cached[note][p]]
    BY Zenon, <1>1 DEF Inv, TypeOK, ThreadsTyped, Truncate
  <2>2. \A p \in Pages : (IF p \in clean \/ p < new THEN None ELSE cached[note][p]) = None
    BY Zenon, <1>1
  <2>3. detached'[lock] = NoPages
    BY Zenon, <2>1, <2>2 DEF NoPages
  <2> QED BY Zenon, <1>1, <2>3 DEF Inv, TypeOK, ThreadsTyped, Truncate, Leave
<1>5. /\ inherited'[note] \in Sizes /\ inherited'[note] <= new /\ inherited'[note] <= inherited[note]
      /\ \A p \in Pages : p < inherited'[note] <=> p < inherited[note] /\ p < new
  BY <1>1, <1>2, <1>3, ConstantsAssumption DEF Smaller, Pages
<1>6. /\ Below(file[note], new, Zero) \in [Pages -> Values]
      /\ Below(cached[note], new, None) \in [Pages -> Values \cup {None}]
      /\ Below(view[note], new, Zero) \in [Pages -> Values]
  BY <1>1, ConstantsAssumption DEF Inv, TypeOK, PagesTyped, Below
<1>7. TypeOK'
  <2>1. size' \in [Notes -> Sizes] /\ inherited' \in [Notes -> Sizes]
    BY Zenon, <1>1, <1>2, <1>3, <1>5 DEF Inv, TypeOK, TreeTyped, Truncate
  <2>2. /\ file' \in [Notes -> [Pages -> Values]] /\ view' \in [Notes -> [Pages -> Values]]
        /\ cached' \in [Notes -> [Pages -> Values \cup {None}]]
    BY Zenon, <1>1, <1>6 DEF Inv, TypeOK, PagesTyped, Truncate
  <2>3. /\ pc' \in [Threads -> {"idle", "drop", "parent", "pages"}]
        /\ arg' \in [Threads -> Notes \cup {None}]
    BY Zenon, <1>1 DEF Inv, TypeOK, ThreadsTyped, Truncate
  <2>4. detached' \in [Threads -> [Pages -> Values \cup {None}]]
    <3>1. [p \in Pages |-> IF p \in clean \/ p < new THEN None ELSE cached[note][p]]
              \in [Pages -> Values \cup {None}]
      BY Zenon, <1>1 DEF Inv, TypeOK
    <3> QED BY Zenon, <1>1, <3>1 DEF Inv, TypeOK, ThreadsTyped, Truncate
  <2>5. LocalsTyped' /\ lock' = None
    BY ConstantsAssumption DEF LocalsTyped, Truncate, Leave, NoPages, Sizes
  <2> QED BY Zenon, <1>3, <2>1, <2>2, <2>3, <2>4, <2>5 DEF Inv, TypeOK, TreeTyped, PagesTyped,
                                                           MapsTyped, ThreadsTyped
<1>8. Family'
  <2>1. note \notin external => Below(file[note], new, Zero) = Zeros
    BY <1>1, <1>6 DEF Inv, NotesInv, Family, Below, Zeros
  <2> QED BY <1>1, <1>3, <2>1 DEF Inv, NotesInv, Family
<1>9. WithinSize'
  <2> SUFFICES ASSUME NEW m \in Notes
               PROVE  /\ inherited'[m] <= size'[m]
                      /\ \A p \in Pages : p >= size'[m] => view'[m][p] = Zero
    BY Zenon DEF WithinSize
  <2>1. CASE m = note
    <3>1. \A p \in Pages : p >= new => view'[note][p] = Zero
      BY <1>2, <1>3, ConstantsAssumption DEF Below, Pages
    <3> QED BY Zenon, <1>3, <1>5, <2>1, <3>1
  <2>2. CASE m # note
    BY <1>3, <2>2 DEF Inv, NotesInv, WithinSize
  <2> QED BY Zenon, <2>1, <2>2
<1>10. EscapedIsPrivate'
  <2>1. escaped[note] = {}
    BY <1>1 DEF Inv, NotesInv, EscapedIsPrivate, TypeOK, MapsTyped
  <2>2. \A m \in Notes, p \in Pages : StillRead(m, p)' => StillRead(m, p)
    <3>1. \A c \in Notes, p \in Pages : p < inherited'[c] /\ cached'[c][p] = None
                                            => p < inherited[c] /\ cached[c][p] = None
      BY <1>3, <1>5 DEF Below
    <3> QED BY Zenon, <1>3, <3>1 DEF StillRead, Children
  <2>3. ASSUME NEW m \in Notes, NEW t \in Threads, NEW p \in Pages, <<t, p>> \in escaped[m]
        PROVE  t \in mappers[m] /\ cached'[m][p] # None /\ ~StillRead(m, p)'
    <3>1. t \in mappers[m] /\ cached[m][p] # None /\ ~StillRead(m, p) /\ m # note
      BY Zenon, <2>1, <2>3 DEF Inv, NotesInv, EscapedIsPrivate
    <3> QED BY Zenon, <1>3, <2>2, <3>1
  <2>4. \A m \in Notes : mappers[m] \subseteq holders[m]
    BY Zenon DEF Inv, NotesInv, EscapedIsPrivate
  <2> QED BY Zenon, <1>3, <2>3, <2>4 DEF EscapedIsPrivate
<1>11. ReleasedOnce'
  <2>1. pc'[lock] # "idle" /\ pc'[lock] \notin {"drop", "parent"} /\ pc'[lock] # "drop" /\ pc'[lock] # "parent"
    BY <1>4
  <2>2. arg'[lock] # None
    BY Zenon, <1>1, <1>4, ConstantsAssumption
  <2>3. \A t \in Threads : pc[t] = "parent" => arg[t] # None
    <3>1. "parent" # "idle"
      OBVIOUS
    <3> QED BY Zenon, <3>1 DEF Inv, NotesInv, ReleasedOnce
  <2>4. ASSUME NEW t \in Threads \ {lock}
        PROVE  /\ pc'[t] = "idle" <=> arg'[t] = None
               /\ pc'[t] = "drop" => arg'[t] \in live /\ holders[arg'[t]] = {}
               /\ pc'[t] = "parent" => /\ arg'[t] \notin live /\ arg'[t] # dest'
                                       /\ \E n \in Notes : arg'[t] \in holders[n]
               /\ detached'[t] = NoPages
    <3>1. pc'[t] = pc[t] /\ arg'[t] = arg[t] /\ detached'[t] = detached[t] /\ dest' = None
      BY Zenon, <1>4
    <3>2. /\ pc[t] = "idle" <=> arg[t] = None
          /\ pc[t] = "drop" => arg[t] \in live /\ holders[arg[t]] = {}
          /\ pc[t] = "parent" => arg[t] \notin live /\ \E n \in Notes : arg[t] \in holders[n]
          /\ detached[t] = NoPages
      BY Zenon DEF Inv, NotesInv, ReleasedOnce
    <3> QED BY Zenon, <2>3, <3>1, <3>2
  <2>5. ASSUME NEW t \in Threads, NEW u \in Threads, pc'[t] \in {"drop", "parent"},
               pc'[u] \in {"drop", "parent"}, arg'[u] = arg'[t]
        PROVE  u = t
    <3>1. t # lock /\ u # lock
      BY Zenon, <2>1, <2>5
    <3>2. pc'[t] = pc[t] /\ arg'[t] = arg[t] /\ pc'[u] = pc[u] /\ arg'[u] = arg[u]
      BY Zenon, <1>4, <3>1
    <3>3. pc[t] \in {"drop", "parent"} /\ pc[u] \in {"drop", "parent"} /\ arg[u] = arg[t]
      BY Zenon, <2>5, <3>2
    <3> QED BY Zenon, <3>3 DEF Inv, NotesInv, ReleasedOnce
  <2> QED BY Zenon, <1>3, <1>4, <2>1, <2>2, <2>4, <2>5 DEF ReleasedOnce
<1>12. ViewsHold'
  <2> SUFFICES ASSUME NEW m \in live, NEW p \in Pages
               PROVE  IF cached'[m][p] # None THEN p < size'[m] /\ view'[m][p] = cached'[m][p]
                      ELSE IF IsInherited(m, p)' THEN view'[m][p] = view'[parent[m]][p]
                      ELSE view'[m][p] = file'[m][p]
    BY Zenon, <1>3 DEF ViewsHold
  <2>1. /\ m \in Notes /\ p \in Int /\ parent[m] \in Notes \cup {None} /\ None \notin Notes
    BY ConstantsAssumption DEF Inv, TypeOK, TreeTyped, Pages
  <2>2. IF cached[m][p] # None THEN p < size[m] /\ view[m][p] = cached[m][p]
        ELSE IF IsInherited(m, p) THEN view[m][p] = view[parent[m]][p]
        ELSE view[m][p] = file[m][p]
    BY Zenon DEF Inv, NotesInv, ViewsHold
  <2>3. CASE m = note
    <3>1. CASE p >= new
      <4>1. ~(p < new)
        BY <1>2, <2>1, <3>1
      <4>2. cached'[m][p] = None /\ view'[m][p] = Zero /\ file'[m][p] = Zero
        BY Zenon, <1>3, <2>3, <4>1 DEF Below
      <4>3. ~IsInherited(m, p)'
        BY Zenon, <1>5, <2>3, <4>1 DEF IsInherited
      <4> QED BY Zenon, <4>2, <4>3
    <3>2. CASE p < new
      <4>1. cached'[m][p] = cached[m][p] /\ view'[m][p] = view[m][p] /\ file'[m][p] = file[m][p]
        BY Zenon, <1>3, <2>3, <3>2 DEF Below
      <4>2. IsInherited(m, p)' <=> IsInherited(m, p)
        BY Zenon, <1>3, <1>5, <2>3, <3>2, <4>1 DEF IsInherited
      <4>3. parent[m] # None => view'[parent[m]][p] = view[parent[m]][p]
        BY <1>3, <2>1, <3>2 DEF Below
      <4>4. p < size'[m]
        BY Zenon, <1>3, <2>3, <3>2
      <4> QED BY Zenon, <2>2, <4>1, <4>2, <4>3, <4>4 DEF IsInherited
    <3> QED BY <1>2, <2>1, <3>1, <3>2
  <2>4. CASE m # note
    <3>1. /\ cached'[m] = cached[m] /\ view'[m] = view[m] /\ file'[m] = file[m]
          /\ size'[m] = size[m]
          /\ IsInherited(m, p)' <=> IsInherited(m, p)
      BY Zenon, <1>3, <2>1, <2>4 DEF IsInherited
    <3>2. IsInherited(m, p) => view'[parent[m]][p] = view[parent[m]][p]
      <4>1. CASE parent[m] = note
        <5>1. inherited[m] <= new /\ inherited[m] \in Int
          BY Zenon, <1>1, <1>2, <2>1, <4>1 DEF Children
        <5>2. p < inherited[m] => p < new
          BY <1>2, <2>1, <5>1
        <5> QED BY Zenon, <1>3, <4>1, <5>2 DEF IsInherited, Below
      <4>2. CASE parent[m] # note
        BY Zenon, <1>3, <2>1, <4>2 DEF IsInherited
      <4> QED BY Zenon, <4>1, <4>2
    <3> QED BY Zenon, <2>2, <3>1, <3>2
  <2> QED BY Zenon, <2>3, <2>4
<1> QED BY Zenon, <1>7, <1>8, <1>9, <1>10, <1>11, <1>12 DEF NotesInv

\* What a truncation left to release was clean, so the file stays as it is.
LEMMA NotesReleasePages ==
    ASSUME Inv, NEW t \in Threads, ReleasePages(t)
    PROVE  TypeOK' /\ NotesInv' /\ file' = file
<1>1. pc[t] = "pages" /\ detached[t] = NoPages /\ arg[t] \in Notes
  BY Zenon, ConstantsAssumption DEF ReleasePages, Inv, NotesInv, ReleasedOnce, TypeOK, ThreadsTyped
<1>2. file' = file
  <2>1. file[arg[t]] = [p \in Pages |-> IF detached[t][p] # None THEN detached[t][p] ELSE file[arg[t]][p]]
    <3>1. \A p \in Pages : detached[t][p] = None
      BY Zenon, <1>1 DEF NoPages
    <3>2. file[arg[t]] \in [Pages -> Values]
      BY Zenon, <1>1 DEF Inv, TypeOK, PagesTyped
    <3> QED BY Zenon, <3>1, <3>2
  <2>2. file' = [file EXCEPT ![arg[t]] = file[arg[t]]]
    BY Zenon, <2>1 DEF ReleasePages
  <2> QED BY Zenon, <1>1, <2>2 DEF Inv, TypeOK, PagesTyped
<1>3. /\ \A u \in Threads \ {t} : pc'[u] = pc[u] /\ arg'[u] = arg[u]
      /\ pc'[t] = "idle" /\ arg'[t] = None /\ detached' = detached
      /\ UNCHANGED <<noteVars, treeVars, holders, cached, mapVars, view, lock, localVars>>
  BY Zenon, <1>1 DEF ReleasePages, Inv, TypeOK, ThreadsTyped
<1>4. TypeOK'
  <2>1. pc' \in [Threads -> {"idle", "drop", "parent", "pages"}] /\ arg' \in [Threads -> Notes \cup {None}]
    BY Zenon DEF ReleasePages, Inv, TypeOK, ThreadsTyped
  <2>2. TreeTyped' /\ lock' \in Threads \cup {None}
    BY Zenon, <1>3 DEF Inv, TypeOK, TreeTyped
  <2>3. PagesTyped' /\ MapsTyped'
    BY Zenon, <1>2, <1>3 DEF Inv, TypeOK, PagesTyped, MapsTyped
  <2>4. ThreadsTyped'
    BY Zenon, <1>3, <2>1 DEF Inv, TypeOK, ThreadsTyped
  <2>5. LocalsTyped'
    BY Zenon, <1>3 DEF Inv, TypeOK, LocalsTyped
  <2> QED BY Zenon, <2>2, <2>3, <2>4, <2>5 DEF TypeOK
<1>5. Family' /\ WithinSize'
  <2>1. Family'
    BY Zenon, <1>2, <1>3 DEF Inv, NotesInv, Family
  <2>2. WithinSize'
    BY Zenon, <1>3 DEF Inv, NotesInv, WithinSize
  <2> QED BY Zenon, <2>1, <2>2
<1>6. EscapedIsPrivate'
  BY Zenon, <1>3 DEF Inv, NotesInv, EscapedIsPrivate, StillRead, Children
<1>7. ReleasedOnce'
  BY <1>3 DEF Inv, NotesInv, ReleasedOnce
<1>8. ViewsHold'
  BY Zenon, <1>2, <1>3 DEF Inv, NotesInv, ViewsHold, IsInherited
<1> QED BY Zenon, <1>2, <1>4, <1>5, <1>6, <1>7, <1>8 DEF NotesInv

=============================================================================
