------------------------- MODULE NoteLineageProofs --------------------------
(***************************************************************************)
(* The part of the induction about the notes themselves: their types, the  *)
(* family tree, references, sizes, mapped pages and contents.              *)
(***************************************************************************)
EXTENDS NoteLineage, TLAPS

USE DEF noteVars, treeVars, pageVars, mapVars, threadVars, localVars

-----------------------------------------------------------------------------
(* What does not touch the notes.                                          *)

\* The invariant of the notes does not depend on the locals of the lock's holder.
LEMMA NotesFrame ==
    ASSUME Inv,
           UNCHANGED <<noteVars, treeVars, holders, pageVars, mapVars, view, threadVars>>,
           \A t \in Threads : pc[t] = "parent" => arg[t] # dest'
    PROVE  NotesInv'
<1>1. Family' /\ WithinSize'
  BY DEF Inv, NotesInv, Family, WithinSize
<1>2. EscapedIsPrivate'
  BY Zenon DEF Inv, NotesInv, EscapedIsPrivate, StillRead, Children
<1>3. ReleasedOnce'
  BY Zenon DEF Inv, NotesInv, ReleasedOnce
<1>4. ViewsHold'
  BY Zenon DEF Inv, NotesInv, ViewsHold, IsInherited
<1> QED BY Zenon, <1>1, <1>2, <1>3, <1>4 DEF NotesInv

\* A call that returns early leaves the notes as they are.
LEMMA NotesLeave ==
    ASSUME Inv, Leave,
           UNCHANGED <<noteVars, treeVars, holders, pageVars, mapVars, view, threadVars>>
    PROVE  TypeOK' /\ NotesInv'
<1>1. TypeOK'
  BY ConstantsAssumption DEF Inv, TypeOK, TreeTyped, PagesTyped, MapsTyped, ThreadsTyped,
                             LocalsTyped, Leave, NoPages, Sizes, Pages
<1>2. \A t \in Threads : pc[t] = "parent" => arg[t] # dest'
  BY Zenon DEF Inv, NotesInv, ReleasedOnce, Leave
<1>3. NotesInv'
  BY Zenon, <1>2, NotesFrame
<1> QED BY Zenon, <1>1, <1>3

\* So do the steps that only move the locals.
LEMMA NotesOnlyStep ==
    ASSUME Inv, OnlyStep, UNCHANGED dest
    PROVE  NotesInv'
<1>1. \A t \in Threads : pc[t] = "parent" => arg[t] # dest'
  BY Zenon DEF Inv, NotesInv, ReleasedOnce
<1> QED BY Zenon, <1>1, NotesFrame DEF OnlyStep, Locked

\* Pages that appear in a note leave mapped pages as private as they were.
LEMMA EscapedFrame ==
    ASSUME Inv,
           UNCHANGED <<parent, holders, mappers, escaped>>,
           \A n \in Notes : inherited'[n] <= inherited[n],
           inherited' \in [Notes -> Sizes],
           \A n \in Notes, p \in Pages : cached[n][p] # None => cached'[n][p] # None
    PROVE  EscapedIsPrivate'
<1>1. \A n \in Notes, p \in Pages : StillRead(n, p)' => StillRead(n, p)
  <2> SUFFICES ASSUME NEW n \in Notes, NEW p \in Pages, NEW c \in Notes, parent[c] = n,
                      p < inherited'[c], cached'[c][p] = None
               PROVE  p < inherited[c] /\ cached[c][p] = None
    BY Zenon DEF StillRead, Children
  <2>1. p < inherited[c]
    BY ConstantsAssumption DEF Inv, TypeOK, TreeTyped, Sizes, Pages
  <2> QED BY Zenon, <2>1
<1> QED BY Zenon, <1>1 DEF Inv, NotesInv, EscapedIsPrivate

-----------------------------------------------------------------------------
(* Creation and references.                                                *)

\* A free object has nothing to do with any note.
LEMMA FreeIsBlank ==
    ASSUME Inv, NEW n \in Notes, n \notin live
    PROVE  /\ n \notin external /\ holders[n] = {} /\ size[n] = 0 /\ inherited[n] = 0
           /\ parent[n] = None /\ Children(n) = {}
           /\ cached[n] = NoPages /\ file[n] = Zeros /\ view[n] = Zeros
           /\ mappers[n] = {} /\ escaped[n] = {}
<1>1. n \notin external /\ holders[n] = {} /\ size[n] = 0 /\ cached[n] = NoPages /\ escaped[n] = {}
  BY Zenon DEF Inv, NotesInv, Family
<1>2. parent[n] = None /\ Children(n) = {}
  BY ConstantsAssumption DEF Inv, NotesInv, Family, Children, TypeOK
<1>3. file[n] = Zeros /\ mappers[n] = {}
  BY <1>1 DEF Inv, NotesInv, Family, EscapedIsPrivate
<1>4. inherited[n] = 0
  BY <1>1, ConstantsAssumption DEF Inv, NotesInv, WithinSize, TypeOK, TreeTyped, Sizes
<1>5. view[n] = Zeros
  <2>1. \A p \in Pages : view[n][p] = Zero
    BY <1>1, ConstantsAssumption DEF Inv, NotesInv, WithinSize, Pages
  <2>2. view[n] \in [Pages -> Values]
    BY Zenon DEF Inv, TypeOK, PagesTyped
  <2> QED BY Zenon, <2>1, <2>2 DEF Zeros
<1> QED BY Zenon, <1>1, <1>2, <1>3, <1>4, <1>5

\* The object n becomes a note of size s that t holds, without parent.
Becomes(n, t, s, content, pages, shown) ==
    /\ live' = live \cup {n}
    /\ size' = [size EXCEPT ![n] = s]
    /\ file' = [file EXCEPT ![n] = content]
    /\ cached' = [cached EXCEPT ![n] = pages]
    /\ view' = [view EXCEPT ![n] = shown]
    /\ holders' = [holders EXCEPT ![n] = {t}]
    /\ external' = external \/ external' = external \cup {n}
    /\ n \notin external' => content = Zeros
    /\ UNCHANGED <<treeVars, mapVars, threadVars>>
    /\ dest' \in {dest, None}

\* What it shows is in its pages, or in its file.
Shows(s, content, pages, shown) ==
    \A p \in Pages : /\ p >= s => shown[p] = Zero /\ pages[p] = None
                     /\ shown[p] = IF pages[p] # None THEN pages[p] ELSE content[p]

\* A free object becomes a note without parent: created, opened over a file, or
\* filled with the pages of an external note.
LEMMA NewNote ==
    ASSUME Inv, NEW n \in Notes, n \notin live, \A m \in Notes : n \notin holders[m],
           NEW t \in Threads, NEW s \in Sizes,
           NEW content \in [Pages -> Values], NEW pages \in [Pages -> Values \cup {None}],
           NEW shown \in [Pages -> Values],
           Becomes(n, t, s, content, pages, shown), Shows(s, content, pages, shown)
    PROVE  NotesInv'
<1> USE DEF Becomes, Shows
<1>1. /\ \A m \in Notes \ {n} : /\ size'[m] = size[m] /\ file'[m] = file[m] /\ cached'[m] = cached[m]
                                /\ view'[m] = view[m] /\ holders'[m] = holders[m]
      /\ size'[n] = s /\ file'[n] = content /\ cached'[n] = pages /\ view'[n] = shown /\ holders'[n] = {t}
  BY Zenon DEF Inv, TypeOK, TreeTyped, PagesTyped
<1>2. /\ n \notin external /\ holders[n] = {} /\ inherited[n] = 0 /\ parent[n] = None
      /\ Children(n) = {} /\ mappers[n] = {} /\ escaped[n] = {}
  BY Zenon, FreeIsBlank
<1>3. Family'
  BY <1>1, <1>2, ConstantsAssumption DEF Inv, NotesInv, Family, TypeOK, Children
<1>4. WithinSize'
  BY <1>1, <1>2, ConstantsAssumption DEF Inv, NotesInv, WithinSize, TypeOK, Sizes
<1>5. EscapedIsPrivate'
  <2>1. \A m \in Notes, p \in Pages : StillRead(m, p)' <=> StillRead(m, p)
    BY <1>1, <1>2, ConstantsAssumption DEF StillRead, Children, Pages
  <2> QED BY <1>1, <1>2, <2>1 DEF Inv, NotesInv, EscapedIsPrivate
<1>6. ReleasedOnce'
  <2>1. \A u \in Threads : pc[u] \in {"drop", "parent"} => arg[u] \in Notes \ {n}
    BY ConstantsAssumption DEF Inv, NotesInv, ReleasedOnce, TypeOK, TreeTyped, ThreadsTyped
  <2>2. \A u \in Threads : pc[u] = "parent" => arg[u] # dest'
    BY Zenon, ConstantsAssumption DEF Inv, NotesInv, ReleasedOnce, TypeOK
  <2>3. \A u \in Threads : pc[u] = "parent" => \E m \in Notes \ {n} : arg[u] \in holders[m]
    BY Zenon, <1>2 DEF Inv, NotesInv, ReleasedOnce
  <2> QED BY <1>1, <2>1, <2>2, <2>3 DEF Inv, NotesInv, ReleasedOnce
<1>7. ViewsHold'
  <2> SUFFICES ASSUME NEW m \in live', NEW p \in Pages
               PROVE  IF cached'[m][p] # None THEN p < size'[m] /\ view'[m][p] = cached'[m][p]
                      ELSE IF IsInherited(m, p)' THEN view'[m][p] = view'[parent'[m]][p]
                      ELSE view'[m][p] = file'[m][p]
    BY Zenon DEF ViewsHold
  <2>1. CASE m = n
    BY <1>1, <1>2, <2>1, ConstantsAssumption DEF IsInherited, Sizes, Pages
  <2>2. CASE m # n
    <3>1. m \in live /\ m \in Notes /\ parent[m] # n
      BY Zenon, <1>2, <2>2 DEF Inv, TypeOK, TreeTyped, Children
    <3>2. parent[m] # None => parent[m] \in Notes \ {n}
      BY Zenon, <3>1 DEF Inv, TypeOK, TreeTyped
    <3> QED BY <1>1, <2>2, <3>1, <3>2 DEF Inv, NotesInv, ViewsHold, IsInherited
  <2> QED BY Zenon, <2>1, <2>2
<1> QED BY Zenon, <1>3, <1>4, <1>5, <1>6, <1>7 DEF NotesInv

\* minimm_note_create.
LEMMA NotesCreate ==
    ASSUME Inv, NEW t \in Threads, NEW n \in Notes, NEW s \in Sizes, Create(t, n, s)
    PROVE  TypeOK' /\ NotesInv'
<1>1. n \notin live /\ \A m \in Notes : n \notin holders[m]
  BY Zenon DEF Create, IsFree
<1>2. /\ Zeros \in [Pages -> Values] /\ NoPages \in [Pages -> Values \cup {None}]
      /\ \A p \in Pages : Zeros[p] = Zero /\ NoPages[p] = None
  BY Zenon, ConstantsAssumption DEF Zeros, NoPages
<1>3. TypeOK'
  <2>1. TreeTyped' /\ PagesTyped'
    BY <1>2, ConstantsAssumption DEF Inv, TypeOK, TreeTyped, PagesTyped, Create, Adopt
  <2>2. UNCHANGED <<mapVars, threadVars, lock, localVars>>
    BY Zenon DEF Create
  <2>3. MapsTyped'
    BY Zenon, <2>2 DEF Inv, TypeOK, MapsTyped
  <2>4. ThreadsTyped'
    BY Zenon, <2>2 DEF Inv, TypeOK, ThreadsTyped
  <2>5. LocalsTyped'
    BY Zenon, <2>2 DEF Inv, TypeOK, LocalsTyped
  <2>6. lock' \in Threads \cup {None}
    BY Zenon, <2>2 DEF Inv, TypeOK
  <2> QED BY Zenon, <2>1, <2>3, <2>4, <2>5, <2>6 DEF TypeOK
<1>4. cached' = [cached EXCEPT ![n] = NoPages] /\ view' = [view EXCEPT ![n] = Zeros]
  BY Zenon, <1>1, FreeIsBlank DEF Inv, TypeOK, PagesTyped, Create
<1>5. Becomes(n, t, s, Zeros, NoPages, Zeros)
  BY Zenon, <1>4 DEF Create, Adopt, Becomes
<1>6. Shows(s, Zeros, NoPages, Zeros)
  BY Zenon, <1>2 DEF Shows
<1>7. NotesInv'
  BY Zenon, <1>1, <1>2, <1>5, <1>6, NewNote
<1> QED BY Zenon, <1>3, <1>7

\* A note over an existing file.
LEMMA NotesOpenFd ==
    ASSUME Inv, NEW t \in Threads, NEW n \in Notes, NEW s \in Sizes, NEW content \in Contents,
           OpenFd(t, n, s, content)
    PROVE  TypeOK' /\ NotesInv'
<1>1. n \notin live /\ \A m \in Notes : n \notin holders[m]
  BY Zenon DEF OpenFd, IsFree
<1>2. /\ content \in [Pages -> Values] /\ NoPages \in [Pages -> Values \cup {None}]
      /\ \A p \in Pages : NoPages[p] = None /\ (p >= s => content[p] = Zero)
  BY Zenon, ConstantsAssumption DEF NoPages, Pages, OpenFd
<1>3. TypeOK'
  BY <1>2, ConstantsAssumption DEF Inv, TypeOK, TreeTyped, PagesTyped, MapsTyped, ThreadsTyped,
                                   LocalsTyped, OpenFd, Adopt
<1>4. cached' = [cached EXCEPT ![n] = NoPages]
  BY Zenon, <1>1, FreeIsBlank DEF Inv, TypeOK, PagesTyped, OpenFd
<1>5. Becomes(n, t, s, content, NoPages, content)
  BY Zenon, <1>4 DEF OpenFd, Adopt, Becomes
<1>6. Shows(s, content, NoPages, content)
  BY Zenon, <1>2 DEF Shows
<1>7. NotesInv'
  BY Zenon, <1>1, <1>2, <1>5, <1>6, NewNote
<1> QED BY Zenon, <1>3, <1>7

\* The copy of an external note is filled.
LEMMA NotesCopyDone ==
    ASSUME Inv, CopyDone
    PROVE  TypeOK' /\ NotesInv'
<1>1. /\ dest \in Notes /\ dest \notin live /\ lock \in Threads /\ note \in Notes
      /\ \A m \in Notes : dest \notin holders[m]
      /\ \A p \in Pages : /\ p >= size[note] => buf[p] = None
                          /\ p < size[note] => buf[p] = view[note][p]
  BY Zenon, ConstantsAssumption DEF Inv, LocalsInv, LockHeld, CopyIsRight, CopyDone, TypeOK,
                                    TreeTyped
<1>2. Zeros \in [Pages -> Values] /\ NoPages \in [Pages -> Values \cup {None}]
  BY Zenon, ConstantsAssumption DEF Zeros, NoPages
<1>3. TypeOK'
  BY <1>1, <1>2, ConstantsAssumption DEF Inv, TypeOK, TreeTyped, PagesTyped, MapsTyped,
                                         ThreadsTyped, LocalsTyped, CopyDone, Adopt, Leave, Sizes
<1>4. /\ buf \in [Pages -> Values \cup {None}] /\ view[note] \in [Pages -> Values]
      /\ size[note] \in Sizes
  BY Zenon, <1>1 DEF Inv, TypeOK, TreeTyped, PagesTyped, LocalsTyped
<1>5. Shows(size[note], Zeros, buf, view[note])
  <2> SUFFICES ASSUME NEW p \in Pages
               PROVE  /\ p >= size[note] => view[note][p] = Zero /\ buf[p] = None
                      /\ view[note][p] = IF buf[p] # None THEN buf[p] ELSE Zeros[p]
    BY Zenon DEF Shows
  <2>1. CASE p >= size[note]
    BY Zenon, <1>1, <2>1 DEF Inv, NotesInv, WithinSize, Zeros
  <2>2. CASE p < size[note]
    BY Zenon, <1>1, <1>4, <2>2, ConstantsAssumption DEF Pages, Sizes
  <2> QED BY <1>4, <2>1, <2>2, ConstantsAssumption DEF Pages, Sizes
<1>6. Becomes(dest, lock, size[note], Zeros, buf, view[note])
  BY Zenon, <1>1 DEF CopyDone, Adopt, Leave, Becomes
<1>7. NotesInv'
  BY Zenon, <1>1, <1>2, <1>4, <1>5, <1>6, NewNote
<1> QED BY Zenon, <1>3, <1>7

\* minimm_note_copy: a child that reads every page of its parent.
LEMMA NotesCopy ==
    ASSUME Inv, NEW t \in Threads, NEW n \in Notes, NEW c \in Notes, Copy(t, n, c)
    PROVE  TypeOK' /\ NotesInv'
<1>1. /\ c \notin live /\ \A m \in Notes : c \notin holders[m]
      /\ t \in holders[n] /\ n \notin external /\ mappers[n] = {} /\ lock = None
  BY Zenon DEF Copy, IsFree, Enters
<1>2. n \in live /\ n # c
  BY Zenon, <1>1, FreeIsBlank
<1>3. /\ c \notin external /\ holders[c] = {} /\ Children(c) = {} /\ cached[c] = NoPages
      /\ mappers[c] = {} /\ escaped[c] = {}
  BY Zenon, <1>1, FreeIsBlank
<1>4. TypeOK'
  <2>1. holders' \in [Notes -> SUBSET (Threads \cup Notes)]
    <3> DEFINE kept == [holders EXCEPT ![n] = @ \cup {c}]
    <3>1. kept \in [Notes -> SUBSET (Threads \cup Notes)]
      BY Zenon DEF Inv, TypeOK, TreeTyped
    <3>2. holders' = [kept EXCEPT ![c] = {t}]
      BY Zenon DEF Copy
    <3> HIDE DEF kept
    <3> QED BY Zenon, <3>1, <3>2
  <2>2. Zeros \in [Pages -> Values]
    BY Zenon, ConstantsAssumption DEF Zeros
  <2>3. /\ live' \in SUBSET Notes /\ size' \in [Notes -> Sizes]
        /\ parent' \in [Notes -> Notes \cup {None}] /\ inherited' \in [Notes -> Sizes]
    BY Zenon DEF Inv, TypeOK, TreeTyped, Copy, Adopt
  <2>4. file' \in [Notes -> [Pages -> Values]] /\ view' \in [Notes -> [Pages -> Values]]
    BY Zenon, <2>2 DEF Inv, TypeOK, PagesTyped, Copy, Adopt
  <2>5. UNCHANGED <<external, cached, mapVars, threadVars, lock, localVars>>
    BY Zenon DEF Copy
  <2> QED BY <2>1, <2>3, <2>4, <2>5 DEF Inv, TypeOK, TreeTyped, PagesTyped, MapsTyped,
                                        ThreadsTyped, LocalsTyped
<1>5. /\ \A m \in Notes \ {c} : /\ size'[m] = size[m] /\ file'[m] = file[m] /\ view'[m] = view[m]
                                /\ parent'[m] = parent[m] /\ inherited'[m] = inherited[m]
      /\ \A m \in Notes \ {c, n} : holders'[m] = holders[m]
      /\ holders'[n] = holders[n] \cup {c} /\ holders'[c] = {t}
      /\ size'[c] = size[n] /\ file'[c] = Zeros /\ view'[c] = view[n]
      /\ parent'[c] = n /\ inherited'[c] = size[n]
      /\ live' = live \cup {c}
      /\ UNCHANGED <<external, cached, mappers, escaped, pc, arg, detached, dest>>
  BY Zenon, <1>2 DEF Inv, TypeOK, TreeTyped, PagesTyped, Copy, Adopt
<1>6. Family'
  <2> SUFFICES ASSUME NEW m \in Notes
               PROVE  /\ m \notin live' => /\ m \notin external' /\ holders'[m] = {} /\ size'[m] = 0
                                           /\ cached'[m] = NoPages /\ escaped'[m] = {}
                      /\ parent'[m] # None => /\ parent'[m] # m
                                              /\ {m, parent'[m]} \subseteq live' \ external'
                                              /\ m \in holders'[parent'[m]]
                      /\ m \notin external' => file'[m] = Zeros
    BY Zenon DEF Family
  <2>1. CASE m = c
    BY Zenon, <1>1, <1>2, <1>3, <1>5, <2>1
  <2>2. CASE m # c
    <3>1. parent[m] # None => parent[m] \in Notes \ {c}
      BY Zenon, <1>3 DEF Inv, TypeOK, TreeTyped, Children
    <3> QED BY <1>2, <1>5, <2>2, <3>1 DEF Inv, NotesInv, Family
  <2> QED BY Zenon, <2>1, <2>2
<1>7. WithinSize'
  <2> SUFFICES ASSUME NEW m \in Notes
               PROVE  /\ inherited'[m] <= size'[m]
                      /\ \A p \in Pages : p >= size'[m] => view'[m][p] = Zero
    BY Zenon DEF WithinSize
  <2>1. CASE m = c
    BY <1>5, <2>1, ConstantsAssumption DEF Inv, NotesInv, WithinSize, TypeOK, TreeTyped,
                                           PagesTyped, Sizes
  <2>2. CASE m # c
    BY <1>5, <2>2 DEF Inv, NotesInv, WithinSize
  <2> QED BY Zenon, <2>1, <2>2
<1>8. EscapedIsPrivate'
  <2>1. escaped[n] = {}
    BY <1>1 DEF Inv, NotesInv, EscapedIsPrivate, TypeOK, MapsTyped
  <2>2. \A m \in Notes \ {n}, p \in Pages : StillRead(m, p)' => StillRead(m, p)
    BY <1>5 DEF StillRead, Children
  <2> QED BY Zenon, <1>1, <1>3, <1>5, <2>1, <2>2 DEF Inv, NotesInv, EscapedIsPrivate
<1>9. ReleasedOnce'
  <2>1. \A u \in Threads : pc[u] = "drop" => arg[u] \in live \ {n}
    BY Zenon, <1>1 DEF Inv, NotesInv, ReleasedOnce
  <2>2. \A u \in Threads : pc[u] = "parent" => arg[u] # c
    BY <1>1 DEF Inv, NotesInv, ReleasedOnce
  <2>3. \A u \in Threads : pc[u] = "parent" => \E m \in Notes : arg[u] \in holders'[m]
    BY Zenon, <1>3, <1>5 DEF Inv, NotesInv, ReleasedOnce
  <2> QED BY <1>1, <1>5, <2>1, <2>2, <2>3 DEF Inv, NotesInv, ReleasedOnce, TypeOK, TreeTyped
<1>10. ViewsHold'
  <2> SUFFICES ASSUME NEW m \in live', NEW p \in Pages
               PROVE  IF cached'[m][p] # None THEN p < size'[m] /\ view'[m][p] = cached'[m][p]
                      ELSE IF IsInherited(m, p)' THEN view'[m][p] = view'[parent'[m]][p]
                      ELSE view'[m][p] = file'[m][p]
    BY Zenon DEF ViewsHold
  <2>1. CASE m = c
    <3>1. cached'[m][p] = None
      BY Zenon, <1>3, <1>5, <2>1 DEF NoPages
    <3>2. p >= size[n] => view[n][p] = Zero
      BY Zenon DEF Inv, NotesInv, WithinSize
    <3> QED BY <1>2, <1>5, <2>1, <3>1, <3>2, ConstantsAssumption
            DEF IsInherited, Inv, TypeOK, TreeTyped, PagesTyped, Zeros, Pages, Sizes
  <2>2. CASE m # c
    <3>1. m \in live /\ m \in Notes /\ parent[m] # c
      BY Zenon, <1>3, <1>5, <2>2 DEF Inv, TypeOK, TreeTyped, Children
    <3>2. parent[m] # None => parent[m] \in Notes \ {c}
      BY Zenon, <3>1 DEF Inv, TypeOK, TreeTyped
    <3>3. IF cached[m][p] # None THEN p < size[m] /\ view[m][p] = cached[m][p]
          ELSE IF IsInherited(m, p) THEN view[m][p] = view[parent[m]][p]
          ELSE view[m][p] = file[m][p]
      BY Zenon, <3>1 DEF Inv, NotesInv, ViewsHold
    <3>4. IsInherited(m, p)' <=> IsInherited(m, p)
      BY Zenon, <1>5, <2>2, <3>1 DEF IsInherited
    <3>5. IsInherited(m, p) => view'[parent'[m]][p] = view[parent[m]][p]
      BY Zenon, <1>5, <2>2, <3>1, <3>2 DEF IsInherited
    <3> QED BY Zenon, <1>5, <2>2, <3>1, <3>3, <3>4, <3>5
  <2> QED BY Zenon, <2>1, <2>2
<1> QED BY Zenon, <1>4, <1>6, <1>7, <1>8, <1>9, <1>10 DEF NotesInv

\* A thread takes a reference.
LEMMA NotesRetain ==
    ASSUME Inv, NEW t \in Threads, NEW n \in Notes, Retain(t, n)
    PROVE  TypeOK' /\ NotesInv'
<1>1. /\ holders'[n] = holders[n] \cup {t}
      /\ \A m \in Notes \ {n} : holders'[m] = holders[m]
      /\ \A m \in Notes : holders[m] \subseteq holders'[m]
      /\ holders[n] # {}
      /\ UNCHANGED <<noteVars, treeVars, pageVars, mapVars, view, threadVars, lock, localVars>>
  BY Zenon DEF Inv, TypeOK, TreeTyped, Retain
<1>2. n \in live
  BY Zenon, <1>1, FreeIsBlank
<1>3. TypeOK'
  <2>1. holders' \in [Notes -> SUBSET (Threads \cup Notes)]
    BY Zenon DEF Inv, TypeOK, TreeTyped, Retain
  <2> QED BY <1>1, <2>1 DEF Inv, TypeOK, TreeTyped, PagesTyped, MapsTyped, ThreadsTyped, LocalsTyped
<1>4. Family'
  <2>1. \A m \in Notes : m \notin live => holders'[m] = holders[m]
    BY Zenon, <1>1, <1>2
  <2>2. \A m \in Notes : parent[m] # None => parent[m] \in Notes
    BY Zenon DEF Inv, TypeOK, TreeTyped
  <2> QED BY Zenon, <1>1, <2>1, <2>2 DEF Inv, NotesInv, Family
<1>5. WithinSize' /\ ViewsHold'
  BY Zenon, <1>1 DEF Inv, NotesInv, WithinSize, ViewsHold, IsInherited
<1>6. EscapedIsPrivate'
  <2>1. \A m \in Notes, p \in Pages : StillRead(m, p)' <=> StillRead(m, p)
    BY Zenon, <1>1 DEF StillRead, Children
  <2>2. \A m \in Notes : mappers'[m] \subseteq holders'[m]
    BY Zenon, <1>1 DEF Inv, NotesInv, EscapedIsPrivate
  <2> QED BY Zenon, <1>1, <2>1, <2>2 DEF Inv, NotesInv, EscapedIsPrivate
<1>7. ReleasedOnce'
  <2>1. \A u \in Threads : pc[u] = "drop" => arg[u] # n
    BY Zenon, <1>1 DEF Inv, NotesInv, ReleasedOnce
  <2>2. \A u \in Threads : pc[u] = "parent" => \E m \in Notes : arg[u] \in holders'[m]
    BY Zenon, <1>1 DEF Inv, NotesInv, ReleasedOnce
  <2>3. \A u \in Threads : pc[u] = "drop" => holders'[arg[u]] = {}
    BY Zenon, <1>1, <2>1 DEF Inv, NotesInv, ReleasedOnce, TypeOK, TreeTyped
  <2> QED BY Zenon, <1>1, <2>2, <2>3 DEF Inv, NotesInv, ReleasedOnce
<1> QED BY Zenon, <1>3, <1>4, <1>5, <1>6, <1>7 DEF NotesInv

\* The holder h gives its reference up: a thread that no mapping speaks for, or
\* a freed note.  Whoever was the last will free the note.
LEMMA NotesDecrement ==
    ASSUME Inv, NEW t \in Threads, NEW n \in Notes, NEW h \in holders[n], Decrement(t, n, h),
           h \notin mappers[n], h \notin live,
           \/ pc[t] = "idle" /\ h \in Threads
           \/ pc[t] = "parent" /\ h = arg[t]
    PROVE  TypeOK' /\ NotesInv'
<1>1. /\ holders'[n] = holders[n] \ {h}
      /\ \A m \in Notes \ {n} : holders'[m] = holders[m]
      /\ \A u \in Threads \ {t} : pc'[u] = pc[u] /\ arg'[u] = arg[u]
      /\ pc'[t] = IF holders'[n] = {} THEN "drop" ELSE "idle"
      /\ arg'[t] = IF holders'[n] = {} THEN n ELSE None
      /\ UNCHANGED <<noteVars, treeVars, pageVars, mapVars, view, detached, lock, localVars>>
  <2>1. /\ holders'[n] = holders[n] \ {h}
        /\ \A m \in Notes \ {n} : holders'[m] = holders[m]
    BY Zenon DEF Inv, TypeOK, TreeTyped, Decrement
  <2>2. /\ \A u \in Threads \ {t} : pc'[u] = pc[u] /\ arg'[u] = arg[u]
        /\ pc'[t] = IF holders[n] = {h} THEN "drop" ELSE "idle"
        /\ arg'[t] = IF holders[n] = {h} THEN n ELSE None
    BY Zenon DEF Inv, TypeOK, ThreadsTyped, Decrement
  <2>3. holders[n] = {h} <=> holders'[n] = {}
    BY Zenon, <2>1
  <2>4. UNCHANGED <<noteVars, treeVars, pageVars, mapVars, view, detached, lock, localVars>>
    BY Zenon DEF Decrement
  <2> QED BY Zenon, <2>1, <2>2, <2>3, <2>4
<1>2. n \in live
  BY Zenon, FreeIsBlank
<1>3. TypeOK'
  <2>1. holders' \in [Notes -> SUBSET (Threads \cup Notes)]
    BY Zenon DEF Inv, TypeOK, TreeTyped, Decrement
  <2>2. pc' \in [Threads -> {"idle", "drop", "parent", "pages"}] /\ arg' \in [Threads -> Notes \cup {None}]
    BY Zenon DEF Inv, TypeOK, ThreadsTyped, Decrement
  <2>3. TreeTyped' /\ PagesTyped' /\ lock' \in Threads \cup {None}
    BY Zenon, <1>1, <2>1 DEF Inv, TypeOK, TreeTyped, PagesTyped
  <2>4. MapsTyped' /\ ThreadsTyped'
    BY Zenon, <1>1, <2>2 DEF Inv, TypeOK, MapsTyped, ThreadsTyped
  <2>5. LocalsTyped'
    BY Zenon, <1>1 DEF Inv, TypeOK, LocalsTyped
  <2> QED BY Zenon, <2>3, <2>4, <2>5 DEF TypeOK
<1>4. Family'
  <2>1. \A m \in Notes : m \notin live => holders'[m] = holders[m]
    BY Zenon, <1>1, <1>2
  <2>2. ASSUME NEW m \in Notes, parent[m] # None
        PROVE  m \in holders'[parent[m]]
    <3>1. parent[m] \in Notes /\ m \in live /\ m \in holders[parent[m]]
      BY Zenon, <2>2 DEF Inv, NotesInv, TypeOK, TreeTyped, Family
    <3> QED BY Zenon, <1>1, <3>1
  <2>3. ASSUME NEW m \in Notes, m \notin live
        PROVE  /\ m \notin external /\ holders'[m] = {} /\ size[m] = 0
               /\ cached[m] = NoPages /\ escaped[m] = {}
    BY Zenon, <2>1, <2>3 DEF Inv, NotesInv, Family
  <2>4. ASSUME NEW m \in Notes
        PROVE  /\ parent[m] # None => parent[m] # m /\ {m, parent[m]} \subseteq live \ external
               /\ m \notin external => file[m] = Zeros
    BY Zenon DEF Inv, NotesInv, Family
  <2>5. UNCHANGED <<live, external, size, cached, escaped, parent, file>>
    BY Zenon, <1>1
  <2> QED BY Zenon, <2>2, <2>3, <2>4, <2>5 DEF Family, NoPages, Zeros
<1>5. WithinSize' /\ ViewsHold'
  <2>1. UNCHANGED <<noteVars, treeVars, pageVars, view>>
    BY Zenon, <1>1
  <2> QED BY Zenon, <2>1 DEF Inv, NotesInv, WithinSize, ViewsHold, IsInherited
<1>6. EscapedIsPrivate'
  <2>1. \A m \in Notes : mappers[m] \subseteq holders'[m]
    BY Zenon, <1>1 DEF Inv, NotesInv, EscapedIsPrivate
  <2>2. \A m \in Notes, p \in Pages : StillRead(m, p)' <=> StillRead(m, p)
    BY Zenon, <1>1 DEF StillRead, Children
  <2>3. UNCHANGED <<mappers, escaped, cached>>
    BY Zenon, <1>1
  <2> QED BY Zenon, <2>1, <2>2, <2>3 DEF Inv, NotesInv, EscapedIsPrivate
<1>7. ReleasedOnce'
  <2>1. \A u \in Threads : pc[u] = "drop" => arg[u] # n
    BY Zenon DEF Inv, NotesInv, ReleasedOnce
  <2>2. \A u \in Threads \ {t} : pc[u] = "drop" => holders'[arg[u]] = {}
    BY <1>1, <2>1 DEF Inv, NotesInv, ReleasedOnce, TypeOK, ThreadsTyped
  <2>3. \A u \in Threads \ {t} : pc[u] = "parent" => arg[u] # h /\ arg[u] # n
    BY <1>2, ConstantsAssumption DEF Inv, NotesInv, ReleasedOnce, TypeOK, ThreadsTyped
  <2>4. ASSUME NEW u \in Threads \ {t}, pc[u] = "parent"
        PROVE  \E m \in Notes : arg[u] \in holders'[m]
    <3>1. PICK m \in Notes : arg[u] \in holders[m]
      BY Zenon, <2>4 DEF Inv, NotesInv, ReleasedOnce
    <3>2. arg[u] \in holders'[m]
      BY Zenon, <1>1, <2>3, <2>4, <3>1
    <3> QED BY Zenon, <3>2
  <2>5. \A u \in Threads \ {t} : pc[u] \in {"drop", "parent"} => arg[u] # n
    BY Zenon, <2>1, <2>3
  <2>6. n # None
    BY Zenon, ConstantsAssumption
  <2>7. ReleasedOnce /\ UNCHANGED <<live, detached, dest>>
    BY Zenon, <1>1 DEF Inv, NotesInv
  <2>8. ASSUME NEW u \in Threads \ {t}
        PROVE  /\ pc'[u] = pc[u] /\ arg'[u] = arg[u]
               /\ pc[u] = "idle" <=> arg[u] = None
               /\ pc[u] = "drop" => arg[u] \in live /\ holders'[arg[u]] = {}
               /\ pc[u] = "parent" => /\ arg[u] \notin live /\ arg[u] # dest
                                      /\ \E m \in Notes : arg[u] \in holders'[m]
    BY Zenon, <1>1, <2>2, <2>4, <2>7 DEF ReleasedOnce
  <2>9. \/ pc'[t] = "drop" /\ arg'[t] = n /\ holders'[n] = {}
        \/ pc'[t] = "idle" /\ arg'[t] = None
    BY Zenon, <1>1
  <2>10. ASSUME NEW u \in Threads, NEW w \in Threads, arg'[u] = arg'[w],
                pc'[u] \in {"drop", "parent"}, pc'[w] \in {"drop", "parent"}
         PROVE  u = w
    <3>1. CASE u # t /\ w # t
      BY <2>7, <2>8, <2>10, <3>1 DEF ReleasedOnce
    <3>2. CASE u = t \/ w = t
      BY <2>5, <2>8, <2>9, <2>10, <3>2
    <3> QED BY Zenon, <3>1, <3>2
  <2>11. ASSUME NEW u \in Threads
         PROVE  /\ pc'[u] = "idle" <=> arg'[u] = None
                /\ pc'[u] = "drop" => arg'[u] \in live /\ holders'[arg'[u]] = {}
                /\ pc'[u] = "parent" => /\ arg'[u] \notin live /\ arg'[u] # dest
                                        /\ \E m \in Notes : arg'[u] \in holders'[m]
    <3>1. CASE u = t
      BY Zenon, <1>2, <2>6, <2>9, <3>1
    <3>2. CASE u # t
      BY <2>8, <3>2
    <3> QED BY Zenon, <3>1, <3>2
  <2> QED BY <2>7, <2>10, <2>11 DEF ReleasedOnce, NoPages
<1> QED BY Zenon, <1>3, <1>4, <1>5, <1>6, <1>7 DEF NotesInv

\* The decrement of minimm_note_release: a thread gives its reference up.
LEMMA NotesRelease ==
    ASSUME Inv, NEW t \in Threads, NEW n \in Notes, Release(t, n)
    PROVE  TypeOK' /\ NotesInv'
<1>1. t \notin live
  BY Zenon, ConstantsAssumption DEF Inv, TypeOK, TreeTyped
<1> QED BY Zenon, <1>1, NotesDecrement DEF Release

\* The cascade of minimm_note_release: a freed copy gives up its parent.
LEMMA NotesReleaseParent ==
    ASSUME Inv, NEW t \in Threads, NEW n \in Notes, ReleaseParent(t, n)
    PROVE  TypeOK' /\ NotesInv'
<1>1. pc[t] = "parent" /\ arg[t] \in holders[n] /\ arg[t] \notin live
  BY Zenon DEF ReleaseParent, Inv, NotesInv, ReleasedOnce
<1>2. arg[t] \in Notes
  BY Zenon, <1>1, ConstantsAssumption DEF Inv, TypeOK, ThreadsTyped, NotesInv, ReleasedOnce
<1>3. arg[t] \notin mappers[n]
  BY Zenon, <1>2, ConstantsAssumption DEF Inv, TypeOK, MapsTyped
<1> QED BY Zenon, <1>1, <1>3, NotesDecrement DEF ReleaseParent

\* A note nobody holds is unlinked from its parent and freed.
LEMMA NotesDrop ==
    ASSUME Inv, NEW t \in Threads, Drop(t)
    PROVE  TypeOK' /\ NotesInv'
<1> DEFINE n == arg[t]
<1>1. /\ pc[t] = "drop" /\ n \in live /\ n \in Notes /\ holders[n] = {} /\ lock = None
      /\ dest = None
  BY Zenon DEF Drop, Inv, NotesInv, ReleasedOnce, TypeOK, ThreadsTyped, LocalsInv, LockHeld
<1>2. Children(n) = {} /\ mappers[n] = {} /\ escaped[n] = {}
  <2>1. Children(n) = {}
    BY <1>1, ConstantsAssumption DEF Inv, NotesInv, Family, Children
  <2>2. mappers[n] = {}
    BY Zenon, <1>1 DEF Inv, NotesInv, EscapedIsPrivate
  <2>3. escaped[n] = {}
    BY <1>1, <2>2 DEF Inv, NotesInv, EscapedIsPrivate, TypeOK, MapsTyped
  <2> QED BY Zenon, <2>1, <2>2, <2>3
<1>3. TypeOK'
  <2>1. /\ live' \in SUBSET Notes /\ external' \in SUBSET Notes /\ size' \in [Notes -> Sizes]
        /\ parent' \in [Notes -> Notes \cup {None}] /\ inherited' \in [Notes -> Sizes]
    BY <1>1, ConstantsAssumption DEF Inv, TypeOK, TreeTyped, Drop, Sizes
  <2>2. /\ file' \in [Notes -> [Pages -> Values]] /\ view' \in [Notes -> [Pages -> Values]]
        /\ cached' \in [Notes -> [Pages -> Values \cup {None}]]
    BY Zenon, <1>1, ConstantsAssumption DEF Inv, TypeOK, PagesTyped, Drop, Zeros, NoPages
  <2>3. pc' \in [Threads -> {"idle", "drop", "parent", "pages"}] /\ arg' \in [Threads -> Notes \cup {None}]
    BY Zenon, <1>1 DEF Inv, TypeOK, ThreadsTyped, Drop
  <2>4. UNCHANGED <<holders, mapVars, detached, lock, localVars>>
    BY Zenon DEF Drop
  <2> QED BY <2>1, <2>2, <2>3, <2>4 DEF Inv, TypeOK, TreeTyped, PagesTyped, MapsTyped,
                                        ThreadsTyped, LocalsTyped
<1>4. /\ \A m \in Notes \ {n} : /\ size'[m] = size[m] /\ file'[m] = file[m] /\ view'[m] = view[m]
                                /\ parent'[m] = parent[m] /\ inherited'[m] = inherited[m]
                                /\ cached'[m] = cached[m]
      /\ live' = live \ {n} /\ external' = external \ {n}
      /\ size'[n] = 0 /\ file'[n] = Zeros /\ view'[n] = Zeros
      /\ parent'[n] = None /\ inherited'[n] = 0 /\ cached'[n] = NoPages
      /\ UNCHANGED <<holders, mappers, escaped, detached, dest>>
  BY Zenon, <1>1 DEF Inv, TypeOK, TreeTyped, PagesTyped, Drop
<1>5. /\ \A u \in Threads \ {t} : pc'[u] = pc[u] /\ arg'[u] = arg[u]
      /\ IF parent[n] = None THEN pc'[t] = "idle" /\ arg'[t] = None
                             ELSE pc'[t] = "parent" /\ arg'[t] = n
  BY Zenon, <1>1 DEF Inv, TypeOK, ThreadsTyped, Drop
<1> HIDE DEF n
<1>6. \A m \in Notes \ {n} : parent[m] # None => parent[m] \in Notes \ {n}
  BY Zenon, <1>2 DEF Inv, TypeOK, TreeTyped, Children
<1>7. Family'
  <2> SUFFICES ASSUME NEW m \in Notes
               PROVE  /\ m \notin live' => /\ m \notin external' /\ holders'[m] = {} /\ size'[m] = 0
                                           /\ cached'[m] = NoPages /\ escaped'[m] = {}
                      /\ parent'[m] # None => /\ parent'[m] # m
                                              /\ {m, parent'[m]} \subseteq live' \ external'
                                              /\ m \in holders'[parent'[m]]
                      /\ m \notin external' => file'[m] = Zeros
    BY Zenon DEF Family
  <2>1. CASE m = n
    BY Zenon, <1>1, <1>2, <1>4, <2>1
  <2>2. CASE m # n
    BY <1>4, <1>6, <2>2 DEF Inv, NotesInv, Family
  <2> QED BY Zenon, <2>1, <2>2
<1>8. WithinSize'
  <2>1. \A p \in Pages : Zeros[p] = Zero
    BY Zenon DEF Zeros
  <2> QED BY <1>4, <2>1 DEF Inv, NotesInv, WithinSize
<1>9. EscapedIsPrivate'
  <2>1. \A m \in Notes \ {n}, p \in Pages : StillRead(m, p)' => StillRead(m, p)
    BY Zenon, <1>4, ConstantsAssumption DEF StillRead, Children
  <2> QED BY <1>2, <1>4, <2>1 DEF Inv, NotesInv, EscapedIsPrivate
<1>10. ReleasedOnce'
  <2>1. \A u \in Threads \ {t} : pc[u] \in {"drop", "parent"} => arg[u] # n
    BY Zenon, <1>1 DEF Inv, NotesInv, ReleasedOnce, n
  <2>2. parent[n] # None => \E m \in Notes : n \in holders[m]
    BY Zenon, <1>1 DEF Inv, NotesInv, Family, TypeOK, TreeTyped
  <2>3. n # None
    BY Zenon, <1>1, ConstantsAssumption
  <2>4. n \notin live' /\ n # dest'
    BY Zenon, <1>1, <1>4, <2>3
  <2> QED BY <1>4, <1>5, <2>1, <2>2, <2>3, <2>4 DEF Inv, NotesInv, ReleasedOnce
<1>11. ViewsHold'
  BY <1>4, <1>6 DEF Inv, NotesInv, ViewsHold, IsInherited, TypeOK, TreeTyped, PagesTyped
<1> QED BY Zenon, <1>3, <1>7, <1>8, <1>9, <1>10, <1>11 DEF NotesInv

-----------------------------------------------------------------------------
(* Mappings.                                                               *)

\* A mapping of a note begins (minimm_note_mapping_attach).
LEMMA NotesAttach ==
    ASSUME Inv, NEW t \in Threads, NEW n \in Notes, Attach(t, n)
    PROVE  TypeOK' /\ NotesInv'
<1>1. /\ mappers'[n] = mappers[n] \cup {t} /\ t \in holders[n]
      /\ \A m \in Notes \ {n} : mappers'[m] = mappers[m]
      /\ UNCHANGED <<noteVars, treeVars, holders, pageVars, escaped, view, threadVars, lock, localVars>>
  BY Zenon DEF Inv, TypeOK, MapsTyped, Attach, Enters
<1>2. TypeOK'
  <2>1. mappers' \in [Notes -> SUBSET Threads]
    BY Zenon DEF Inv, TypeOK, MapsTyped, Attach
  <2> QED BY <1>1, <2>1 DEF Inv, TypeOK, TreeTyped, PagesTyped, MapsTyped, ThreadsTyped, LocalsTyped
<1>3. Family' /\ WithinSize'
  <2>1. Family'
    BY Zenon, <1>1 DEF Inv, NotesInv, Family
  <2>2. WithinSize'
    BY Zenon, <1>1 DEF Inv, NotesInv, WithinSize
  <2> QED BY Zenon, <2>1, <2>2
<1>4. EscapedIsPrivate'
  <2>1. \A m \in Notes, p \in Pages : StillRead(m, p)' <=> StillRead(m, p)
    BY Zenon, <1>1 DEF StillRead, Children
  <2>2. \A m \in Notes : mappers[m] \subseteq mappers'[m] /\ mappers'[m] \subseteq holders'[m]
    BY Zenon, <1>1 DEF Inv, NotesInv, EscapedIsPrivate
  <2> QED BY Zenon, <1>1, <2>1, <2>2 DEF Inv, NotesInv, EscapedIsPrivate
<1>5. ReleasedOnce'
  BY Zenon, <1>1 DEF Inv, NotesInv, ReleasedOnce
<1>6. ViewsHold'
  BY Zenon, <1>1 DEF Inv, NotesInv, ViewsHold, IsInherited
<1> QED BY Zenon, <1>2, <1>3, <1>4, <1>5, <1>6 DEF NotesInv

\* A mapping of a note ends and its pages are no longer written by it.
LEMMA NotesDetach ==
    ASSUME Inv, NEW t \in Threads, NEW n \in Notes, Detach(t, n)
    PROVE  TypeOK' /\ NotesInv'
<1>1. /\ mappers'[n] = mappers[n] \ {t} /\ escaped'[n] = escaped[n] \ ({t} \X Pages)
      /\ \A m \in Notes \ {n} : mappers'[m] = mappers[m] /\ escaped'[m] = escaped[m]
      /\ UNCHANGED <<noteVars, treeVars, holders, pageVars, view, threadVars, lock, localVars>>
  BY Zenon DEF Inv, TypeOK, MapsTyped, Detach
<1>2. TypeOK'
  <2>1. mappers' \in [Notes -> SUBSET Threads]
    BY Zenon DEF Inv, TypeOK, MapsTyped, Detach
  <2>2. escaped' \in [Notes -> SUBSET (Threads \X Pages)]
    BY Zenon DEF Inv, TypeOK, MapsTyped, Detach
  <2>3. TreeTyped' /\ PagesTyped' /\ lock' \in Threads \cup {None}
    BY Zenon, <1>1 DEF Inv, TypeOK, TreeTyped, PagesTyped
  <2>4. MapsTyped' /\ ThreadsTyped'
    BY Zenon, <1>1, <2>1, <2>2 DEF Inv, TypeOK, MapsTyped, ThreadsTyped
  <2>5. LocalsTyped'
    BY Zenon, <1>1 DEF Inv, TypeOK, LocalsTyped
  <2> QED BY Zenon, <2>3, <2>4, <2>5 DEF TypeOK
<1>3. Family' /\ WithinSize'
  <2>1. \A m \in Notes : escaped[m] = {} => escaped'[m] = {}
    BY Zenon, <1>1
  <2>2. \A m \in Notes : mappers[m] = {} => mappers'[m] = {}
    BY Zenon, <1>1
  <2>3. Family'
    BY Zenon, <1>1, <2>1, <2>2 DEF Inv, NotesInv, Family
  <2>4. WithinSize'
    BY Zenon, <1>1, <2>1 DEF Inv, NotesInv, WithinSize
  <2> QED BY Zenon, <2>3, <2>4
<1>4. EscapedIsPrivate'
  <2>1. \A m \in Notes, u \in Threads, p \in Pages :
            <<u, p>> \in escaped'[m] => <<u, p>> \in escaped[m] /\ (m = n => u # t)
    <3> SUFFICES ASSUME NEW m \in Notes, NEW u \in Threads, NEW p \in Pages,
                        <<u, p>> \in escaped'[m]
                 PROVE  <<u, p>> \in escaped[m] /\ (m = n => u # t)
      BY Zenon
    <3>1. CASE m = n
      <4>1. <<u, p>> \in escaped[n] /\ <<u, p>> \notin {t} \X Pages
        BY Zenon, <1>1, <3>1
      <4> QED BY <3>1, <4>1
    <3>2. CASE m # n
      BY Zenon, <1>1, <3>2
    <3> QED BY Zenon, <3>1, <3>2
  <2>2. \A m \in Notes, p \in Pages : StillRead(m, p)' <=> StillRead(m, p)
    BY Zenon, <1>1 DEF StillRead, Children
  <2>3. \A m \in Notes : mappers'[m] \subseteq holders'[m]
    BY Zenon, <1>1 DEF Inv, NotesInv, EscapedIsPrivate
  <2>4. ASSUME NEW m \in Notes, NEW u \in Threads, NEW p \in Pages, <<u, p>> \in escaped'[m]
        PROVE  u \in mappers'[m] /\ cached'[m][p] # None /\ ~StillRead(m, p)'
    <3>1. u \in mappers[m] /\ cached[m][p] # None /\ ~StillRead(m, p) /\ (m = n => u # t)
      BY Zenon, <2>1, <2>4 DEF Inv, NotesInv, EscapedIsPrivate
    <3> QED BY Zenon, <1>1, <2>2, <3>1
  <2> QED BY Zenon, <2>3, <2>4 DEF EscapedIsPrivate
<1>5. ReleasedOnce'
  <2>1. UNCHANGED <<live, holders, parent, cached, file, threadVars, localVars>>
    BY Zenon, <1>1
  <2> QED BY Zenon, <2>1 DEF Inv, NotesInv, ReleasedOnce
<1>6. ViewsHold'
  BY Zenon, <1>1 DEF Inv, NotesInv, ViewsHold, IsInherited
<1> QED BY Zenon, <1>2, <1>3, <1>4, <1>5, <1>6 DEF NotesInv

=============================================================================
