----------------------------- MODULE SpaceMemory -----------------------------
(***************************************************************************)
(* What address spaces promise to the programs that use them: pages that   *)
(* hold a value of their own or show a page of a shared object, and calls  *)
(* that move, copy, share and drop them.  There are no frames, page tables,*)
(* TLBs, eviction or copy-on-write here.                                   *)
(*                                                                         *)
(* There is one operation for each call that succeeds, with the arguments  *)
(* of the call and, where the call chooses an address, the address it      *)
(* handed out; it says what the call does to memory, all of it.  Every     *)
(* other call, and every call that fails, does nothing at all.  An outcome *)
(* that the memory does not admit (a copy put over other pages, say) does  *)
(* nothing here either, so an implementation that has it differs.          *)
(***************************************************************************)
EXTENDS Integers

CONSTANTS
    Spaces,
    NPages,
    Objects,        \* what pages can be shared through: shared anonymous memory and the note
    Note,           \* the member of Objects that outlives its mappings
    Zero,
    None

Pages == 0 .. NPages - 1
NoPage == [kind |-> None, obj |-> None, off |-> 0, own |-> None, prot |-> {}, max |-> {}]
NoPages == [p \in Pages |-> NoPage]
Zeros == [o \in Pages |-> Zero]

VARIABLES
    page,       \* page[s][p]: what page p of space s is; None for a space that does not exist
    content     \* content[x][o]: the value of page o of the object x

vars == <<page, content>>

(* A page nobody has written yet: private memory is zero, all else shows its object. *)
Fresh(e) == [e EXCEPT !.own = IF e.kind = "anonPrivate" THEN Zero ELSE None]

Shared(e) == e.kind \in {"anonShared", "noteShared"}

Shows(e) == IF e.own # None THEN e.own ELSE content[e.obj][e.off]

Shown(pages, x) == \E s \in Spaces : pages[s] # None /\ \E p \in Pages : pages[s][p].obj = x

Used(s, S) == S \subseteq Pages /\ \A p \in S : page[s][p].kind # None
Unused(s, S) == S \subseteq Pages /\ \A p \in S : page[s][p].kind = None

(* If the outcome is admitted, the pages become new; an object that no page *)
(* shows any more is lost, the note is not.                                *)
Become(admitted, new) ==
    IF admitted
    THEN /\ page' = new
         /\ content' = [x \in Objects |-> IF x = Note \/ Shown(new, x) THEN content[x] ELSE Zeros]
    ELSE UNCHANGED vars

(* The same, when only pages of one space change. *)
Change(s, admitted, New(_)) == Become(admitted, [page EXCEPT ![s] = [p \in Pages |-> New(p)]])

Init(root) ==
    /\ page = [s \in Spaces |-> IF s = root THEN NoPages ELSE None]
    /\ content = [x \in Objects |-> Zeros]

(* A new mapping at the pages S, the first of which is like e; only a fixed *)
(* one takes the place of what was there.                                  *)
Map(s, S, e, fixed) ==
    LET first == CHOOSE a \in S : \A p \in S : a <= p
    IN  Change(s, /\ S \subseteq Pages /\ (fixed \/ Unused(s, S))
                  /\ e.kind = "anonShared" => ~Shown(page, e.obj),
               LAMBDA p : IF p \in S THEN Fresh([e EXCEPT !.off = @ + (p - first)]) ELSE page[s][p])

Unmap(s, S) == Change(s, TRUE, LAMBDA p : IF p \in S THEN NoPage ELSE page[s][p])

Protect(s, S, prot) ==
    Change(s, Used(s, S) /\ \A p \in S : prot \subseteq page[s][p].max,
           LAMBDA p : IF p \in S THEN [page[s][p] EXCEPT !.prot = prot] ELSE page[s][p])

Write(s, p, v) ==
    LET e == page[s][p]
    IN  CASE "w" \notin e.prot -> UNCHANGED vars
          [] "w" \in e.prot /\ Shared(e) -> content' = [content EXCEPT ![e.obj][e.off] = v] /\ page' = page
          [] OTHER -> page' = [page EXCEPT ![s][p].own = v] /\ content' = content

(* A private page of the note that is about to be written stops following  *)
(* the note, and keeps what it shows.                                      *)
Detach(s, p) ==
    IF page[s][p].kind = "notePrivate"
    THEN page' = [page EXCEPT ![s][p].own = Shows(page[s][p])] /\ content' = content
    ELSE UNCHANGED vars

(* The contents of a range are given up. *)
Drop(s, S) == Change(s, Used(s, S), LAMBDA p : IF p \in S THEN Fresh(page[s][p]) ELSE page[s][p])

(* n pages at a become n2 pages at b; the old place is gone, or empty memory again. *)
Remap(s, a, n, b, n2, fixed, keep) ==
    LET old == a .. a + n - 1
        new == b .. b + n2 - 1
        Moved(p) == IF a + (p - b) \in old THEN page[s][a + (p - b)]
                    ELSE Fresh([page[s][a] EXCEPT !.off = @ + (p - b)])
    IN  Change(s, /\ Used(s, old)
                  /\ fixed \/ Unused(s, new \ old)
                  /\ a = b \/ old \cap new = {}
                  /\ keep => a # b /\ page[s][a].kind = "anonPrivate",
               LAMBDA p : CASE p \in new -> Moved(p)
                            [] p \in old \ new /\ keep -> Fresh(page[s][p])
                            [] p \in old \ new /\ ~keep -> NoPage
                            [] OTHER -> page[s][p])

(* n private pages at a get a second place at b, where there was nothing. *)
Copy(s, a, n, b) ==
    LET old == a .. a + n - 1
        new == b .. b + n - 1
    IN  Change(s, Used(s, old) /\ (\A p \in old : ~Shared(page[s][p])) /\ Unused(s, new),
               LAMBDA p : IF p \in new THEN page[s][a + (p - b)] ELSE page[s][p])

(* The child c shows what the parent shows; from now on private pages are on their own. *)
Fork(s, c) == Become(page[c] = None, [page EXCEPT ![c] = page[s]])

Open(s) == Become(page[s] = None, [page EXCEPT ![s] = NoPages])

Close(s) == Become(TRUE, [page EXCEPT ![s] = None])

(* The note has n pages; it is cut off only while nothing maps it. *)
Resize(n) ==
    /\ content' = [content EXCEPT ![Note] = [o \in Pages |-> IF o < n \/ Shown(page, Note) THEN @[o] ELSE Zero]]
    /\ page' = page

=============================================================================
