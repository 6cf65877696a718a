------------------------------ MODULE VmaPages ------------------------------
(***************************************************************************)
(* What a snapshot of VMAs promises: a partial map from pages to what is   *)
(* mapped there, changed page by page.  [result] is the status of the last *)
(* call.  Module VmaTree implements it with ranges and a tree.             *)
(***************************************************************************)
EXTENDS Integers, FiniteSets

CONSTANTS NPages, MaxGeneration, Prots, Offsets, Cookies, None

VARIABLES page, generation, result

vars == <<page, generation, result>>

Pages == 0..NPages-1

(* What page p shows of a mapping: whose it is, which page of the note, and the protections. *)
Shown(c, off, prot, max) == [cookie |-> c, off |-> off, prot |-> prot, max |-> max]

Init == page = [p \in Pages |-> None] /\ generation = 1 /\ result = "OK"

Refuse(status) == result' = status /\ UNCHANGED <<page, generation>>

(* A new generation in which the pages of [range] are changed by New. *)
Replace(range, New(_)) ==
    IF generation = MaxGeneration THEN Refuse("NO_SPACE")
    ELSE /\ page' = [p \in Pages |-> IF p \in range THEN New(p) ELSE page[p]]
         /\ generation' = generation + 1
         /\ result' = "OK"

Insert(range, c, off, prot, max) ==
    IF \E p \in range : page[p] # None THEN Refuse("ADDRESS_IN_USE")
    ELSE LET start == CHOOSE p \in range : \A q \in range : p <= q
             New(p) == Shown(c, off + (p - start), prot, max)
         IN  Replace(range, New)

Remove(range) == LET New(p) == None IN Replace(range, New)

(* The first page at which the call cannot go on says why. *)
Protect(range, prot) ==
    LET bad == {p \in range : page[p] = None \/ (page[p] # None /\ ~(prot \subseteq page[p].max))}
        first == CHOOSE p \in bad : \A q \in bad : p <= q
        New(p) == [page[p] EXCEPT !.prot = prot]
    IN  IF bad = {} THEN Replace(range, New)
        ELSE Refuse(IF page[first] = None THEN "NOT_FOUND" ELSE "PERMISSION")

Next ==
    \E start \in Pages : \E end \in start..NPages-1 :
        \/ \E c \in Cookies, off \in Offsets, max \in Prots :
             \E prot \in {q \in Prots : q \subseteq max} : Insert(start..end, c, off, prot, max)
        \/ Remove(start..end)
        \/ \E prot \in Prots : Protect(start..end, prot)

Spec == Init /\ [][Next]_vars
=============================================================================
