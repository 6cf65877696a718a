----------------------------- MODULE Inspection -----------------------------
(***************************************************************************)
(* The calls that look at a space: minimm_query_page, minimm_translate and *)
(* minimm_mincore for one page, and minimm_space_snapshot_capture for all  *)
(* of it.  A capture holds the lock of the space, but frames can be evicted*)
(* or paged out through another space while it runs: it first copies the   *)
(* page table and then asks the frame store about all frames at once.      *)
(***************************************************************************)
EXTENDS AddressSpace

(***************************************************************************)
(* Queries.                                                                *)
(***************************************************************************)
(* minimm_translate: the frame number; None is NOT_FOUND. *)
Translate(s, p) ==
    LET e == space[s].pt[p]
    IN  IF e # NoPte /\ frame[e.frame].resident THEN e.frame ELSE None

(* minimm_query_page of a mapped page. *)
QueryPage(s, p) ==
    LET e == space[s].pt[p]
        v == space[s].vma[p]
        f == frame[e.frame]
    IN  IF e = NoPte
        THEN [prot |-> v.prot, present |-> FALSE, pfn |-> None, accessed |-> FALSE, cow |-> FALSE,
              shared |-> v.shared, locked |-> FALSE]
        ELSE [prot |-> e.prot, present |-> f.resident, pfn |-> IF f.resident THEN e.frame ELSE None,
              accessed |-> "accessed" \in e.flags, cow |-> "cow" \in e.flags,
              shared |-> "shared" \in e.flags, locked |-> f.pins > 0 \/ "locked" \in e.flags]

(* minimm_mapping_backing_peek_frame: what is cached, without reading anything in. *)
PeekFrame(s, p) ==
    LET b == backing[space[s].bind[space[s].vma[p].cookie]]
        o == space[s].vma[p].off
    IN  IF IsNote(b.kind) THEN note.pages[o] ELSE IF b.kind = "anonShared" THEN b.pages[o] ELSE None

(* minimm_mincore of a mapped page. *)
Mincore(s, p) ==
    LET e == space[s].pt[p]
        f == IF e = NoPte THEN PeekFrame(s, p) ELSE e.frame
        resident == f # None /\ frame[f].resident
    IN  (IF space[s].vma[p].shared THEN {"shared"} ELSE {})
        \cup (IF resident THEN {"resident"} ELSE {})
        \cup (IF resident /\ e # NoPte THEN {"present"} ELSE {})
        \cup (e.flags \cap {"locked", "shared", "cow", "accessed"})

(***************************************************************************)
(* Snapshots.                                                              *)
(***************************************************************************)
(* A step of a capture: only the call itself goes on. *)
CaptureStep(s, c) ==
    /\ call' = [call EXCEPT ![s] = c]
    /\ status' = Silent
    /\ UNCHANGED <<stateVars, pending, load>>

(* minimm_snapshot_copy_mappings and _copy_pte, under the lock of the space. *)
CaptureWalk(s) ==
    /\ "snapshot" \in Calls /\ Free(s) /\ MayBegin
    /\ CaptureStep(s, [op |-> "snapshot", stage |-> "observe",
                       todo |-> Present(Machine(0), s, Pages), seen |-> [p \in Pages |-> None]])

(* What the frame store says of a frame. *)
Observation(f) == [frame |-> f, maps |-> frame[f].maps, resident |-> frame[f].resident, pinned |-> frame[f].pins > 0]

(* minimm_snapshot_complete_pages: the entry of the page and the observation of its frame. *)
Completed(s, seen) ==
    [p \in Pages |->
        IF seen[p] = None THEN None
        ELSE [cookie |-> space[s].vma[p].cookie, flags |-> space[s].pt[p].flags,
              frame |-> seen[p].frame, maps |-> seen[p].maps, resident |-> seen[p].resident,
              pfn |-> IF seen[p].resident THEN seen[p].frame ELSE None,
              locked |-> seen[p].pinned \/ "locked" \in space[s].pt[p].flags]]

Captured(s, seen) == [op |-> "snapshot", stage |-> "captured", page |-> Completed(s, seen)]

(* Seeded fault: the frames are asked about one by one. *)
ObserveEach(s) ==
    LET c == call[s]
        p == Min(c.todo)
        seen == [c.seen EXCEPT ![p] = Observation(space[s].pt[p].frame)]
    IN  /\ c.op = "snapshot" /\ c.stage = "observe"
        /\ CaptureStep(s, IF c.todo = {} THEN Captured(s, c.seen)
                          ELSE IF c.todo = {p} THEN Captured(s, seen)
                          ELSE [c EXCEPT !.todo = @ \ {p}, !.seen = seen])

(* minimm_frame_observe_batch, all frames under one lock, and the rest of the capture. *)
CaptureObserve(s) ==
    LET c == call[s]
    IN  /\ c.op = "snapshot" /\ c.stage = "observe"
        /\ CaptureStep(s, Captured(s, [p \in Pages |-> IF p \in c.todo THEN Observation(space[s].pt[p].frame)
                                                       ELSE None]))

(* The lock is left and the snapshot is the caller's. *)
CaptureEnd(s) == call[s].op = "snapshot" /\ call[s].stage = "captured" /\ CaptureStep(s, Idle)

InspectNext == Next \/ \E s \in Spaces : CaptureWalk(s) \/ CaptureObserve(s) \/ CaptureEnd(s)

InspectSpec == Init /\ [][InspectNext]_vars

(***************************************************************************)
(* Properties.                                                             *)
(***************************************************************************)
(* The calls that look at one page never contradict each other: a page has *)
(* a translation exactly when query_page and mincore call it present, they *)
(* agree on sharing and copy-on-write with the mapping, and a page that    *)
(* mincore calls locked is locked to query_page.                           *)
QueriesAgree ==
    \A s \in Spaces : \A p \in Pages :
        (space[s].open /\ space[s].vma[p] # NoVma) =>
            LET q == QueryPage(s, p)
                c == Mincore(s, p)
            IN  /\ q.pfn = Translate(s, p)
                /\ q.present <=> "present" \in c
                /\ "present" \in c => "resident" \in c
                /\ q.shared <=> "shared" \in c
                /\ q.shared => ~q.cow
                /\ q.cow <=> "cow" \in c
                /\ "locked" \in c => q.locked

(* Every view of a page agrees: the entry, the TLB and the mapping that it *)
(* belongs to (TranslationsAgree), and what the calls say of it.           *)
ViewsAgree == TranslationsAgree /\ QueriesAgree

(* A snapshot shows one instant of the frame store: two pages with the same*)
(* frame agree on everything the store said of it, a frame has at least the*)
(* mappings that the snapshot shows, and a page has a frame number exactly *)
(* when its frame was resident (snapshot.c:105, frame.c observe_batch).    *)
SnapshotIsOneInstant ==
    \A s \in Spaces :
        (call[s].op = "snapshot" /\ call[s].stage = "captured") =>
            LET page == call[s].page
                shown == {p \in Pages : page[p] # None}
            IN  \A p, q \in shown :
                    page[p].frame = page[q].frame =>
                        /\ page[p].resident = page[q].resident
                        /\ page[p].maps = page[q].maps
                        /\ page[p].maps >= Cardinality({r \in shown : page[r].frame = page[p].frame})
                        /\ "locked" \in page[q].flags => page[p].locked

=============================================================================
