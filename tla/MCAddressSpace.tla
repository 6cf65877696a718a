--------------------------- MODULE MCAddressSpace ---------------------------
(***************************************************************************)
(* Instances of AddressSpace.  A run has several loads: each makes some of *)
(* the calls, with few arguments, so that what it is about happens in a    *)
(* small state space.  Free frames are alike and no property names one, so *)
(* frames are interchangeable.                                             *)
(***************************************************************************)
EXTENDS Inspection, SpaceLoads, TLC

Symmetry == Permutations(Frames)

(* Accesses and everything that can come between their steps. *)
AccessLoad ==
    [Basic EXCEPT
        !.calls = {"mmap", "read", "write", "fault", "mprotect", "cold", "evict", "flush"},
        !.args = {Map("anonPrivate", 0, 1, "auto", FALSE), Map("noteShared", 1, 1, "auto", FALSE)},
        !.prots = {{"r"}, RW}, !.sizes = {2}, !.values = {Zero}, !.maps = 2]

(* Accesses to a page that is copy-on-write until it is written. *)
CowLoad ==
    [Basic EXCEPT
        !.calls = {"mmap", "read", "write", "fault", "mprotect", "evict", "flush"},
        !.args = {Map("notePrivate", 0, 1, "auto", TRUE)},
        !.prots = {{"r"}, RW}, !.sizes = {1}, !.values = {Zero}, !.pages = 1]

(* Accesses of a space and of its fork, which can end and be created anew. *)
FamilyLoad ==
    [Basic EXCEPT
        !.calls = {"mmap", "write", "fork", "create", "destroy", "evict"},
        !.args = {Map("anonPrivate", 0, 1, "auto", FALSE)}, !.values = {Zero}, !.pages = 1, !.busy = 2]

(* mlock and its roll-back against eviction. *)
MlockLoad ==
    [Basic EXCEPT
        !.calls = {"mmap", "fault", "mlock", "munlock", "dontneed", "evict"},
        !.args = {Map("anonPrivate", 0, 2, "auto", FALSE)}]

(* Advice on a shared mapping of the note. *)
AdviceLoad ==
    [Basic EXCEPT
        !.calls = {"mmap", "write", "msync", "willneed", "cold", "pageout", "munmap"},
        !.args = {Map("noteShared", 0, 2, "auto", FALSE)}, !.sizes = {2}, !.values = Values]

(* Mappings of a note that is resized. *)
NoteLoad ==
    [Basic EXCEPT
        !.calls = {"mmap", "munmap", "write", "resize"},
        !.args = {Map("notePrivate", 1, 1, "auto", FALSE), Map("noteShared", 0, 2, "fixed", TRUE)},
        !.sizes = {0, 1, 2}, !.values = Values, !.maps = 3]

(* Snapshots of two pages that can share a frame: both map the first page of the note. *)
InspectLoad ==
    [Basic EXCEPT
        !.calls = {"mmap", "fault", "mlock", "snapshot", "evict"},
        !.args = {Map("notePrivate", 0, 1, "auto", FALSE), Map("noteShared", 0, 1, "auto", FALSE)},
        !.sizes = {1}, !.maps = 2]

AccessLoads == {AccessLoad, CowLoad, FamilyLoad, MlockLoad, AdviceLoad, NoteLoad, InspectLoad}

=============================================================================
