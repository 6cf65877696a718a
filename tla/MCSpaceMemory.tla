---------------------------- MODULE MCSpaceMemory ----------------------------
(***************************************************************************)
(* Instances of AddressSpace next to the memory it promises.  As in        *)
(* MCAddressSpace a run has several loads, and frames are interchangeable. *)
(***************************************************************************)
EXTENDS AddressSpaceMemory, SpaceLoads, TLC

Symmetry == Permutations(Frames)

Written == Values \ {Zero}

(* Two spaces: fork, and frames that both use at the same time. *)
ForkLoad ==
    [Basic EXCEPT
        !.calls = {"mmap", "write", "fork", "create", "destroy"},
        !.args = {Map("anonPrivate", 0, 2, "auto", FALSE)}, !.values = Written]

PrivateLoad ==
    [Basic EXCEPT
        !.calls = {"mmap", "write", "fault", "fork", "create", "dontneed"},
        !.args = {Map("notePrivate", 0, 1, "fixed", FALSE), Map("noteShared", 0, 1, "fixed", FALSE)},
        !.sizes = {1}, !.values = Written, !.pages = 1]

AliasLoad ==
    [Basic EXCEPT
        !.calls = {"mmap", "create", "write", "destroy", "mlock", "pageout"},
        !.args = {Map("noteShared", 0, 1, "fixed", FALSE)},
        !.sizes = {1}, !.values = Written, !.pages = 1, !.busy = 2]

(* One space: every other call that a write can meet. *)
RangeLoad ==
    [Basic EXCEPT
        !.calls = {"mmap", "write", "read", "munmap", "mprotect", "dontneed", "willneed", "resize", "evict", "flush"},
        !.args = {Map("anonPrivate", 0, 2, "auto", FALSE), Map("noteShared", 0, 1, "auto", FALSE)},
        !.prots = {{"r"}, RW}, !.sizes = {0, 1}, !.values = Written]

ShareLoads == {ForkLoad, PrivateLoad, AliasLoad, RangeLoad}

(* mremap in its other forms, of populated and of written mappings. *)
RemapLoad ==
    [Basic EXCEPT
        !.calls = {"mmap", "mremap"},
        !.args = {Map("anonPrivate", 0, 2, "auto", TRUE)}, !.remaps = RemapFlags \ {{"maymove", "fixed"}}, !.pages = 4]

MoveLoad ==
    [Basic EXCEPT
        !.calls = {"mmap", "write", "mremap"},
        !.args = {Map("anonPrivate", 0, 1, "auto", FALSE), Map("anonShared", 0, 1, "auto", FALSE)},
        !.remaps = RemapFlags, !.values = Written, !.maps = 2, !.failures = 0]

(* mremap onto a populated and locked mapping, with a failure at every step. *)
FixedLoad ==
    [Basic EXCEPT
        !.calls = {"mmap", "mlock", "mremap"},
        !.args = {Map("anonPrivate", 0, 2, "auto", TRUE), Map("anonPrivate", 0, 1, "auto", TRUE)},
        !.remaps = {{"maymove", "fixed"}}, !.pages = 4, !.maps = 2]

(* Copies of a mapping. *)
CopyLoad ==
    [Basic EXCEPT
        !.calls = {"mmap", "copy", "write"},
        !.args = {Map("anonPrivate", 0, 2, "auto", FALSE)}, !.values = Written, !.pages = 4, !.maps = 2]

MoveLoads == {RemapLoad, MoveLoad, FixedLoad, CopyLoad}

=============================================================================
