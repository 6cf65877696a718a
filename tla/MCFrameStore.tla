---------------------------- MODULE MCFrameStore ----------------------------
(* Small instances of FrameStore for TLC. *)
EXTENDS FrameStoreMemory, TLC

CONSTANTS b1

\* All file pages belong to one note file.
MCBackingOf == [p \in Pages |-> b1]

FrameSymmetry == Permutations(Frames)
FrameThreadSymmetry == Permutations(Frames) \cup Permutations(Threads)

=============================================================================
