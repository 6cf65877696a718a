--------------------------- MODULE MCNoteLineage ----------------------------
(* Small instances of NoteLineage for TLC. *)
EXTENDS NoteLineage, TLC

NoContents == {}
FullContents == [Pages -> Values \ {Zero}]
Symmetry == Permutations(Notes)

=============================================================================
