------------------------------- MODULE MCBrk --------------------------------
(***************************************************************************)
(* A few pages of two bytes.  Other threads map private anonymous pages,   *)
(* which the heap could mistake for its own, and private pages of a note,  *)
(* which differ only in their backing.                                     *)
(***************************************************************************)
EXTENDS Brk

BothKinds == {"anonPrivate", "notePrivate"}

=============================================================================
