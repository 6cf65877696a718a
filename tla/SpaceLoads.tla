----------------------------- MODULE SpaceLoads -----------------------------
(***************************************************************************)
(* How the loads of AddressSpace are written: see CallsAssumption.         *)
(***************************************************************************)
RW == {"r", "w"}

Map(kind, off, n, mode, populate) ==
    [kind |-> kind, prot |-> RW, max |-> RW, off |-> off, n |-> n, mode |-> mode, at |-> 0, populate |-> populate]

(* A program that does nothing; what a load does not say is as it is here. *)
Basic ==
    [calls |-> {}, args |-> {}, prots |-> {}, remaps |-> {}, sizes |-> {0}, values |-> {},
     pages |-> 2, maps |-> 1, failures |-> 4, busy |-> 1]

=============================================================================
