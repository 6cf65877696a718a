-------------------------- MODULE MCServerRecords ---------------------------
(***************************************************************************)
(* Two clients of servers with room for two or three notes.                *)
(***************************************************************************)
EXTENDS ServerRecords, TLC

All == {"read", "write", "edit", "share", "resize", "delete"}

Symmetry == Permutations(Clients) \cup Permutations(Records) \cup Permutations(Caps)

Load(ops, sizes, rights, notes, handles) ==
    [ops |-> ops, sizes |-> sizes, rights |-> rights, notes |-> notes, total |-> 3, handles |-> handles]

MCLoads ==
    {Load({"create", "open", "unlink"}, {1, 2}, {All}, 2, 2),
     Load({"create", "copy", "close", "unlink", "resize"}, {1, 2}, {All}, 2, 2),
     Load({"create", "open", "resize"}, {0, 1, 2}, {All}, 2, 1),
     Load({"create", "open", "read", "write", "edit", "stat", "flush", "preview", "ping"}, {1},
          {All, {"read"}, {"read", "share"}}, 2, 1)}

=============================================================================
