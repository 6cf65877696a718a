------------------------------ MODULE MCServer ------------------------------
(***************************************************************************)
(* Two connections and two callers: a server started twice whose clients   *)
(* make nothing, and one for a single client, who makes and shares notes.  *)
(***************************************************************************)
EXTENDS Server, TLC

Load(ops, notes, clients, times) ==
    [ops |-> ops, sizes |-> {1}, rights |-> {{"read", "share"}}, notes |-> notes, total |-> 2, handles |-> notes,
     clients |-> clients, starts |-> times]

MCLoads == {Load({"ping"}, 1, 2, 2), Load({"create", "copy"}, 2, 1, 1)}

=============================================================================
