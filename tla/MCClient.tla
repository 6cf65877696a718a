------------------------------ MODULE MCClient ------------------------------
(***************************************************************************)
(* What the callers do: one reads and writes two bytes in two requests;    *)
(* two share the client and open and close two handles; one writes over    *)
(* and over, connecting again while old sessions are not over yet.  Each   *)
(* load is there for every choice of callers and bytes, so that permuting  *)
(* them permutes the loads.                                                *)
(***************************************************************************)
EXTENDS Client, TLC

Sym == Permutations(Users) \cup Permutations(Values)

Load(users, ops, values, len, lengths, handles, errors, conns, maxId) ==
    [users |-> users, ops |-> ops, values |-> values, note |-> len, lengths |-> lengths, handles |-> handles,
     errors |-> errors, conns |-> conns, maxId |-> maxId]

MCLoads ==
    {Load({u}, {"open", "read", "write"}, Values, 2, {2}, {1}, {"NO_SPACE"}, 1, 1) : u \in Users}
    \cup {Load(Users, {"ping", "open", "close"}, {v}, 1, {}, {1, 2}, {}, 1, 2) : v \in Values}
    \cup {Load({u}, {"open", "write"}, Values, 1, {1}, {1}, {}, 2, 1) : u \in Users}

=============================================================================
