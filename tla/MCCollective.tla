---- MODULE MCCollective ----
(***************************************************************************)
(* Programs for four processes: groups of three and of two whose members   *)
(* name them in different orders, a group that is made twice, operations   *)
(* on the whole world and calls that are refused.                          *)
(***************************************************************************)
EXTENDS Collective

Operations == StreamAssert \cup {"allreduce", "allgather"}
Call(lists, kind, root) == [ranks |-> lists, kind |-> kind, root |-> root, op |-> "SUM", stream |-> FALSE]

MCPrograms ==
    {<<Call({<<0, 2, 1>>, <<2, 1, 0>>}, "gather", 1),
       Call({<<0, 1>>, <<1, 0>>}, k, 1),
       Call({<<2, 0, 1>>}, k, 2)>> : k \in Operations}
    \cup {<<[Call({<<0, 1>>}, k, 0) EXCEPT !.stream = TRUE, !.op = "BAND"],
            Call({<<0, 1, 2, 3>>}, k, 3),
            Call({<<0, 0>>}, k, 0),
            Call({<<0, 5>>}, k, 0)>> : k \in Operations}
====
