---------------------------- MODULE MCTraversal ----------------------------
(***************************************************************************)
(* Every subgraph of seven edges: a loop, a pair of edges each way, a short*)
(* and a long way to one node; intervals that touch and miss the windows.  *)
(***************************************************************************)
EXTENDS ProcessTree

E(s, d, t, first, last) == [src |-> s, dst |-> d, type |-> t, first |-> first, last |-> last]
MCNode == {"a", "b", "c", "d", "e"}
MCEdge == {E("a", "b", "Started", 1, 2), E("b", "a", "ConnectedTo", 3, 3),
           E("b", "c", "Spawned", 2, 5), E("c", "c", "Spawned", 3, 4),
           E("c", "d", "Spawned", 5, 6), E("a", "d", "Started", 1, 7),
           E("e", "d", "RanAs", 6, 7)}
MCTypes == {{}, {"Spawned", "ConnectedTo"}, {"NoSuchType"}}
MCTime == {<<Missing, Missing>>, <<2, 5>>, <<Missing, 5>>, <<5, 5>>}
MCHops == {Missing, 0, 2, 9}
=============================================================================
