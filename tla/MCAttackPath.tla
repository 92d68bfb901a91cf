--------------------------- MODULE MCAttackPath ---------------------------
(***************************************************************************)
(* Every graph over four nodes made of these eleven observations: two ways *)
(* to a and to b that cross, edges seen twice, parallel edges, a direct    *)
(* edge, a cycle, and a back edge to the source.                           *)
(***************************************************************************)
EXTENDS AttackPath

O(x, y, ty, t) == [src |-> x, dst |-> y, type |-> ty, at |-> t]
MCNode == {"s", "a", "b", "d"}
MCObservation ==
    {O("s", "a", "In", 3), O("s", "b", "In", 1), O("s", "b", "In", 3), O("b", "a", "In", 2),
     O("a", "d", "In", 2), O("a", "d", "In", 3), O("a", "d", "To", 3), O("b", "d", "In", 3),
     O("s", "d", "In", 3), O("a", "b", "In", 3), O("b", "s", "In", 3)}
MCWindows == {<<0, 9>>, <<3, 9>>}
MCRisk(n) == CASE n = "b" -> 5 [] n = "d" -> 10 [] OTHER -> 0
=============================================================================
