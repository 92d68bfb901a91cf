----------------------------- MODULE MCScrubber -----------------------------
(***************************************************************************)
(* Two entities, each with a neighbour; what is around the second reaches  *)
(* further back and further on than what is around the first.              *)
(***************************************************************************)
EXTENDS Scrubber

MCSpan(n) ==
    CASE n = "n1" -> [from |-> 10, to |-> 14] [] n = "x" -> [from |-> 12, to |-> 18]
      [] n = "n2" -> [from |-> 6, to |-> 16]  [] n = "y" -> [from |-> 15, to |-> 24]
Around(s) == IF s = "n1" THEN {"n1", "x"} ELSE {"n2", "y"}
Alive(n, w) == w = AllTime \/ (MCSpan(n).from <= w.to /\ w.from <= MCSpan(n).to)
MCNear(s, v) == {s} \cup {n \in Around(s) : Alive(n, v.window)}
MCNoPath(x, y, w) == {}
MCNoAttack(x, y) == << >>
=============================================================================
