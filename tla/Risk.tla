-------------------------------- MODULE Risk --------------------------------
(***************************************************************************)
(* compute_risk (crates/loghound-graph/src/analytics.rs): the score of a   *)
(* node, in hundredths of a point of 0 to 100, from how central it is, how *)
(* near an alert, and what kind of thing it is.                            *)
(***************************************************************************)
EXTENDS Integers, FiniteSets

CONSTANTS
    Centrality(_, _)    \* PageRank of each node, in percent of the highest

MaxDepth == 3

\* undirected_neighbors
OutNeighbors(k, es) == {e[2] : e \in {e \in es : e[1] = k}}
Neighbors(k, es) ==
    {e[2] : e \in {e \in es : e[1] = k}} \cup {e[1] : e \in {e \in es : e[2] = k}}

\* The breadth-first search from all alerts at once.
WithinHops(ns, es) ==
    LET W[d \in 0 .. MaxDepth] ==
          IF d = 0 THEN {k \in ns : k[1] = "Alert"}
          ELSE W[d - 1] \cup UNION {Neighbors(k, es) : k \in W[d - 1]}
    IN W

\* 0.40 * 0.5 ^ depth
Proximity(within, k) ==
    IF k \notin within[MaxDepth] THEN 0
    ELSE LET depth == CHOOSE d \in 0 .. MaxDepth :
                        k \in within[d] /\ \A c \in 0 .. d - 1 : k \notin within[c]
         IN 4000 \div 2 ^ depth

\* 0.15 of the weight of the kind
KindWeight(kind) ==
    CASE kind = "Alert" -> 1500
      [] kind = "Ioc" -> 1350
      [] kind \in {"Privilege", "Certificate"} -> 750
      [] kind \in {"Process", "User", "Host"} -> 375
      [] OTHER -> 150

ComputeRisk(ns, es) ==
    LET pr     == Centrality(ns, es)
        within == WithinHops(ns, es)
    IN [k \in ns |-> 45 * pr[k] + Proximity(within, k) + KindWeight(k[1])]
=============================================================================
