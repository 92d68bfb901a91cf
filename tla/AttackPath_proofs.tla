-------------------------- MODULE AttackPath_proofs --------------------------
(***************************************************************************)
(* Proof that the labels of the attack-path search fit together, on any    *)
(* graph, with any risks and penalties and any order of ties, although     *)
(* they are overwritten while the search goes on: a label that another one *)
(* leads on from is settled, and what is settled never changes.  It is the *)
(* argument for Dijkstra's algorithm, with the time test in every step.    *)
(***************************************************************************)
EXTENDS AttackPath, NatRecursion, FiniteSetTheorems, SequenceTheorems, TLAPS

GraphOK == \A e \in graph : e.src \in Node /\ e.dst \in Node /\ e.at \in Nat

\* Entries come in the order of their costs: none is below a settled label.
HeapAbove ==
    /\ \A x \in heap : dist[x[2]] <= x[1]
    /\ \A n \in Settled : \A x \in heap : dist[n] <= x[1]

\* The slot offers its destination nothing better.
Relaxed(e) ==
    Feasible(e) => e.dst \in DOMAIN dist /\ dist[e.dst] <= dist[e.src] + EdgeCost(e)

\* The node being expanded is settled; it is the dearest one that is, unless it had
\* been expanded before and its slots have nothing more to offer.
Expanding ==
    /\ cur # << >> => cur[2] \in Settled
    /\ \A e \in rest : cur # << >> /\ e.src = cur[2]
    /\ cur # << >> => \/ \A n \in Settled : dist[n] <= dist[cur[2]]
                      \/ \A e \in rest : Relaxed(e)

Expanded == \A n \in Settled \ {Target} : \A e \in graph \ rest : e.src = n => Relaxed(e)

FromSource == Source \notin DOMAIN prev /\ dist[Source] = 0 /\ arrival[Source] = -1

IInv == TypeOK /\ GraphOK /\ HeapAbove /\ Expanding /\ Expanded /\ FromSource /\ LabelsFit

-----------------------------------------------------------------------------
LEMMA MinOfTimes ==
    ASSUME NEW S \in SUBSET Nat, S # {} PROVE Min(S) \in S
BY LeastExists DEF Min

LEMMA Costs ==
    ASSUME TypeOK, GraphOK, NEW e \in graph PROVE EdgeCost(e) \in Nat /\ EdgeCost(e) >= 40
<1>1. Risk(e.dst) \in 0 .. 10
  BY RiskAssumption DEF GraphOK
<1>2. PlainStep(e) \in Nat /\ PlainStep(e) >= 40
  BY <1>1 DEF PlainStep
<1>3. penalties[e] \in Nat
  BY DEF TypeOK
<1> QED BY <1>2, <1>3 DEF EdgeCost

LEMMA Times ==
    ASSUME TypeOK, GraphOK, FromSource
    PROVE  \A n \in DOMAIN dist : arrival[n] \in Int
<1>1. \A n \in DOMAIN prev : arrival[n] = prev[n].at /\ prev[n] \in graph
  BY DEF TypeOK
<1> QED BY <1>1 DEF TypeOK, GraphOK, FromSource

-----------------------------------------------------------------------------
\* The search starts in the state in which it starts again for the next path.
LEMMA Started ==
    ASSUME dist = [n \in {Source} |-> 0], arrival = [n \in {Source} |-> -1],
           prev = [n \in {} |-> 0], heap = {<<0, Source>>}, cur = << >>, rest = {}
    PROVE  HeapAbove /\ Expanding /\ Expanded /\ FromSource /\ LabelsFit
<1>1. Settled = {}
  BY DEF Settled
<1>2. \A x \in heap : dist[x[2]] <= x[1]
  OBVIOUS
<1> QED BY <1>1, <1>2 DEF HeapAbove, Expanding, Expanded, FromSource, LabelsFit

LEMMA InitOK == Init => IInv
<1> SUFFICES ASSUME Init PROVE IInv
  OBVIOUS
<1>1. GraphOK
  <2> SUFFICES ASSUME NEW e \in graph PROVE e.src \in Node /\ e.dst \in Node /\ e.at \in Nat
    BY DEF GraphOK
  <2>1. PICK o \in seen : e = SlotOf(o, seen)
    BY DEF Init
  <2> DEFINE times == {p.at : p \in {q \in seen : q.src = o.src /\ q.dst = o.dst
                                                    /\ q.type = o.type}}
  <2>2. e.src = o.src /\ e.dst = o.dst /\ e.at = Min(times)
    BY <2>1 DEF SlotOf, Folded
  <2>3. seen \subseteq [src : Node, dst : Node, type : Type, at : Nat]
    BY ObservationAssumption DEF Init
  <2>4. times \subseteq Nat
    BY <2>3
  <2>5. o.at \in times
    BY <2>3
  <2>6. o.src \in Node /\ o.dst \in Node
    BY <2>3
  <2> HIDE DEF times
  <2>7. Min(times) \in Nat
    BY <2>4, <2>5, MinOfTimes
  <2> QED BY <2>2, <2>6, <2>7
<1>2. TypeOK
  BY EndsAssumption DEF Init, TypeOK
<1> QED BY <1>1, <1>2, Started DEF Init, IInv

\* Popping the cheapest entry settles its node, or finds it settled.
LEMMA PopKeeps ==
    ASSUME IInv, NEW x \in heap, Pop(x) PROVE IInv'
<1> DEFINE n == x[2]
<1>1. /\ n \in DOMAIN dist /\ n \in Node /\ x[1] \in Nat /\ x = <<x[1], n>>
      /\ \A m \in DOMAIN dist : dist[m] \in Nat
  BY DEF IInv, TypeOK
<1>2. /\ heap' = heap \ {x} /\ cur' = x /\ rest = {}
      /\ rest' = IF n = Target THEN {} ELSE {e \in graph : e.src = n}
      /\ UNCHANGED <<asked, penalties, paths, dist, arrival, prev, pc>>
      /\ \A y \in heap : x[1] <= y[1]
  BY DEF Pop, Popped, Nearest
<1>3. UNCHANGED <<seen, window, graph>>
  BY <1>2 DEF asked
<1>4. TypeOK'
  BY <1>1, <1>2, <1>3 DEF IInv, TypeOK
<1>5. Settled' = IF x[1] = dist[n] THEN Settled \cup {n} ELSE Settled
  BY <1>1, <1>2 DEF Settled
<1>6. dist[n] <= x[1]
  BY <1>1 DEF IInv, HeapAbove
<1>7. x[1] # dist[n] => n \in Settled
  <2> SUFFICES ASSUME x[1] # dist[n], <<dist[n], n>> \in heap PROVE FALSE
    BY <1>1 DEF Settled
  <2>1. x[1] <= dist[n]
    BY <1>2
  <2> QED BY <1>1, <1>6, <2>1
<1>8. HeapAbove'
  BY <1>1, <1>2, <1>5, <1>6 DEF IInv, HeapAbove
<1>9. \A e \in graph : Relaxed(e)' = Relaxed(e)
  BY <1>2 DEF Relaxed, Feasible, EdgeCost, PlainStep
<1>10. Expanding'
  <2>1. n \in Settled' /\ cur' # << >> /\ cur'[2] = n
    BY <1>1, <1>2, <1>5, <1>7
  <2>2. \A e \in rest' : e \in graph /\ e.src = n /\ n # Target
    BY <1>2
  <2> HIDE DEF n
  <2>3. CASE x[1] = dist[n]
    <3>1. \A m \in Settled : dist[m] <= dist[n]
      BY <2>3 DEF IInv, HeapAbove
    <3>2. \A m \in Settled' : dist'[m] <= dist'[n]
      BY <1>1, <1>2, <1>5, <2>3, <3>1
    <3> QED BY <2>1, <2>2, <3>2 DEF Expanding
  <2>4. CASE x[1] # dist[n]
    <3>1. \A e \in rest' : Relaxed(e)
      BY <1>2, <1>7, <2>2, <2>4 DEF IInv, Expanded
    <3>2. \A e \in rest' : Relaxed(e)'
      BY <1>9, <2>2, <3>1
    <3> QED BY <2>1, <2>2, <3>2 DEF Expanding
  <2> QED BY <2>3, <2>4
<1>11. Expanded'
  <2> SUFFICES ASSUME NEW m \in Settled' \ {Target}, NEW e \in graph' \ rest', e.src = m
               PROVE  Relaxed(e)'
    BY DEF Expanded
  <2>1. m # n /\ m \in Settled /\ e \in graph \ rest
    BY <1>2, <1>3, <1>5
  <2> QED BY <1>9, <2>1 DEF IInv, Expanded
<1>12. FromSource' /\ GraphOK' /\ LabelsFit'
  BY <1>2, <1>3, <1>5 DEF IInv, FromSource, GraphOK, LabelsFit, EdgeCost, PlainStep
<1> QED BY <1>4, <1>8, <1>10, <1>11, <1>12 DEF IInv

\* A slot that offers nothing better is done with.
LEMMA RelaxIdle ==
    ASSUME IInv, NEW e \in rest, rest' = rest \ {e}, ~(Feasible(e) /\ Improves(e)),
           UNCHANGED <<dist, arrival, prev, heap, asked, penalties, paths, cur, pc>>
    PROVE  IInv'
<1>1. UNCHANGED <<seen, window, graph>>
  BY DEF asked
<1>2. TypeOK' /\ GraphOK' /\ FromSource'
  BY <1>1 DEF IInv, TypeOK, GraphOK, FromSource
<1>3. HeapAbove' /\ LabelsFit'
  BY <1>1 DEF IInv, HeapAbove, LabelsFit, Settled, EdgeCost, PlainStep
<1>4. Settled' = Settled /\ \A f \in graph : Relaxed(f)' = Relaxed(f)
  BY DEF Settled, Relaxed, Feasible, EdgeCost, PlainStep
<1>5. e \in graph /\ e.src \in DOMAIN dist /\ e.dst \in Node
  BY DEF IInv, TypeOK, Expanding, GraphOK, Settled
<1>6. Relaxed(e)
  <2>1. EdgeCost(e) \in Nat
    BY <1>5, Costs DEF IInv
  <2>2. \A n \in DOMAIN dist : dist[n] \in Nat
    BY DEF IInv, TypeOK
  <2> QED BY <1>5, <2>1, <2>2 DEF Relaxed, Improves
<1>7. Expanding'
  BY <1>1, <1>4 DEF IInv, Expanding, TypeOK
<1>8. Expanded'
  BY <1>1, <1>4, <1>6 DEF IInv, Expanded
<1> QED BY <1>2, <1>3, <1>7, <1>8 DEF IInv

\* A better label goes to a node that is not settled.
LEMMA RelaxLabels ==
    ASSUME IInv, NEW e \in rest, rest' = rest \ {e}, Feasible(e), Improves(e),
           dist' = Put(dist, e.dst, dist[e.src] + EdgeCost(e)),
           arrival' = Put(arrival, e.dst, Arrival(e)),
           prev' = Put(prev, e.dst, e),
           heap' = heap \cup {<<dist[e.src] + EdgeCost(e), e.dst>>},
           UNCHANGED <<asked, penalties, paths, cur, pc>>
    PROVE  IInv'
<1> DEFINE n == e.src
           d == e.dst
           c == dist[n] + EdgeCost(e)
<1>1. UNCHANGED <<seen, window, graph>>
  BY DEF asked
<1>2. /\ e \in graph /\ cur # << >> /\ n = cur[2] /\ n \in Settled /\ n \in DOMAIN dist
      /\ n \in Node /\ d \in Node
  BY DEF IInv, TypeOK, Expanding, GraphOK, Settled
<1>3. EdgeCost(e) \in Nat /\ EdgeCost(e) >= 40
  BY <1>2, Costs DEF IInv
<1>4. \A m \in DOMAIN dist : dist[m] \in Nat /\ arrival[m] \in Int
  BY Times DEF IInv, TypeOK
<1>5. c \in Nat /\ c > dist[n] /\ c > 0
  BY <1>2, <1>3, <1>4
<1>6. d \in DOMAIN dist => c < dist[d]
  BY DEF Improves
<1>7. \A m \in Settled : dist[m] <= dist[n]
  <2>1. ~Relaxed(e)
    BY <1>2, <1>4, <1>5, <1>6 DEF Relaxed
  <2> QED BY <1>2, <2>1 DEF IInv, Expanding
<1>8. d \notin Settled /\ d # Source /\ d # n
  <2>1. d \notin Settled
    BY <1>2, <1>4, <1>5, <1>6, <1>7 DEF Settled
  <2>2. d # Source
    BY <1>4, <1>5, <1>6 DEF IInv, FromSource, TypeOK
  <2> QED BY <1>2, <2>1, <2>2
<1>9. Arrival(e) = e.at /\ arrival[n] <= e.at
  BY <1>2, <1>4 DEF Feasible, Arrival, IInv, GraphOK
<1>10. /\ DOMAIN dist' = DOMAIN dist \cup {d} /\ DOMAIN arrival' = DOMAIN arrival \cup {d}
       /\ DOMAIN prev' = DOMAIN prev \cup {d}
       /\ dist'[d] = c /\ arrival'[d] = e.at /\ prev'[d] = e
       /\ heap' = heap \cup {<<c, d>>}
  BY <1>9 DEF Put
<1>11. /\ \A m \in DOMAIN dist : m # d => dist'[m] = dist[m]
       /\ \A m \in DOMAIN arrival : m # d => arrival'[m] = arrival[m]
       /\ \A m \in DOMAIN prev : m # d => prev'[m] = prev[m]
  BY DEF Put
<1>12. \A f \in graph : EdgeCost(f)' = EdgeCost(f)
  BY DEF EdgeCost, PlainStep
<1> HIDE DEF n, d, c
<1>13. TypeOK'
  <2>1. /\ seen' \subseteq Observation /\ window' \in Windows
        /\ penalties' \in [graph' -> Nat] /\ rest' \subseteq graph' /\ pc' \in {"search", "done"}
    BY <1>1 DEF IInv, TypeOK
  <2>2. /\ Source \in DOMAIN dist' /\ DOMAIN dist' \subseteq Node
        /\ DOMAIN arrival' = DOMAIN dist' /\ DOMAIN prev' \cup {Source} = DOMAIN dist'
    BY <1>2, <1>10 DEF IInv, TypeOK
  <2>3. \A m \in DOMAIN dist' : dist'[m] \in Nat
    BY <1>4, <1>5, <1>10, <1>11
  <2>4. heap' \subseteq Nat \X DOMAIN dist' /\ (cur' # << >> => cur' \in Nat \X DOMAIN dist')
    BY <1>5, <1>10 DEF IInv, TypeOK
  <2>5. ASSUME NEW m \in DOMAIN prev'
        PROVE  /\ prev'[m] \in graph' /\ prev'[m].dst = m /\ prev'[m].src \in DOMAIN dist'
               /\ arrival'[m] = prev'[m].at
    <3>1. CASE m = d
      BY <1>1, <1>2, <1>10, <3>1 DEF n, d
    <3>2. CASE m # d
      BY <1>1, <1>10, <1>11, <3>2 DEF IInv, TypeOK
    <3> QED BY <3>1, <3>2
  <2> QED BY <2>1, <2>2, <2>3, <2>4, <2>5 DEF TypeOK
<1>14. Settled' = Settled
  <2>1. \A m \in DOMAIN dist : m # d => (m \in Settled' <=> m \in Settled)
    BY <1>10, <1>11 DEF Settled
  <2>2. d \notin Settled'
    BY <1>10 DEF Settled
  <2>3. \A m \in Settled : m \in DOMAIN dist
    BY DEF Settled
  <2>4. \A m \in Settled' : m \in DOMAIN dist \cup {d}
    BY <1>10 DEF Settled
  <2> QED BY <1>8, <2>1, <2>2, <2>3, <2>4
<1>15. HeapAbove'
  <2>1. ASSUME NEW x \in heap PROVE dist'[x[2]] <= x[1]
    <3>1. x[2] \in DOMAIN dist /\ x[1] \in Nat /\ dist[x[2]] <= x[1]
      BY DEF IInv, TypeOK, HeapAbove
    <3> QED BY <1>4, <1>5, <1>6, <1>10, <1>11, <3>1
  <2>2. dist'[d] <= c
    BY <1>5, <1>10
  <2>3. ASSUME NEW m \in Settled, NEW x \in heap PROVE dist'[m] <= x[1]
    BY <1>8, <1>11 DEF IInv, HeapAbove, Settled
  <2>4. ASSUME NEW m \in Settled PROVE dist'[m] <= c
    <3>1. m \in DOMAIN dist /\ m # d /\ dist[m] <= dist[n]
      BY <1>7, <1>8 DEF Settled
    <3> QED BY <1>2, <1>4, <1>5, <1>11, <3>1
  <2> QED BY <1>10, <1>14, <2>1, <2>2, <2>3, <2>4 DEF HeapAbove
<1>16. Expanding'
  <2>1. \A m \in Settled : dist'[m] <= dist'[n]
    BY <1>2, <1>7, <1>8, <1>11 DEF Settled
  <2> QED BY <1>2, <1>14, <2>1 DEF IInv, Expanding
<1>17. Expanded'
  <2> SUFFICES ASSUME NEW m \in Settled \ {Target}, NEW f \in graph \ rest', f.src = m
               PROVE  Relaxed(f)'
    BY <1>1, <1>14 DEF Expanded
  <2>1. /\ m \in DOMAIN dist /\ m # d /\ dist'[m] = dist[m] /\ arrival'[m] = arrival[m]
        /\ EdgeCost(f)' = EdgeCost(f)
    BY <1>8, <1>11, <1>12 DEF Settled, IInv, TypeOK
  <2>2. CASE f = e
    BY <1>2, <1>5, <1>10, <2>1, <2>2 DEF Relaxed, n, d, c
  <2>3. CASE f # e
    <3>1. Relaxed(f)
      BY <2>3 DEF IInv, Expanded
    <3>2. EdgeCost(f) \in Nat
      BY Costs DEF IInv
    <3>3. f.dst \in DOMAIN dist => f.dst \in DOMAIN dist' /\ dist'[f.dst] <= dist[f.dst]
      BY <1>4, <1>5, <1>6, <1>10, <1>11
    <3>4. f.dst \in DOMAIN dist => dist'[f.dst] \in Nat /\ dist[f.dst] \in Nat
      BY <1>4, <1>5, <1>10, <1>11
    <3> QED BY <1>4, <2>1, <3>1, <3>2, <3>3, <3>4 DEF Relaxed, Feasible
  <2> QED BY <2>2, <2>3
<1>18. LabelsFit'
  <2> SUFFICES ASSUME NEW m \in DOMAIN prev'
               PROVE  /\ prev'[m].src \in Settled'
                      /\ arrival'[prev'[m].src] <= prev'[m].at
                      /\ dist'[m] = dist'[prev'[m].src] + (EdgeCost(prev[m]))'
    BY DEF LabelsFit
  <2>1. CASE m = d
    <3>1. dist'[n] = dist[n] /\ arrival'[n] = arrival[n]
      BY <1>2, <1>8, <1>11 DEF IInv, TypeOK
    <3>2. (EdgeCost(prev[m]))' = EdgeCost(e)
      BY <1>10, <2>1 DEF EdgeCost, PlainStep
    <3> QED BY <1>2, <1>9, <1>10, <1>14, <2>1, <3>1, <3>2 DEF n, c
  <2>2. CASE m # d
    <3>1. /\ m \in DOMAIN prev /\ prev'[m] = prev[m] /\ m \in DOMAIN dist
          /\ prev[m] \in graph /\ prev[m].src \in Settled
      BY <1>10, <1>11, <2>2 DEF IInv, TypeOK, LabelsFit
    <3>2. /\ prev[m].src \in DOMAIN dist /\ prev[m].src # d
          /\ arrival'[prev[m].src] = arrival[prev[m].src]
          /\ dist'[prev[m].src] = dist[prev[m].src] /\ dist'[m] = dist[m]
      BY <1>8, <1>11, <2>2, <3>1 DEF IInv, TypeOK, Settled
    <3>3. (EdgeCost(prev[m]))' = EdgeCost(prev[m])
      BY <3>1 DEF EdgeCost, PlainStep
    <3> QED BY <1>14, <3>1, <3>2, <3>3 DEF IInv, LabelsFit
  <2> QED BY <2>1, <2>2
<1>19. FromSource' /\ GraphOK'
  BY <1>1, <1>8, <1>10, <1>11 DEF IInv, FromSource, GraphOK, TypeOK
<1> QED BY <1>13, <1>15, <1>16, <1>17, <1>18, <1>19 DEF IInv

LEMMA RelaxKeeps == ASSUME IInv, NEW e \in rest, Relax(e) PROVE IInv'
<1>1. CASE Feasible(e) /\ Improves(e)
  BY <1>1, RelaxLabels DEF Relax
<1>2. CASE ~(Feasible(e) /\ Improves(e))
  BY <1>2, RelaxIdle DEF Relax
<1> QED BY <1>1, <1>2

LEMMA PathFoundKeeps == ASSUME IInv, PathFound PROVE IInv'
<1>1. /\ UNCHANGED <<seen, window, graph>> /\ rest' = {} /\ cur' = << >> /\ pc' \in {"search", "done"}
      /\ dist' = [n \in {Source} |-> 0] /\ arrival' = [n \in {Source} |-> -1]
      /\ prev' = [n \in {} |-> 0] /\ heap' = {<<0, Source>>}
  BY DEF PathFound, SearchOver, asked
<1>2. penalties' \in [graph -> Nat]
  <2> DEFINE new == Route(Target) \notin SlotsOf(paths)
             more(e) == IF new /\ e \in SlotsOf(Route(Target)) THEN 200 ELSE 0
  <2>1. penalties' = [e \in graph |-> penalties[e] + more(e)]
    BY DEF PathFound
  <2>2. \A e \in graph : more(e) \in Nat /\ penalties[e] \in Nat
    BY DEF IInv, TypeOK
  <2> HIDE DEF more
  <2> QED BY <2>1, <2>2
<1>3. TypeOK'
  BY <1>1, <1>2, EndsAssumption DEF IInv, TypeOK
<1>4. /\ Settled' = {} /\ \A x \in heap' : dist'[x[2]] <= x[1]
  BY <1>1 DEF Settled
<1>5. HeapAbove' /\ Expanding' /\ Expanded' /\ FromSource' /\ LabelsFit'
  BY <1>1, <1>4 DEF HeapAbove, Expanding, Expanded, FromSource, LabelsFit
<1> QED BY <1>1, <1>3, <1>5 DEF IInv, GraphOK

LEMMA Same ==
    ASSUME IInv, pc' \in {"search", "done"},
           UNCHANGED <<asked, penalties, paths, dist, arrival, prev, heap, cur, rest>>
    PROVE  IInv'
<1>1. UNCHANGED <<seen, window, graph>>
  BY DEF asked
<1>2. TypeOK' /\ GraphOK' /\ FromSource'
  BY <1>1 DEF IInv, TypeOK, GraphOK, FromSource
<1>3. HeapAbove' /\ LabelsFit'
  BY <1>1 DEF IInv, HeapAbove, LabelsFit, Settled, EdgeCost, PlainStep
<1>4. Settled' = Settled /\ \A e : Relaxed(e)' = Relaxed(e)
  BY DEF Settled, Relaxed, Feasible, EdgeCost, PlainStep
<1>5. Expanding' /\ Expanded'
  BY <1>1, <1>4 DEF IInv, Expanding, Expanded
<1> QED BY <1>2, <1>3, <1>5 DEF IInv

LEMMA IInvNext == IInv /\ [Next]_vars => IInv'
<1> SUFFICES ASSUME IInv, [Next]_vars PROVE IInv'
  OBVIOUS
<1>1. CASE NoPath
  BY <1>1, Same DEF NoPath
<1>2. CASE UNCHANGED vars
  <2>1. pc' \in {"search", "done"}
    BY <1>2 DEF vars, IInv, TypeOK
  <2> QED BY <1>2, <2>1, Same DEF vars
<1> QED BY <1>1, <1>2, PopKeeps, RelaxKeeps, PathFoundKeeps DEF Next

\* The state of the search is well-formed and every label fits the one it leads on
\* from, on any graph and whatever paths were penalised before (analytics.rs:319-336).
THEOREM LabelsAlwaysFit == Spec => [](TypeOK /\ LabelsFit)
<1>1. IInv => TypeOK /\ LabelsFit
  BY DEF IInv
<1> QED BY <1>1, InitOK, IInvNext, PTL DEF Spec

-----------------------------------------------------------------------------
\* What following the labels back from node n reads, last slot first.
Trail(p, n) ==
    /\ p \in Seq(graph)
    /\ p # << >> => p[Len(p)].dst = n
    /\ \A i \in 1 .. Len(p) : p[i].dst \in DOMAIN prev /\ p[i] = prev[p[i].dst]
    /\ \A i \in 1 .. Len(p) - 1 : p[i].dst = p[i + 1].src

\* It has come to the source.
LabelRoute(p, n) == Trail(p, n) /\ p # << >> /\ p[1].src = Source

LEMMA Dearer ==
    ASSUME IInv, NEW n, NEW p, Trail(p, n), NEW i \in 1 .. Len(p), NEW j \in 1 .. Len(p),
           i < j
    PROVE  dist[p[i].dst] < dist[p[j].dst]
<1>1. Len(p) \in Nat /\ \A k \in 1 .. Len(p) : p[k] \in graph
  BY DEF Trail
<1>2. \A k \in 1 .. Len(p) : p[k].dst \in DOMAIN dist /\ dist[p[k].dst] \in Nat
  BY DEF Trail, IInv, TypeOK
<1>3. ASSUME NEW k \in 1 .. Len(p) - 1 PROVE dist[p[k].dst] < dist[p[k + 1].dst]
  <2>1. k \in 1 .. Len(p) /\ k + 1 \in 1 .. Len(p)
    BY <1>1
  <2>2. dist[p[k + 1].dst] = dist[p[k].dst] + EdgeCost(p[k + 1])
    BY <2>1 DEF Trail, IInv, LabelsFit
  <2>3. EdgeCost(p[k + 1]) \in Nat /\ EdgeCost(p[k + 1]) >= 40
    BY <1>1, <2>1, Costs DEF IInv
  <2> QED BY <1>2, <2>1, <2>2, <2>3
<1> DEFINE T == {m \in Nat : i + 1 + m <= Len(p) => dist[p[i].dst] < dist[p[i + 1 + m].dst]}
<1>4. 0 \in T
  <2>1. i + 1 + 0 = i + 1
    OBVIOUS
  <2> QED BY <1>1, <1>3, <2>1
<1>5. ASSUME NEW m \in T PROVE m + 1 \in T
  <2> SUFFICES ASSUME i + 1 + (m + 1) <= Len(p)
               PROVE  dist[p[i].dst] < dist[p[i + 1 + (m + 1)].dst]
    OBVIOUS
  <2> DEFINE k == i + 1 + m
  <2>1. k \in 1 .. Len(p) - 1 /\ i + 1 + (m + 1) = k + 1 /\ k + 1 \in 1 .. Len(p) /\ k \in 1 .. Len(p)
    BY <1>1
  <2>2. dist[p[i].dst] < dist[p[k].dst]
    BY <1>1, <2>1
  <2> HIDE DEF k
  <2>3. dist[p[k].dst] < dist[p[k + 1].dst]
    BY <1>3, <2>1
  <2>4. dist[p[i].dst] \in Nat /\ dist[p[k].dst] \in Nat /\ dist[p[k + 1].dst] \in Nat
    BY <1>2, <2>1
  <2>5. dist[p[i].dst] < dist[p[k + 1].dst]
    BY <2>2, <2>3, <2>4
  <2> QED BY <2>1, <2>5
<1> HIDE DEF T
<1>6. T = Nat
  <2>1. T \in SUBSET Nat
    BY DEF T
  <2> QED BY <1>4, <1>5, <2>1, AllNat
<1> DEFINE gap == j - i - 1
<1>7. gap \in Nat /\ i + 1 + gap = j /\ j <= Len(p)
  BY <1>1
<1> HIDE DEF gap
<1>8. gap \in T
  BY <1>6, <1>7
<1>9. i + 1 + gap <= Len(p) => dist[p[i].dst] < dist[p[i + 1 + gap].dst]
  BY <1>8 DEF T
<1> QED BY <1>7, <1>9

\* A label's route: connected, in time order, without a cycle.
LEMMA RouteSound ==
    ASSUME IInv, NEW n, NEW p, LabelRoute(p, n)
    PROVE  Connected(p, n) /\ TimeRespecting(p) /\ Simple(p) /\ SlotsOf(p) \subseteq graph
<1>1. DOMAIN p = 1 .. Len(p) /\ Len(p) \in Nat /\ \A i \in DOMAIN p : p[i] \in graph
  BY DEF LabelRoute, Trail
<1>2. TimeRespecting(p)
  <2> SUFFICES ASSUME NEW i \in 1 .. Len(p) - 1 PROVE p[i].at <= p[i + 1].at
    BY DEF TimeRespecting
  <2>1. i \in 1 .. Len(p) /\ i + 1 \in 1 .. Len(p)
    BY <1>1
  <2>2. p[i].at = arrival[p[i].dst]
    BY <2>1 DEF LabelRoute, Trail, IInv, TypeOK
  <2>3. arrival[p[i + 1].src] <= p[i + 1].at
    BY <2>1 DEF LabelRoute, Trail, IInv, LabelsFit
  <2> QED BY <2>2, <2>3 DEF LabelRoute, Trail
<1>3. Simple(p)
  <2>1. ASSUME NEW i \in DOMAIN p, NEW j \in DOMAIN p, i < j PROVE p[i].dst # p[j].dst
    <3>1. /\ dist[p[i].dst] < dist[p[j].dst]
          /\ dist[p[i].dst] \in Nat /\ dist[p[j].dst] \in Nat
      BY <1>1, <2>1, Dearer DEF LabelRoute, Trail, IInv, TypeOK
    <3> QED BY <3>1
  <2>2. \A i \in DOMAIN p : p[i].dst # Source
    BY <1>1 DEF LabelRoute, Trail, IInv, FromSource
  <2>3. \A i, j \in DOMAIN p : i # j => i < j \/ j < i
    BY <1>1
  <2> QED BY <2>1, <2>2, <2>3 DEF Simple
<1> QED BY <1>1, <1>2, <1>3 DEF LabelRoute, Trail, Connected, SlotsOf

\* What the labels of a node spell is a route nobody has to travel back in time for,
\* without a cycle, at any moment of the search ("you cannot act on a host before
\* reaching it", analytics.rs:255).
THEOREM RoutesAlwaysSound ==
    Spec => [](\A n, p : LabelRoute(p, n) => TimeRespecting(p) /\ Simple(p))
<1>1. IInv => \A n, p : LabelRoute(p, n) => TimeRespecting(p) /\ Simple(p)
  BY RouteSound
<1> QED BY <1>1, InitOK, IInvNext, PTL DEF Spec

-----------------------------------------------------------------------------
\* No edge was first seen before the edges that lead to it.
Timely == \A e, f \in graph : e.dst = f.src => e.at <= f.at

\* c adds up the costs of the slots of p, penalties included.
CostsOf(p, c) ==
    /\ c \in [0 .. Len(p) -> Nat]
    /\ c[0] = 0
    /\ \A i \in 1 .. Len(p) : c[i] = c[i - 1] + EdgeCost(p[i])

\* The node a path has reached after i steps.
After(p, i) == IF i = 0 THEN Source ELSE p[i].dst

\* The node, or the target, can be had for no more than x.
Had(n, x) == n \in DOMAIN dist /\ dist[n] <= x

LEMMA OneStepOn ==
    ASSUME IInv, SearchOver, Timely, NEW e \in graph, NEW x \in Nat,
           Had(e.src, x) \/ Had(Target, x)
    PROVE  Had(e.dst, x + EdgeCost(e)) \/ Had(Target, x + EdgeCost(e))
<1>1. EdgeCost(e) \in Nat
  BY Costs DEF IInv
<1>2. \A n \in DOMAIN dist : dist[n] \in Nat
  BY DEF IInv, TypeOK
<1>3. CASE Had(Target, x)
  BY <1>1, <1>2, <1>3 DEF Had
<1> DEFINE n == e.src
<1>4. CASE Had(n, x)
  <2>1. n \in DOMAIN dist /\ dist[n] <= x /\ dist[n] \in Nat
    BY <1>2, <1>4 DEF Had
  <2>2. CASE n \notin Settled
    <3>1. <<dist[n], n>> \in heap
      BY <2>1, <2>2 DEF Settled
    <3>2. Target \in Settled
      BY <3>1 DEF SearchOver, AtTarget, IInv, Expanding
    <3>3. dist[Target] <= dist[n] /\ Target \in DOMAIN dist
      BY <3>1, <3>2 DEF IInv, HeapAbove, Settled
    <3> QED BY <1>1, <1>2, <2>1, <3>3 DEF Had
  <2>3. CASE n = Target
    BY <1>1, <2>1, <2>3 DEF Had
  <2>4. CASE n \in Settled \ {Target}
    <3>1. e \in graph \ rest
      BY DEF SearchOver
    <3>2. Relaxed(e)
      BY <2>4, <3>1 DEF IInv, Expanded
    <3>3. arrival[n] <= e.at
      <4>1. CASE n = Source
        BY <4>1 DEF IInv, FromSource, GraphOK
      <4>2. CASE n # Source
        BY <2>1, <4>2 DEF IInv, TypeOK, Timely
      <4> QED BY <4>1, <4>2
    <3>4. e.dst \in DOMAIN dist /\ dist[e.dst] <= dist[n] + EdgeCost(e)
      BY <3>2, <3>3 DEF Relaxed, Feasible
    <3>5. dist[e.dst] \in Nat
      BY <1>2, <3>4
    <3> QED BY <1>1, <2>1, <3>4, <3>5 DEF Had
  <2> QED BY <2>2, <2>3, <2>4
<1> QED BY <1>3, <1>4

LEMMA NothingCheaper ==
    ASSUME IInv, SearchOver, Timely, NEW p \in Seq(graph), Connected(p, Target),
           NEW c, CostsOf(p, c)
    PROVE  Had(Target, c[Len(p)])
<1>1. Len(p) \in Nat /\ \A i \in 1 .. Len(p) : p[i] \in graph
  OBVIOUS
<1>2. \A i \in 0 .. Len(p) : c[i] \in Nat
  BY DEF CostsOf
<1> DEFINE S == {i \in Nat : i <= Len(p) => Had(After(p, i), c[i]) \/ Had(Target, c[i])}
<1>3. 0 \in S
  <2>1. Had(Source, c[0])
    BY DEF IInv, FromSource, TypeOK, CostsOf, Had
  <2> QED BY <2>1 DEF After
<1>4. ASSUME NEW i \in S PROVE i + 1 \in S
  <2> SUFFICES ASSUME i + 1 <= Len(p)
               PROVE  Had(After(p, i + 1), c[i + 1]) \/ Had(Target, c[i + 1])
    OBVIOUS
  <2>1. i \in Nat /\ i <= Len(p) /\ i + 1 \in 1 .. Len(p) /\ i \in 0 .. Len(p)
    BY <1>1
  <2>2. Had(After(p, i), c[i]) \/ Had(Target, c[i])
    BY <2>1
  <2>3. After(p, i) = p[i + 1].src
    <3>1. CASE i = 0
      BY <2>1, <3>1 DEF Connected, After
    <3>2. CASE i # 0
      <4>1. i \in 1 .. Len(p) - 1
        BY <1>1, <2>1, <3>2
      <4> QED BY <3>2, <4>1 DEF Connected, After
    <3> QED BY <3>1, <3>2
  <2>4. c[i + 1] = c[i] + EdgeCost(p[i + 1])
    <3>1. c[i + 1] = c[i + 1 - 1] + EdgeCost(p[i + 1])
      BY <2>1 DEF CostsOf
    <3>2. i + 1 - 1 = i
      BY <2>1
    <3> QED BY <3>1, <3>2
  <2>5. After(p, i + 1) = p[i + 1].dst
    BY <2>1 DEF After
  <2>6. p[i + 1] \in graph /\ c[i] \in Nat
    BY <1>1, <1>2, <2>1
  <2> HIDE DEF S
  <2> QED BY <2>2, <2>3, <2>4, <2>5, <2>6, OneStepOn
<1> HIDE DEF S
<1>5. S = Nat
  <2>1. S \in SUBSET Nat
    BY DEF S
  <2> QED BY <1>3, <1>4, <2>1, AllNat
<1>6. Had(After(p, Len(p)), c[Len(p)]) \/ Had(Target, c[Len(p)])
  <2>1. Len(p) \in S
    BY <1>1, <1>5
  <2> QED BY <1>1, <2>1 DEF S
<1>7. After(p, Len(p)) = Target
  BY <1>1 DEF After, Connected
<1> QED BY <1>6, <1>7

\* When a search is over on a graph where time does not get in the way, the target has
\* a label if any route leads to it, and none is cheaper: with the penalties of the
\* paths before it, what is returned next is a cheapest route, on every graph, with
\* cycles, and whatever ties were broken how (analytics.rs:296-336).
THEOREM CheapestWhenTimely ==
    Spec => [](SearchOver /\ Timely =>
                   \A p \in Seq(graph) : Connected(p, Target) =>
                       \A c : CostsOf(p, c) => Had(Target, c[Len(p)]))
<1>1. IInv => (SearchOver /\ Timely =>
                   \A p \in Seq(graph) : Connected(p, Target) =>
                       \A c : CostsOf(p, c) => Had(Target, c[Len(p)]))
  BY NothingCheaper
<1> QED BY <1>1, InitOK, IInvNext, PTL DEF Spec

-----------------------------------------------------------------------------
(***************************************************************************)
(* The route the program reconstructs                                      *)
(***************************************************************************)
IsWalk(W) ==
    W = [k \in 0 .. Cardinality(Node) |->
           [x \in DOMAIN dist |-> IF x = Source \/ k = 0 THEN << >>
                                  ELSE Append(W[k - 1][prev[x].src], prev[x])]]
Walk == CHOOSE W : IsWalk(W)

LEMMA NodeCount == Cardinality(Node) \in Nat /\ Cardinality(Node) >= 1
<1>1. Cardinality(Node) \in Nat
  BY NodeAssumption, FS_CardinalityType
<1>2. Cardinality({Source}) = 1 /\ {Source} \in SUBSET Node
  BY EndsAssumption, FS_Singleton
<1>3. Cardinality({Source}) <= Cardinality(Node)
  BY <1>2, NodeAssumption, FS_Subset
<1> QED BY <1>1, <1>2, <1>3

LEMMA WalkIs ==
    ASSUME IInv
    PROVE  /\ \A n : Route(n) = Walk[Cardinality(Node)][n]
           /\ \A x \in DOMAIN dist : Walk[0][x] = << >>
           /\ \A k \in 0 .. Cardinality(Node) - 1 : \A x \in DOMAIN dist :
                 Walk[k + 1][x] = IF x = Source THEN << >>
                                  ELSE Append(Walk[k][prev[x].src], prev[x])
<1> DEFINE N == Cardinality(Node)
           S == [DOMAIN dist -> Seq(graph)]
           base == [x \in DOMAIN dist |-> << >>]
           turn(R) == [x \in DOMAIN dist |-> IF x = Source THEN << >>
                                             ELSE Append(R[prev[x].src], prev[x])]
           step == [p \in Nat \X S |-> turn(p[2])]
           level(W, k) == [x \in DOMAIN dist |-> IF x = Source \/ k = 0 THEN << >>
                                  ELSE Append(W[k - 1][prev[x].src], prev[x])]
<1>1. N \in Nat
  BY NodeCount
<1>2. \A x \in DOMAIN dist : x # Source => prev[x] \in graph /\ prev[x].src \in DOMAIN dist
  BY DEF IInv, TypeOK
<1>3. base \in S
  OBVIOUS
<1>4. \A R \in S : turn(R) \in S
  <2> TAKE R \in S
  <2>1. ASSUME NEW x \in DOMAIN dist
        PROVE  (IF x = Source THEN << >> ELSE Append(R[prev[x].src], prev[x])) \in Seq(graph)
    BY <1>2
  <2> QED BY <2>1
<1>5. /\ \A W : level(W, 0) = base
      /\ \A W, k : k # 0 => level(W, k) = turn(W[k - 1])
  OBVIOUS
<1>6. \A R : \A x \in DOMAIN dist :
         turn(R)[x] = IF x = Source THEN << >> ELSE Append(R[prev[x].src], prev[x])
  OBVIOUS
<1>7. \A x \in DOMAIN dist : base[x] = << >>
  OBVIOUS
<1> HIDE DEF turn, S
<1>8. step \in [Nat \X S -> S] /\ \A k \in Nat, R \in S : step[<<k, R>>] = turn(R)
  BY <1>4
<1> HIDE DEF step, base, N
<1>9. PICK f : UpTo(N, f, S, base, step)
  BY <1>1, <1>3, <1>8, UpToExists
<1> DEFINE Is(W) == W = [k \in 0 .. N |-> level(W, k)]
<1>10. Is(f)
  <2>1. ASSUME NEW k \in 0 .. N PROVE f[k] = level(f, k)
    <3>1. CASE k = 0
      BY <1>5, <1>9, <3>1 DEF UpTo
    <3>2. CASE k # 0
      <4>1. k - 1 \in 0 .. N - 1 /\ k - 1 \in 0 .. N /\ k - 1 \in Nat /\ (k - 1) + 1 = k
        BY <1>1, <3>2
      <4>2. f[(k - 1) + 1] = step[<<k - 1, f[k - 1]>>] /\ f[k - 1] \in S
        BY <1>9, <4>1 DEF UpTo
      <4> HIDE DEF level
      <4> QED BY <1>5, <1>8, <3>2, <4>1, <4>2
    <3> QED BY <3>1, <3>2
  <2> HIDE DEF level
  <2> QED BY <1>9, <2>1 DEF UpTo
<1>11. \A W : IsWalk(W) <=> Is(W)
  BY DEF IsWalk, N
<1>12. Is(Walk)
  BY <1>10, <1>11 DEF Walk
<1>13. \A k \in 0 .. N : Walk[k] = level(Walk, k)
  <2> HIDE DEF level
  <2> DEFINE g == [k \in 0 .. N |-> level(Walk, k)]
  <2>1. Walk = g
    BY <1>12
  <2>2. \A k \in 0 .. N : g[k] = level(Walk, k)
    OBVIOUS
  <2> HIDE DEF g
  <2> QED BY <2>1, <2>2
<1>14. \A n : Route(n) = Walk[N][n]
  BY DEF Route, Walk, IsWalk, N
<1> HIDE DEF level, Is
<1>15. Walk[0] = base
  <2>1. 0 \in 0 .. N
    BY <1>1
  <2> QED BY <1>5, <1>13, <2>1
<1>16. \A k \in 0 .. N - 1 : Walk[k + 1] = turn(Walk[k])
  <2> TAKE k \in 0 .. N - 1
  <2>1. k + 1 \in 0 .. N /\ k + 1 # 0 /\ (k + 1) - 1 = k
    BY <1>1
  <2> QED BY <1>5, <1>13, <2>1
<1> QED BY <1>6, <1>7, <1>14, <1>15, <1>16 DEF N

\* A trail does not pass a node twice, and never the source.
LEMMA TrailShort ==
    ASSUME IInv, NEW n, NEW p, Trail(p, n) PROVE Len(p) < Cardinality(Node)
<1> DEFINE f == [i \in 1 .. Len(p) |-> p[i].dst]
           T == Node \ {Source}
<1>1. Len(p) \in Nat
  BY DEF Trail
<1>2. \A i \in 1 .. Len(p) : p[i].dst \in T
  BY DEF Trail, IInv, TypeOK, FromSource
<1>3. f \in [1 .. Len(p) -> T]
  BY <1>2
<1>4. \A i, j \in 1 .. Len(p) : i # j => f[i] # f[j]
  <2>1. ASSUME NEW i \in 1 .. Len(p), NEW j \in 1 .. Len(p), i < j PROVE p[i].dst # p[j].dst
    <3>1. /\ dist[p[i].dst] < dist[p[j].dst]
          /\ dist[p[i].dst] \in Nat /\ dist[p[j].dst] \in Nat
      BY <2>1, Dearer DEF Trail, IInv, TypeOK
    <3> QED BY <3>1
  <2>2. \A i, j \in 1 .. Len(p) : i # j => i < j \/ j < i
    BY <1>1
  <2> QED BY <2>1, <2>2
<1>5. IsFiniteSet(T) /\ Cardinality(T) = Cardinality(Node) - 1
  BY NodeAssumption, EndsAssumption, FS_RemoveElement
<1>6. IsFiniteSet(1 .. Len(p)) /\ Cardinality(1 .. Len(p)) = Len(p)
  <2>1. /\ IsFiniteSet(1 .. Len(p))
        /\ Cardinality(1 .. Len(p)) = IF 1 > Len(p) THEN 0 ELSE Len(p) - 1 + 1
    BY <1>1, FS_Interval
  <2> QED BY <1>1, <2>1
<1> HIDE DEF f, T
<1>7. ~(Cardinality(T) < Cardinality(1 .. Len(p)))
  BY <1>3, <1>4, <1>5, <1>6, FS_PigeonHole
<1> QED BY <1>1, <1>5, <1>6, <1>7, NodeCount

\* After k turns k slots are read, or the source is reached.
Read(k, x) ==
    LET p == Walk[k][x] IN
    /\ Trail(p, x)
    /\ x = Source => p = << >>
    /\ x # Source /\ k > 0 => p # << >>
    /\ Len(p) = k \/ x = Source \/ (p # << >> /\ p[1].src = Source)

LEMMA AllRead ==
    ASSUME IInv PROVE \A k \in 0 .. Cardinality(Node) : \A x \in DOMAIN dist : Read(k, x)
<1> DEFINE N == Cardinality(Node)
           T == {k \in Nat : k <= N => \A x \in DOMAIN dist : Read(k, x)}
<1>1. N \in Nat
  BY NodeCount
<1>2. 0 \in T
  <2> SUFFICES ASSUME NEW x \in DOMAIN dist PROVE Read(0, x)
    OBVIOUS
  <2>1. Walk[0][x] = << >>
    BY WalkIs
  <2>2. Trail(<< >>, x) /\ Len(<< >>) = 0
    BY DEF Trail
  <2> QED BY <2>1, <2>2 DEF Read
<1>3. ASSUME NEW k \in T PROVE k + 1 \in T
  <2> SUFFICES ASSUME k + 1 <= N, NEW x \in DOMAIN dist PROVE Read(k + 1, x)
    OBVIOUS
  <2>1. /\ k \in 0 .. N - 1 /\ k \in 0 .. N /\ k + 1 > 0 /\ k \in Nat
        /\ \A y \in DOMAIN dist : Read(k, y)
    BY <1>1
  <2>2. CASE x = Source
    <3>1. Walk[k + 1][x] = << >>
      BY <2>1, <2>2, WalkIs
    <3>2. Trail(<< >>, x)
      BY DEF Trail
    <3> QED BY <2>2, <3>1, <3>2 DEF Read
  <2>3. CASE x # Source
    <3> DEFINE y == prev[x].src
               p == Walk[k][y]
               r == Append(p, prev[x])
    <3>1. /\ x \in DOMAIN prev /\ prev[x] \in graph /\ prev[x].dst = x /\ y \in DOMAIN dist
      BY <2>3 DEF IInv, TypeOK
    <3>2. Walk[k + 1][x] = r
      BY <2>1, <2>3, WalkIs
    <3>3. Read(k, y)
      BY <2>1, <3>1
    <3>4. /\ Trail(p, y) /\ (y = Source => p = << >>) /\ (y # Source /\ k > 0 => p # << >>)
          /\ Len(p) = k \/ y = Source \/ (p # << >> /\ p[1].src = Source)
      BY <3>3 DEF Read
    <3>5. /\ p \in Seq(graph) /\ (p # << >> => p[Len(p)].dst = y)
          /\ \A i \in 1 .. Len(p) : p[i].dst \in DOMAIN prev /\ p[i] = prev[p[i].dst]
          /\ \A i \in 1 .. Len(p) - 1 : p[i].dst = p[i + 1].src
      BY <3>4 DEF Trail
    <3>6. prev[x].src = y
      OBVIOUS
    <3> HIDE DEF p, y
    <3>7. /\ r \in Seq(graph) /\ Len(r) = Len(p) + 1 /\ Len(p) \in Nat /\ r[Len(p) + 1] = prev[x]
          /\ \A i \in 1 .. Len(p) : r[i] = p[i]
      BY <3>1, <3>5
    <3> HIDE DEF r
    <3>8. r # << >>
      BY <3>7
    <3>9. \A i \in 1 .. Len(r) : r[i].dst \in DOMAIN prev /\ r[i] = prev[r[i].dst]
      <4>1. \A i \in 1 .. Len(r) : i \in 1 .. Len(p) \/ i = Len(p) + 1
        BY <3>7
      <4> QED BY <3>1, <3>5, <3>7, <4>1
    <3>10. \A i \in 1 .. Len(r) - 1 : r[i].dst = r[i + 1].src
      <4> TAKE i \in 1 .. Len(r) - 1
      <4>1. CASE i = Len(p)
        <5>1. p # << >> /\ i \in 1 .. Len(p)
          BY <3>5, <3>7, <4>1
        <5> QED BY <3>5, <3>6, <3>7, <4>1, <5>1
      <4>2. CASE i # Len(p)
        <5>1. i \in 1 .. Len(p) - 1 /\ i \in 1 .. Len(p) /\ i + 1 \in 1 .. Len(p)
          BY <3>7, <4>2
        <5> QED BY <3>5, <3>7, <5>1
      <4> QED BY <4>1, <4>2
    <3>11. Trail(r, x)
      BY <3>1, <3>7, <3>9, <3>10 DEF Trail
    <3>12. Len(r) = k + 1 \/ r[1].src = Source
      <4>1. CASE Len(p) = k
        BY <3>7, <4>1
      <4>2. CASE y = Source
        <5>1. Len(p) = 0
          BY <3>4, <4>2
        <5> QED BY <3>6, <3>7, <4>2, <5>1
      <4>3. CASE p # << >> /\ p[1].src = Source
        <5>1. 1 \in 1 .. Len(p)
          BY <3>5, <3>7, <4>3
        <5> QED BY <3>7, <4>3, <5>1
      <4> QED BY <3>4, <4>1, <4>2, <4>3
    <3> QED BY <2>3, <3>2, <3>8, <3>11, <3>12 DEF Read
  <2> QED BY <2>2, <2>3
<1>4. T = Nat
  <2>1. T \in SUBSET Nat
    OBVIOUS
  <2> HIDE DEF T
  <2> QED BY <1>2, <1>3, <2>1, AllNat
<1> QED BY <1>1, <1>4

\* What the program reads for a label is its route.
LEMMA RouteIsLabelRoute ==
    ASSUME IInv, NEW n \in DOMAIN dist
    PROVE  /\ n = Source => Route(n) = << >>
           /\ n # Source => LabelRoute(Route(n), n)
<1> DEFINE N == Cardinality(Node)
<1>1. Route(n) = Walk[N][n] /\ N \in Nat /\ N > 0
  BY WalkIs, NodeCount
<1>2. Read(N, n)
  BY <1>1, AllRead
<1> HIDE DEF N
<1>3. /\ Trail(Route(n), n) /\ (n = Source => Route(n) = << >>)
      /\ n # Source => Route(n) # << >>
      /\ Len(Route(n)) = N \/ n = Source \/ (Route(n) # << >> /\ Route(n)[1].src = Source)
  BY <1>1, <1>2 DEF Read
<1>4. Len(Route(n)) < N
  BY <1>3, TrailShort DEF N
<1>5. Len(Route(n)) # N
  BY <1>1, <1>3, <1>4 DEF Trail
<1> QED BY <1>3, <1>5 DEF LabelRoute

LEMMA RoutesAreSound ==
    ASSUME IInv, NEW n \in DOMAIN dist
    PROVE  /\ Route(n) \in Seq(graph)
           /\ Connected(Route(n), n) /\ TimeRespecting(Route(n)) /\ Simple(Route(n))
           /\ SlotsOf(Route(n)) \subseteq graph
<1>1. CASE n = Source
  <2>1. Route(n) = << >>
    BY <1>1, RouteIsLabelRoute
  <2>2. /\ << >> \in Seq(graph) /\ Connected(<< >>, n) /\ TimeRespecting(<< >>) /\ Simple(<< >>)
        /\ SlotsOf(<< >>) \subseteq graph
    BY <1>1 DEF Connected, TimeRespecting, Simple, SlotsOf
  <2> QED BY <2>1, <2>2
<1>2. CASE n # Source
  <2>1. LabelRoute(Route(n), n)
    BY <1>2, RouteIsLabelRoute
  <2> QED BY <2>1, RouteSound DEF LabelRoute, Trail
<1> QED BY <1>1, <1>2

-----------------------------------------------------------------------------
\* Every slot stands for an observation at its first moment.
Traced ==
    \A e \in graph : \E o \in seen :
        o.src = e.src /\ o.dst = e.dst /\ o.type = e.type /\ o.at = e.at

Returned == Traced /\ paths \in Seq(Seq(graph)) /\ PathsSound

LEMMA TimedIsTakeable ==
    ASSUME Traced, NEW p \in Seq(graph), TimeRespecting(p) PROVE Takeable(p)
<1> DEFINE when == [i \in DOMAIN p |-> p[i].at]
<1>1. DOMAIN p = 1 .. Len(p) /\ Len(p) \in Nat /\ \A i \in DOMAIN p : p[i] \in graph
  OBVIOUS
<1>2. \A i \in DOMAIN p : \E o \in seen :
         o.src = p[i].src /\ o.dst = p[i].dst /\ o.type = p[i].type /\ o.at = p[i].at
  BY <1>1 DEF Traced
<1>3. when \in [DOMAIN p -> {o.at : o \in seen}]
  BY <1>2
<1>4. \A i \in DOMAIN p : when[i] = p[i].at
  OBVIOUS
<1>5. \A i \in 1 .. Len(p) - 1 : when[i] <= when[i + 1]
  <2> TAKE i \in 1 .. Len(p) - 1
  <2>1. i \in DOMAIN p /\ i + 1 \in DOMAIN p
    BY <1>1
  <2> QED BY <1>4, <2>1 DEF TimeRespecting
<1> HIDE DEF when
<1> QED BY <1>2, <1>3, <1>4, <1>5 DEF Takeable

LEMMA ReturnedInit == Init => Returned
<1> SUFFICES ASSUME Init PROVE Returned
  OBVIOUS
<1>1. Traced
  <2> SUFFICES ASSUME NEW e \in graph
               PROVE  \E o \in seen : o.src = e.src /\ o.dst = e.dst /\ o.type = e.type
                                      /\ o.at = e.at
    BY DEF Traced
  <2>1. PICK o \in seen : e = SlotOf(o, seen)
    BY DEF Init
  <2> DEFINE same == {q \in seen : q.src = o.src /\ q.dst = o.dst /\ q.type = o.type}
             times == {p.at : p \in same}
  <2>2. e.src = o.src /\ e.dst = o.dst /\ e.type = o.type /\ e.at = Min(times)
    BY <2>1 DEF SlotOf, Folded
  <2>3. seen \subseteq [src : Node, dst : Node, type : Type, at : Nat]
    BY ObservationAssumption DEF Init
  <2>4. times \subseteq Nat /\ o.at \in times
    BY <2>3
  <2>5. \A x \in times : \E q \in same : x = q.at
    OBVIOUS
  <2> HIDE DEF times
  <2>6. Min(times) \in times
    BY <2>4, MinOfTimes
  <2>7. PICK q \in same : Min(times) = q.at
    BY <2>5, <2>6
  <2> QED BY <2>2, <2>7
<1>2. paths = << >>
  BY DEF Init
<1> QED BY <1>1, <1>2 DEF Returned, PathsSound

LEMMA TakeableSame ==
    ASSUME UNCHANGED seen PROVE \A p : Takeable(p)' <=> Takeable(p)
BY DEF Takeable

LEMMA ReturnedSame ==
    ASSUME Returned, UNCHANGED <<seen, graph, paths>> PROVE Returned'
<1>1. Traced'
  BY DEF Returned, Traced
<1>2. paths' \in Seq(Seq(graph'))
  BY DEF Returned
<1>3. PICK ps : ps = paths /\ ps = paths'
  OBVIOUS
<1>4. PICK gr : gr = graph /\ gr = graph'
  OBVIOUS
<1>5. /\ \A i \in DOMAIN ps : /\ Connected(ps[i], Target) /\ Takeable(ps[i])
                              /\ Simple(ps[i]) /\ SlotsOf(ps[i]) \subseteq gr
      /\ \A i, j \in DOMAIN ps : i # j => ps[i] # ps[j]
  <2>1. PathsSound
    BY DEF Returned
  <2> QED BY <1>3, <1>4, <2>1 DEF PathsSound
<1>6. \A i \in DOMAIN ps : Takeable(ps[i])'
  BY <1>5, TakeableSame
<1>7. PathsSound'
  BY <1>3, <1>4, <1>5, <1>6 DEF PathsSound, Connected, Simple, SlotsOf
<1> QED BY <1>1, <1>2, <1>7 DEF Returned

LEMMA ReturnedNext == ASSUME IInv, Returned, [Next]_vars PROVE Returned'
<1>1. CASE UNCHANGED <<asked, paths>>
  BY <1>1, ReturnedSame DEF asked
<1>2. CASE PathFound
  <2> DEFINE path == Route(Target)
  <2>1. /\ UNCHANGED <<seen, window, graph>> /\ Target \in DOMAIN dist
        /\ paths' = IF path \notin SlotsOf(paths) THEN Append(paths, path) ELSE paths
    BY <1>2 DEF PathFound, asked
  <2>2. /\ path \in Seq(graph) /\ Connected(path, Target) /\ TimeRespecting(path)
        /\ Simple(path) /\ SlotsOf(path) \subseteq graph
    BY <2>1, RoutesAreSound
  <2>3. Takeable(path)
    BY <2>2, TimedIsTakeable DEF Returned
  <2>4. Traced'
    BY <2>1 DEF Returned, Traced
  <2> HIDE DEF path
  <2>5. CASE path \in SlotsOf(paths)
    <3>1. paths' = paths
      BY <2>1, <2>5
    <3> QED BY <2>1, <3>1, ReturnedSame
  <2>6. CASE path \notin SlotsOf(paths)
    <3>1. paths' = Append(paths, path) /\ paths \in Seq(Seq(graph))
      BY <2>1, <2>6 DEF Returned
    <3>2. /\ paths' \in Seq(Seq(graph)) /\ DOMAIN paths = 1 .. Len(paths) /\ Len(paths) \in Nat
          /\ DOMAIN paths' = 1 .. Len(paths) + 1
          /\ \A i \in DOMAIN paths : paths'[i] = paths[i]
          /\ paths'[Len(paths) + 1] = path
      BY <2>2, <3>1
    <3>3. \A i \in DOMAIN paths' : i \in DOMAIN paths \/ i = Len(paths) + 1
      BY <3>2
    <3>4. \A i \in DOMAIN paths : paths[i] # path
      BY <2>6 DEF SlotsOf
    <3> DEFINE Fine(p) == /\ Connected(p, Target) /\ Takeable(p) /\ Simple(p)
                          /\ SlotsOf(p) \subseteq graph
    <3>5. \A i \in DOMAIN paths : Fine(paths[i])
      BY DEF Returned, PathsSound
    <3>6. Fine(path)
      BY <2>2, <2>3
    <3>7. \A p : Takeable(p)' <=> Takeable(p)
      BY <2>1 DEF Takeable
    <3> HIDE DEF Fine
    <3>8. \A i \in DOMAIN paths' : Fine(paths'[i])
      BY <3>2, <3>3, <3>5, <3>6
    <3>9. \A i, j \in DOMAIN paths' : i # j => paths'[i] # paths'[j]
      <4>1. \A i, j \in DOMAIN paths : i # j => paths[i] # paths[j]
        BY DEF Returned, PathsSound
      <4> QED BY <3>2, <3>3, <3>4, <4>1
    <3>10. PICK ps : ps = paths'
      OBVIOUS
    <3>11. \A i \in DOMAIN ps : Fine(ps[i])'
      <4>1. \A p : Fine(p)' <=> Fine(p)
        BY <2>1, <3>7 DEF Fine, Connected, Simple, SlotsOf
      <4> QED BY <3>8, <3>10, <4>1
    <3>12. PathsSound'
      <4>1. \A i \in DOMAIN ps : /\ Connected(ps[i], Target)
                                 /\ Takeable(ps[i])' /\ Simple(ps[i])
                                 /\ SlotsOf(ps[i]) \subseteq graph'
        BY <3>11 DEF Fine, Connected, Simple, SlotsOf
      <4> QED BY <3>9, <3>10, <4>1 DEF PathsSound, Connected, Takeable, Simple, SlotsOf
    <3> QED BY <2>1, <2>4, <3>2, <3>12 DEF Returned
  <2> QED BY <2>5, <2>6
<1> QED BY <1>1, <1>2 DEF Next, Pop, Relax, NoPath, vars

\* At every point of the search each label is a real route, and what has been returned
\* leads from the source to the target by steps that were seen in that order, none of
\* it twice (analytics.rs:255), on any graph and whatever ties were broken how.
THEOREM RoutesAndPathsSound == Spec => []Inv
<1>1. IInv /\ Returned => Inv
  BY RoutesAreSound DEF IInv, Returned, Inv, LabelsAreRoutes
<1>2. Init => IInv /\ Returned
  BY InitOK, ReturnedInit
<1>3. IInv /\ Returned /\ [Next]_vars => IInv' /\ Returned'
  BY IInvNext, ReturnedNext
<1> QED BY <1>1, <1>2, <1>3, PTL DEF Spec

-----------------------------------------------------------------------------
(***************************************************************************)
(* The cheapest path comes first                                           *)
(***************************************************************************)
IsFrom(F) ==
    F = [k \in 0 .. Cardinality(Node) |->
           IF k = 0 THEN {<< >>}
           ELSE {<< >>} \cup {Append(p, e) : p \in F[k - 1], e \in graph}]
From == CHOOSE F : IsFrom(F)

LEMMA FromIs ==
    /\ AllPaths = {p \in From[Cardinality(Node) - 1] : Connected(p, Target) /\ Simple(p)}
    /\ From[0] = {<< >>}
    /\ \A k \in 0 .. Cardinality(Node) - 1 :
          From[k + 1] = {<< >>} \cup {Append(p, e) : p \in From[k], e \in graph}
    /\ \A k \in 0 .. Cardinality(Node) : From[k] \in SUBSET Seq(graph)
<1> DEFINE N == Cardinality(Node)
           S == SUBSET Seq(graph)
           base == {<< >>}
           turn(R) == {<< >>} \cup {Append(p, e) : p \in R, e \in graph}
           step == [p \in Nat \X S |-> turn(p[2])]
           level(W, k) == IF k = 0 THEN {<< >>}
                          ELSE {<< >>} \cup {Append(p, e) : p \in W[k - 1], e \in graph}
<1>1. N \in Nat
  BY NodeCount
<1>2. base \in S
  <2>1. << >> \in Seq(graph)
    OBVIOUS
  <2> QED BY <2>1
<1>3. \A R \in S : turn(R) \in S
  <2> TAKE R \in S
  <2>1. \A p \in R : p \in Seq(graph)
    OBVIOUS
  <2>2. \A p \in Seq(graph), e \in graph : Append(p, e) \in Seq(graph)
    OBVIOUS
  <2>3. << >> \in Seq(graph)
    OBVIOUS
  <2>4. ASSUME NEW r \in turn(R) PROVE r \in Seq(graph)
    <3>1. CASE r = << >>
      BY <2>3, <3>1
    <3>2. CASE r # << >>
      <4>1. PICK p \in R, e \in graph : r = Append(p, e)
        BY <2>4, <3>2
      <4> QED BY <2>1, <2>2, <4>1
    <3> QED BY <3>1, <3>2
  <2> HIDE DEF turn
  <2> QED BY <2>4
<1>4. /\ \A W : level(W, 0) = base
      /\ \A W, k : k # 0 => level(W, k) = turn(W[k - 1])
  OBVIOUS
<1> DEFINE Spelled(R) == {<< >>} \cup {Append(p, e) : p \in R, e \in graph}
<1>5. \A R : turn(R) = Spelled(R)
  OBVIOUS
<1> HIDE DEF turn, S
<1>6. step \in [Nat \X S -> S] /\ \A k \in Nat, R \in S : step[<<k, R>>] = turn(R)
  BY <1>3
<1> HIDE DEF step, base, N
<1>7. PICK f : UpTo(N, f, S, base, step)
  BY <1>1, <1>2, <1>6, UpToExists
<1> DEFINE Is(W) == W = [k \in 0 .. N |-> level(W, k)]
<1>8. Is(f)
  <2>1. ASSUME NEW k \in 0 .. N PROVE f[k] = level(f, k)
    <3>1. CASE k = 0
      BY <1>4, <1>7, <3>1 DEF UpTo
    <3>2. CASE k # 0
      <4>1. k - 1 \in 0 .. N - 1 /\ k - 1 \in 0 .. N /\ k - 1 \in Nat /\ (k - 1) + 1 = k
        BY <1>1, <3>2
      <4>2. f[(k - 1) + 1] = step[<<k - 1, f[k - 1]>>] /\ f[k - 1] \in S
        BY <1>7, <4>1 DEF UpTo
      <4> HIDE DEF level
      <4> QED BY <1>4, <1>6, <3>2, <4>1, <4>2
    <3> QED BY <3>1, <3>2
  <2> HIDE DEF level
  <2> QED BY <1>7, <2>1 DEF UpTo
<1>9. \A W : IsFrom(W) <=> Is(W)
  BY DEF IsFrom, N
<1>10. Is(From)
  <2> HIDE DEF Is, level
  <2>1. IsFrom(f)
    BY <1>8, <1>9
  <2>2. IsFrom(From)
    BY <2>1 DEF From
  <2> QED BY <1>9, <2>2
<1>11. \A k \in 0 .. N : From[k] = level(From, k)
  <2> HIDE DEF level
  <2> DEFINE g == [k \in 0 .. N |-> level(From, k)]
  <2>1. From = g
    BY <1>10
  <2>2. \A k \in 0 .. N : g[k] = level(From, k)
    OBVIOUS
  <2> HIDE DEF g
  <2> QED BY <2>1, <2>2
<1>12. AllPaths = {p \in From[N - 1] : Connected(p, Target) /\ Simple(p)}
  BY DEF AllPaths, From, IsFrom, N
<1> HIDE DEF level, Is, Spelled
<1>13. From[0] = base
  <2>1. 0 \in 0 .. N
    BY <1>1
  <2> QED BY <1>4, <1>11, <2>1
<1>14. \A k \in 0 .. N - 1 : From[k + 1] = turn(From[k])
  <2> TAKE k \in 0 .. N - 1
  <2>1. k + 1 \in 0 .. N /\ k + 1 # 0 /\ (k + 1) - 1 = k
    BY <1>1
  <2> QED BY <1>4, <1>11, <2>1
<1> DEFINE T == {k \in Nat : k <= N => From[k] \in S}
<1>15. T = Nat
  <2>1. T \in SUBSET Nat
    OBVIOUS
  <2>2. 0 \in T
    BY <1>2, <1>13
  <2>3. ASSUME NEW k \in T PROVE k + 1 \in T
    <3> SUFFICES ASSUME k + 1 <= N PROVE From[k + 1] \in S
      OBVIOUS
    <3>1. k \in 0 .. N - 1 /\ From[k] \in S
      BY <1>1
    <3> QED BY <1>3, <1>14, <3>1
  <2> HIDE DEF T
  <2> QED BY <2>1, <2>2, <2>3, AllNat
<1>16. \A k \in 0 .. N : From[k] \in S
  <2> TAKE k \in 0 .. N
  <2>1. k \in T /\ k <= N
    BY <1>1, <1>15
  <2> QED BY <2>1
<1>17. \A k \in 0 .. N - 1 : From[k + 1] = Spelled(From[k])
  BY <1>5, <1>14
<1> QED BY <1>12, <1>13, <1>16, <1>17 DEF N, S, base, Spelled

\* Every short enough sequence of slots is spelled out.
LEMMA FromHasAll ==
    \A k \in 0 .. Cardinality(Node) : \A p \in Seq(graph) : Len(p) <= k => p \in From[k]
<1> DEFINE N == Cardinality(Node)
           T == {k \in Nat : k <= N => \A p \in Seq(graph) : Len(p) <= k => p \in From[k]}
<1>1. N \in Nat
  BY NodeCount
<1>2. 0 \in T
  <2> SUFFICES ASSUME NEW p \in Seq(graph), Len(p) <= 0 PROVE p \in From[0]
    OBVIOUS
  <2>1. p = << >>
    OBVIOUS
  <2> QED BY <2>1, FromIs
<1>3. ASSUME NEW k \in T PROVE k + 1 \in T
  <2> SUFFICES ASSUME k + 1 <= N, NEW p \in Seq(graph), Len(p) <= k + 1 PROVE p \in From[k + 1]
    OBVIOUS
  <2>1. k \in 0 .. N - 1 /\ k <= N /\ \A q \in Seq(graph) : Len(q) <= k => q \in From[k]
    BY <1>1
  <2>2. From[k + 1] = {<< >>} \cup {Append(q, e) : q \in From[k], e \in graph}
    BY <2>1, FromIs
  <2>3. CASE p = << >>
    BY <2>2, <2>3
  <2>4. CASE p # << >>
    <3> DEFINE q == [i \in 1 .. Len(p) - 1 |-> p[i]]
               e == p[Len(p)]
    <3>1. Len(p) \in Nat /\ Len(p) >= 1 /\ e \in graph
      BY <2>4
    <3>2. q \in Seq(graph) /\ Len(q) = Len(p) - 1 /\ \A i \in 1 .. Len(p) - 1 : q[i] = p[i]
      BY <3>1
    <3>3. Append(q, e) = p
      <4> DEFINE r == Append(q, e)
      <4> HIDE DEF q
      <4>1. r \in Seq(graph) /\ Len(r) = Len(p) /\ r[Len(p)] = e
            /\ \A i \in 1 .. Len(p) - 1 : r[i] = q[i]
        BY <3>1, <3>2
      <4>2. \A i \in 1 .. Len(p) : r[i] = p[i]
        <5> TAKE i \in 1 .. Len(p)
        <5>1. i = Len(p) \/ i \in 1 .. Len(p) - 1
          BY <3>1
        <5> QED BY <3>2, <4>1, <5>1
      <4> HIDE DEF r
      <4>3. r = p
        BY <4>1, <4>2, SeqEqual
      <4> QED BY <4>3 DEF r
    <3>4. q \in From[k]
      <4>1. Len(q) <= k
        BY <3>1, <3>2
      <4> QED BY <2>1, <3>2, <4>1
    <3> HIDE DEF q, e
    <3> QED BY <2>2, <3>1, <3>3, <3>4
  <2> QED BY <2>3, <2>4
<1>4. T = Nat
  <2>1. T \in SUBSET Nat
    OBVIOUS
  <2> HIDE DEF T
  <2> QED BY <1>2, <1>3, <2>1, AllNat
<1> QED BY <1>1, <1>4

LEMMA AllPathsAre ==
    /\ \A p \in AllPaths : p \in Seq(graph) /\ Connected(p, Target) /\ Simple(p)
    /\ \A p \in Seq(graph) : Len(p) < Cardinality(Node) /\ Connected(p, Target) /\ Simple(p)
                               => p \in AllPaths
<1> DEFINE N == Cardinality(Node)
<1>1. N \in Nat /\ N - 1 \in 0 .. N
  BY NodeCount
<1>2. From[N - 1] \in SUBSET Seq(graph)
  BY <1>1, FromIs
<1>3. \A p \in Seq(graph) : Len(p) < N => p \in From[N - 1]
  <2> TAKE p \in Seq(graph)
  <2>1. Len(p) < N => Len(p) <= N - 1
    BY <1>1
  <2> QED BY <1>1, <2>1, FromHasAll
<1> QED BY <1>2, <1>3, FromIs

-----------------------------------------------------------------------------
\* c adds up what the slots of p cost without penalties.
PlainCostsOf(p, c) ==
    /\ c \in [0 .. Len(p) -> Nat]
    /\ c[0] = 0
    /\ \A i \in 1 .. Len(p) : c[i] = c[i - 1] + PlainStep(p[i])

IsUpto(p, c) == c = [i \in 0 .. Len(p) |-> IF i = 0 THEN 0 ELSE c[i - 1] + PlainStep(p[i])]
Upto(p) == CHOOSE c : IsUpto(p, c)

LEMMA PlainCostIs ==
    ASSUME NEW p, Len(p) \in Nat, \A i \in 1 .. Len(p) : p[i].dst \in Node
    PROVE  PlainCostsOf(p, Upto(p)) /\ PlainCost(p) = Upto(p)[Len(p)]
<1> DEFINE N == Len(p)
           next(k, x) == IF k < N THEN x + PlainStep(p[k + 1]) ELSE x
           step == [q \in Nat \X Nat |-> next(q[1], q[2])]
           level(c, i) == IF i = 0 THEN 0 ELSE c[i - 1] + PlainStep(p[i])
<1>1. \A i \in 1 .. N : PlainStep(p[i]) \in Nat
  <2> TAKE i \in 1 .. N
  <2>1. Risk(p[i].dst) \in 0 .. 10
    BY RiskAssumption
  <2> QED BY <2>1 DEF PlainStep
<1>2. \A k, x \in Nat : next(k, x) \in Nat
  <2> TAKE k, x \in Nat
  <2>1. k < N => k + 1 \in 1 .. N
    OBVIOUS
  <2> QED BY <1>1, <2>1
<1>3. \A k \in 0 .. N - 1 : \A x : next(k, x) = x + PlainStep(p[k + 1])
  OBVIOUS
<1> HIDE DEF next
<1>4. step \in [Nat \X Nat -> Nat] /\ \A k, x \in Nat : step[<<k, x>>] = next(k, x)
  BY <1>2
<1> HIDE DEF step
<1>5. PICK f : UpTo(N, f, Nat, 0, step)
  <2>1. 0 \in Nat /\ N \in Nat
    OBVIOUS
  <2> QED BY <1>4, <2>1, UpToExists
<1> DEFINE Is(c) == c = [i \in 0 .. N |-> level(c, i)]
<1>6. Is(f)
  <2>1. ASSUME NEW k \in 0 .. N PROVE f[k] = level(f, k)
    <3>1. CASE k = 0
      BY <1>5, <3>1 DEF UpTo
    <3>2. CASE k # 0
      <4>1. k - 1 \in 0 .. N - 1 /\ k - 1 \in 0 .. N /\ k - 1 \in Nat /\ (k - 1) + 1 = k
        BY <3>2
      <4>2. f[(k - 1) + 1] = step[<<k - 1, f[k - 1]>>] /\ f[k - 1] \in Nat
        BY <1>5, <4>1 DEF UpTo
      <4>3. step[<<k - 1, f[k - 1]>>] = f[k - 1] + PlainStep(p[(k - 1) + 1])
        BY <1>3, <1>4, <4>1, <4>2
      <4> QED BY <3>2, <4>1, <4>2, <4>3
    <3> QED BY <3>1, <3>2
  <2> HIDE DEF level
  <2> QED BY <1>5, <2>1 DEF UpTo
<1>7. \A c : IsUpto(p, c) <=> Is(c)
  BY DEF IsUpto
<1>8. Is(Upto(p))
  BY <1>6, <1>7 DEF Upto
<1>9. PlainCost(p) = Upto(p)[N]
  BY DEF PlainCost, Upto, IsUpto
<1>10. PICK c : c = Upto(p)
  OBVIOUS
<1>11. c = [i \in 0 .. N |-> level(c, i)]
  BY <1>8, <1>10
<1>12. \A k \in 0 .. N : c[k] = level(c, k)
  <2> HIDE DEF level
  <2> DEFINE g == [k \in 0 .. N |-> level(c, k)]
  <2>1. c = g
    BY <1>11
  <2>2. \A k \in 0 .. N : g[k] = level(c, k)
    OBVIOUS
  <2> HIDE DEF g
  <2> QED BY <2>1, <2>2
<1>13. c[0] = 0 /\ \A k \in 1 .. N : c[k] = c[k - 1] + PlainStep(p[k])
  <2>1. \A k \in 1 .. N : k \in 0 .. N /\ k # 0
    OBVIOUS
  <2>2. 0 \in 0 .. N
    OBVIOUS
  <2> QED BY <1>12, <2>1, <2>2
<1> DEFINE T == {k \in Nat : k <= N => c[k] \in Nat}
<1>14. T = Nat
  <2>1. T \in SUBSET Nat
    OBVIOUS
  <2>2. 0 \in T
    BY <1>13
  <2>3. ASSUME NEW k \in T PROVE k + 1 \in T
    <3> SUFFICES ASSUME k + 1 <= N PROVE c[k + 1] \in Nat
      OBVIOUS
    <3>1. k + 1 \in 1 .. N /\ (k + 1) - 1 = k /\ c[k] \in Nat
      OBVIOUS
    <3> QED BY <1>1, <1>13, <3>1
  <2> HIDE DEF T
  <2> QED BY <2>1, <2>2, <2>3, AllNat
<1>15. \A k \in 0 .. N : c[k] \in Nat
  <2> TAKE k \in 0 .. N
  <2>1. k \in T /\ k <= N
    BY <1>14
  <2> QED BY <2>1
<1>16. DOMAIN c = 0 .. N /\ c = [k \in 0 .. N |-> c[k]]
  <2> HIDE DEF level
  <2> DEFINE g == [k \in 0 .. N |-> level(c, k)]
  <2>1. c = g
    BY <1>11
  <2>2. DOMAIN g = 0 .. N /\ g = [k \in 0 .. N |-> g[k]]
    OBVIOUS
  <2> HIDE DEF g
  <2> QED BY <2>1, <2>2
<1>17. c \in [0 .. N -> Nat]
  BY <1>15, <1>16
<1> QED BY <1>9, <1>10, <1>13, <1>17 DEF PlainCostsOf

LEMMA PlainCostsAreCosts ==
    ASSUME NEW p \in Seq(graph), NEW c, PlainCostsOf(p, c), \A e \in graph : penalties[e] = 0,
           GraphOK
    PROVE  CostsOf(p, c)
<1>1. ASSUME NEW i \in 1 .. Len(p) PROVE EdgeCost(p[i]) = PlainStep(p[i])
  <2>1. p[i] \in graph
    OBVIOUS
  <2>2. Risk(p[i].dst) \in 0 .. 10
    BY <2>1, RiskAssumption DEF GraphOK
  <2> QED BY <2>1, <2>2 DEF EdgeCost, PlainStep
<1> QED BY <1>1 DEF PlainCostsOf, CostsOf

LEMMA OneSum ==
    ASSUME NEW p \in Seq(graph), NEW c, CostsOf(p, c), NEW d, CostsOf(p, d)
    PROVE  c[Len(p)] = d[Len(p)]
<1> DEFINE T == {k \in Nat : k <= Len(p) => c[k] = d[k]}
<1>1. 0 \in T
  BY DEF CostsOf
<1>2. ASSUME NEW k \in T PROVE k + 1 \in T
  <2> SUFFICES ASSUME k + 1 <= Len(p) PROVE c[k + 1] = d[k + 1]
    OBVIOUS
  <2>1. k + 1 \in 1 .. Len(p) /\ (k + 1) - 1 = k /\ c[k] = d[k]
    OBVIOUS
  <2> QED BY <2>1 DEF CostsOf
<1>3. T = Nat
  <2>1. T \in SUBSET Nat
    OBVIOUS
  <2> HIDE DEF T
  <2> QED BY <1>1, <1>2, <2>1, AllNat
<1> QED BY <1>3

\* A label is what its route costs.
LEMMA LabelIsCost ==
    ASSUME IInv, NEW n, NEW p, LabelRoute(p, n), NEW c, CostsOf(p, c)
    PROVE  dist[n] = c[Len(p)]
<1>1. Len(p) \in Nat /\ Len(p) >= 1 /\ p[Len(p)].dst = n
  BY DEF LabelRoute, Trail
<1> DEFINE T == {k \in Nat : k + 1 <= Len(p) => dist[p[k + 1].dst] = c[k + 1]}
<1>2. \A i \in 1 .. Len(p) :
         /\ p[i].dst \in DOMAIN prev /\ p[i] = prev[p[i].dst]
         /\ dist[p[i].dst] = dist[p[i].src] + EdgeCost(p[i])
         /\ c[i] = c[i - 1] + EdgeCost(p[i])
  BY DEF LabelRoute, Trail, IInv, LabelsFit, CostsOf
<1>3. 0 \in T
  <2>1. 1 \in 1 .. Len(p) /\ p[1].src = Source /\ dist[Source] = 0 /\ c[1 - 1] = 0 /\ 1 - 1 = 0
    BY <1>1 DEF LabelRoute, IInv, FromSource, CostsOf
  <2>2. dist[p[1].dst] = c[1]
    BY <1>2, <2>1
  <2> QED BY <2>2
<1>4. ASSUME NEW k \in T PROVE k + 1 \in T
  <2> SUFFICES ASSUME (k + 1) + 1 <= Len(p) PROVE dist[p[(k + 1) + 1].dst] = c[(k + 1) + 1]
    OBVIOUS
  <2>1. k + 1 \in 1 .. Len(p) - 1 /\ (k + 1) + 1 \in 1 .. Len(p)
        /\ ((k + 1) + 1) - 1 = k + 1 /\ dist[p[k + 1].dst] = c[k + 1]
    BY <1>1
  <2>2. p[(k + 1) + 1].src = p[k + 1].dst
    BY <2>1 DEF LabelRoute, Trail
  <2> QED BY <1>2, <2>1, <2>2
<1>5. T = Nat
  <2>1. T \in SUBSET Nat
    OBVIOUS
  <2> HIDE DEF T
  <2> QED BY <1>3, <1>4, <2>1, AllNat
<1>6. \A k \in Nat : k + 1 <= Len(p) => dist[p[k + 1].dst] = c[k + 1]
  BY <1>5
<1>7. PICK k \in Nat : k + 1 = Len(p)
  BY <1>1
<1>8. dist[p[k + 1].dst] = c[k + 1]
  BY <1>6, <1>7
<1> QED BY <1>1, <1>7, <1>8

LEMMA Summed ==
    ASSUME IInv, NEW p \in Seq(graph), \A e \in graph : penalties[e] = 0
    PROVE  CostsOf(p, Upto(p)) /\ PlainCost(p) = Upto(p)[Len(p)]
<1>1. Len(p) \in Nat /\ \A i \in 1 .. Len(p) : p[i].dst \in Node
  BY DEF IInv, GraphOK
<1>2. PlainCostsOf(p, Upto(p)) /\ PlainCost(p) = Upto(p)[Len(p)]
  BY <1>1, PlainCostIs
<1> QED BY <1>2, PlainCostsAreCosts DEF IInv

LEMMA FirstIsCheapest ==
    ASSUME IInv, SearchOver, Timely, \A e \in graph : penalties[e] = 0
    PROVE  /\ Target \notin DOMAIN dist => AllPaths = {}
           /\ Target \in DOMAIN dist =>
                 /\ Route(Target) \in AllPaths
                 /\ \A p \in AllPaths : PlainCost(Route(Target)) <= PlainCost(p)
<1>1. \A p \in AllPaths : Had(Target, PlainCost(p)) /\ PlainCost(p) \in Nat
  <2> TAKE p \in AllPaths
  <2>1. p \in Seq(graph) /\ Connected(p, Target)
    BY AllPathsAre
  <2>2. CostsOf(p, Upto(p)) /\ PlainCost(p) = Upto(p)[Len(p)]
    BY <2>1, Summed
  <2>3. Had(Target, Upto(p)[Len(p)])
    BY <2>1, <2>2, NothingCheaper
  <2>4. Len(p) \in 0 .. Len(p)
    BY <2>1
  <2> QED BY <2>2, <2>3, <2>4 DEF CostsOf
<1>2. ASSUME Target \in DOMAIN dist
      PROVE  Route(Target) \in AllPaths /\ dist[Target] = PlainCost(Route(Target))
  <2>1. /\ Route(Target) \in Seq(graph) /\ Connected(Route(Target), Target)
        /\ Simple(Route(Target))
    BY <1>2, RoutesAreSound
  <2>2. PICK r : r = Route(Target)
    OBVIOUS
  <2>3. CostsOf(r, Upto(r)) /\ PlainCost(r) = Upto(r)[Len(r)] /\ r \in Seq(graph)
    BY <2>1, <2>2, Summed
  <2>4. CASE Target = Source
    <3>1. r = << >>
      BY <1>2, <2>2, <2>4, RouteIsLabelRoute
    <3>2. Len(r) = 0 /\ Len(r) < Cardinality(Node)
      BY <3>1, NodeCount
    <3>3. dist[Target] = 0
      BY <2>4 DEF IInv, FromSource
    <3>4. PlainCost(r) = 0
      BY <2>3, <3>2 DEF CostsOf
    <3> QED BY <2>1, <2>2, <3>2, <3>3, <3>4, AllPathsAre
  <2>5. CASE Target # Source
    <3>1. LabelRoute(r, Target)
      BY <1>2, <2>2, <2>5, RouteIsLabelRoute
    <3>2. Len(r) < Cardinality(Node)
      BY <3>1, TrailShort DEF LabelRoute
    <3>3. dist[Target] = Upto(r)[Len(r)]
      BY <2>3, <3>1, LabelIsCost
    <3>4. Route(Target) \in AllPaths
      BY <2>1, <2>2, <3>2, AllPathsAre
    <3> QED BY <2>2, <2>3, <3>3, <3>4
  <2> QED BY <2>4, <2>5
<1>3. ASSUME Target \notin DOMAIN dist PROVE AllPaths = {}
  BY <1>1, <1>3 DEF Had
<1>4. ASSUME Target \in DOMAIN dist, NEW p \in AllPaths
      PROVE  PlainCost(Route(Target)) <= PlainCost(p)
  <2>1. dist[Target] <= PlainCost(p)
    BY <1>1, <1>4 DEF Had
  <2> QED BY <1>2, <1>4, <2>1
<1> QED BY <1>2, <1>3, <1>4

-----------------------------------------------------------------------------
\* The first search runs without penalties, and what it returned was a cheapest path.
CInv ==
    /\ paths = << >> => \A e \in graph : penalties[e] = 0
    /\ pc = "done" /\ paths = << >> /\ Timely => AllPaths = {}
    /\ paths # << >> /\ Timely =>
          paths[1] \in AllPaths /\ \A p \in AllPaths : PlainCost(paths[1]) <= PlainCost(p)

LEMMA CInvInit == Init => CInv
BY DEF Init, CInv

LEMMA CInvNext == ASSUME IInv, Returned, CInv, [Next]_vars PROVE CInv'
<1>1. UNCHANGED graph
  BY DEF Next, Pop, Relax, PathFound, NoPath, vars, asked
<1>2. Timely' <=> Timely
  BY <1>1 DEF Timely
<1>3. AllPaths' = AllPaths
  BY <1>1 DEF AllPaths, Connected, Simple
<1>4. CASE UNCHANGED <<penalties, paths, pc>>
  BY <1>1, <1>2, <1>3, <1>4 DEF CInv
<1>5. CASE NoPath
  <2>1. /\ UNCHANGED <<penalties, paths>> /\ SearchOver /\ Target \notin DOMAIN dist
    BY <1>5 DEF NoPath
  <2>2. ASSUME paths = << >>, Timely PROVE AllPaths = {}
    BY <2>1, <2>2, FirstIsCheapest DEF CInv
  <2> QED BY <1>1, <1>2, <1>3, <2>1, <2>2 DEF CInv
<1>6. CASE PathFound
  <2> DEFINE path == Route(Target)
  <2>1. /\ SearchOver /\ Target \in DOMAIN dist
        /\ paths' = IF path \notin SlotsOf(paths) THEN Append(paths, path) ELSE paths
    BY <1>6 DEF PathFound
  <2>2. path \in Seq(graph) /\ paths \in Seq(Seq(graph))
    BY <2>1, RoutesAreSound DEF Returned
  <2> HIDE DEF path
  <2>3. CASE paths = << >>
    <3>1. SlotsOf(paths) = {}
      BY <2>3 DEF SlotsOf
    <3>2. paths' = <<path>>
      BY <2>1, <2>2, <2>3, <3>1
    <3>3. Timely => path \in AllPaths /\ \A p \in AllPaths : PlainCost(path) <= PlainCost(p)
      BY <2>1, <2>3, FirstIsCheapest DEF CInv, path
    <3>4. paths' # << >> /\ paths'[1] = path
      BY <3>2
    <3> QED BY <1>1, <1>2, <1>3, <3>3, <3>4 DEF CInv
  <2>4. CASE paths # << >>
    <3>1. paths' # << >> /\ paths'[1] = paths[1]
      BY <2>1, <2>2, <2>4
    <3> QED BY <1>1, <1>2, <1>3, <2>4, <3>1 DEF CInv
  <2> QED BY <2>3, <2>4
<1> QED BY <1>4, <1>5, <1>6 DEF Next, Pop, Relax, vars

\* Where no edge was first seen before the edges that lead to it, the first path offered
\* is a cheapest one, and nothing is offered only when there is none: on any graph, with
\* cycles, any risks and whatever ties were broken how (analytics.rs:296-336).
THEOREM FirstIsAlwaysCheapest == Spec => []CheapestFirst
<1>1. CInv => CheapestFirst
  BY DEF CInv, CheapestFirst, Timely
<1>2. Init => IInv /\ Returned /\ CInv
  BY InitOK, ReturnedInit, CInvInit
<1>3. IInv /\ Returned /\ CInv /\ [Next]_vars => IInv' /\ Returned' /\ CInv'
  BY IInvNext, ReturnedNext, CInvNext
<1> QED BY <1>1, <1>2, <1>3, PTL DEF Spec
=============================================================================
