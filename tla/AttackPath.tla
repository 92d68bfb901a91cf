---------------------------- MODULE AttackPath ----------------------------
(***************************************************************************)
(* CsrSnapshot::attack_paths (crates/loghound-graph/src/analytics.rs): a   *)
(* Dijkstra search by cost that keeps one arrival time per node, repeated  *)
(* with a penalty on the edges of the paths already returned.              *)
(*                                                                         *)
(* A slot is an edge of the graph, which stands for all observations of    *)
(* one relationship: at is its first_seen, last its last_seen.  The search *)
(* walks the slots that pass the window asked for (the handler filters no  *)
(* types).  Costs are exact, in hundredths of the code's unit: its f32     *)
(* rounding is left out.  Node and slot numbers come from the order in     *)
(* which rows are loaded, so which of two equally cheap entries is popped  *)
(* first, and the order in which the slots of a node are relaxed, are left *)
(* open.                                                                   *)
(***************************************************************************)
EXTENDS Integers, Sequences, FiniteSetsExt

CONSTANTS
    Node,           \* the nodes of the snapshot
    Source, Target, \* the end points asked for
    Observation,    \* what may have been seen: [src, dst, type, at]
    Type,           \* types of edges
    Windows,        \* <<from, to>> asked for
    Risk(_),        \* risk_score of a node, in tenths of the maximum
    K               \* paths asked for

ASSUME NodeAssumption == IsFiniteSet(Node)
ASSUME EndsAssumption == Source \in Node /\ Target \in Node
ASSUME ObservationAssumption ==
    Observation \subseteq [src : Node, dst : Node, type : Type, at : Nat]
ASSUME WindowsAssumption == Windows \subseteq Int \X Int
ASSUME RiskAssumption == \A n \in Node : Risk(n) \in 0 .. 10
ASSUME KAssumption == K \in Nat \ {0}

VARIABLES
    seen,       \* the observations the snapshot was built from
    window,     \* the window asked for
    graph,      \* the slots of the snapshot that pass it
    penalties,  \* slot -> penalty from earlier paths
    paths,      \* paths returned so far, each a sequence of slots
    dist,       \* node -> cost of its label, where it has one
    arrival,    \* node -> when that label reaches it; -1 stands for i64::MIN
    prev,       \* node -> last slot of that label
    heap,       \* <<cost, node>> entries; those of one node differ in cost
    cur,        \* the entry being expanded, or << >>
    rest,       \* its slots still to be relaxed
    pc          \* "search" or "done"

asked == <<seen, window, graph>>
vars == <<asked, penalties, paths, dist, arrival, prev, heap, cur, rest, pc>>

Put(f, k, v) == [x \in DOMAIN f \cup {k} |-> IF x = k THEN v ELSE f[x]]

\* One slot for all observations of a relationship: Edge::merge_validity, and the
\* upsert of a later ingest, keep the first and the last.
Folded(times) == [at |-> Min(times), last |-> Max(times)]

SlotOf(o, obs) ==
    LET same  == {p \in obs : p.src = o.src /\ p.dst = o.dst /\ p.type = o.type}
        times == Folded({p.at : p \in same})
    IN [src |-> o.src, dst |-> o.dst, type |-> o.type, at |-> times.at, last |-> times.last]

\* slot_passes: the life of the edge and the window overlap.
Passes(e, win) == e.at <= win[2] /\ e.last >= win[1]

Init ==
    /\ seen \in SUBSET Observation
    /\ window \in Windows
    /\ graph = {e \in {SlotOf(o, seen) : o \in seen} : Passes(e, window)}
    /\ penalties = [e \in graph |-> 0]
    /\ paths = << >>
    /\ dist = [n \in {Source} |-> 0]
    /\ arrival = [n \in {Source} |-> -1]
    /\ prev = [n \in {} |-> 0]
    /\ heap = {<<0, Source>>}
    /\ cur = << >>
    /\ rest = {}
    /\ pc = "search"

\* edge_cost: 1 - 0.6 * risk of the destination + penalty.
PlainStep(e) == 100 - 6 * Risk(e.dst)
EdgeCost(e) == PlainStep(e) + penalties[e]

AtTarget == cur # << >> /\ cur[2] = Target

NearestAny(x) == TRUE
Nearest(x) == \A y \in heap : x[1] <= y[1]

PoppedNot(x) == heap
Popped(x) == heap \ {x}

\* Pop the cheapest entry and expand its node. The test that would skip an
\* entry whose node has got a cheaper label never does: the popped key is
\* already the cost, and is negated (310-313).
Pop(x) ==
    /\ pc = "search"
    /\ rest = {}
    /\ ~AtTarget
    /\ Nearest(x)
    /\ heap' = Popped(x)
    /\ cur' = x
    /\ rest' = IF x[2] = Target THEN {} ELSE {e \in graph : e.src = x[2]}
    /\ UNCHANGED <<asked, penalties, paths, dist, arrival, prev, pc>>

\* The step cannot precede our arrival.
FeasibleAlways(e) == TRUE
Feasible(e) == arrival[e.src] <= e.at

Improves(e) == e.dst \notin DOMAIN dist \/ dist[e.src] + EdgeCost(e) < dist[e.dst]

Arrival(e) == IF e.at >= arrival[e.src] THEN e.at ELSE arrival[e.src]

Relax(e) ==
    /\ rest' = rest \ {e}
    /\ IF Feasible(e) /\ Improves(e)
       THEN LET cost == dist[e.src] + EdgeCost(e)
            IN /\ dist' = Put(dist, e.dst, cost)
               /\ arrival' = Put(arrival, e.dst, Arrival(e))
               /\ prev' = Put(prev, e.dst, e)
               /\ heap' = heap \cup {<<cost, e.dst>>}
       ELSE UNCHANGED <<dist, arrival, prev, heap>>
    /\ UNCHANGED <<asked, penalties, paths, cur, pc>>

SearchOver == rest = {} /\ (heap = {} \/ AtTarget)

\* The slots from the source to a labelled node.
Route(n) ==
    LET walk[k \in 0 .. Cardinality(Node)] ==
          [x \in DOMAIN dist |-> IF x = Source \/ k = 0 THEN << >>
                                ELSE Append(walk[k - 1][prev[x].src], prev[x])]
    IN walk[Cardinality(Node)][n]

SlotsOf(path) == {path[i] : i \in DOMAIN path}

\* A path was found: return it, penalise its slots, and search again for the
\* next one, until it comes up a second time or there are K.
PathFound ==
    LET path == Route(Target)
        new  == path \notin SlotsOf(paths)
    IN /\ pc = "search"
       /\ SearchOver
       /\ Target \in DOMAIN dist
       /\ paths' = IF new THEN Append(paths, path) ELSE paths
       /\ penalties' = [e \in graph |-> penalties[e] +
                            IF new /\ e \in SlotsOf(path) THEN 200 ELSE 0]
       /\ pc' = IF new /\ Len(paths) + 1 < K THEN "search" ELSE "done"
       /\ dist' = [n \in {Source} |-> 0]
       /\ arrival' = [n \in {Source} |-> -1]
       /\ prev' = [n \in {} |-> 0]
       /\ heap' = {<<0, Source>>}
       /\ cur' = << >>
       /\ UNCHANGED <<asked, rest>>

NoPath ==
    /\ pc = "search"
    /\ SearchOver
    /\ Target \notin DOMAIN dist
    /\ pc' = "done"
    /\ UNCHANGED <<asked, penalties, paths, dist, arrival, prev, heap, cur, rest>>

Next ==
    \/ \E x \in heap : Pop(x)
    \/ \E e \in rest : Relax(e)
    \/ PathFound
    \/ NoPath

\* One synchronous call: it runs on until it returns.
Spec == Init /\ [][Next]_vars /\ WF_vars(Next)

-----------------------------------------------------------------------------
(***************************************************************************)
(* Properties                                                              *)
(***************************************************************************)

\* Type invariant: every label but the source's comes from a slot of the graph,
\* and its arrival is that slot's time.
TypeOK ==
    /\ seen \subseteq Observation /\ window \in Windows
    /\ penalties \in [graph -> Nat]
    /\ Source \in DOMAIN dist /\ DOMAIN dist \subseteq Node
    /\ DOMAIN arrival = DOMAIN dist
    /\ DOMAIN prev \cup {Source} = DOMAIN dist
    /\ \A n \in DOMAIN dist : dist[n] \in Nat
    /\ \A n \in DOMAIN prev : /\ prev[n] \in graph /\ prev[n].dst = n
                              /\ prev[n].src \in DOMAIN dist
                              /\ arrival[n] = prev[n].at
    /\ heap \subseteq Nat \X DOMAIN dist
    /\ cur # << >> => cur \in Nat \X DOMAIN dist
    /\ rest \subseteq graph
    /\ pc \in {"search", "done"}

\* A label is settled once its entry has been popped.
Settled == {n \in DOMAIN dist : <<dist[n], n>> \notin heap}

\* A label that others lead on from never changes again, so each label still costs,
\* and comes in time, as it did when it was made from that of the node before it.
LabelsFit ==
    \A n \in DOMAIN prev :
        /\ prev[n].src \in Settled
        /\ arrival[prev[n].src] <= prev[n].at
        /\ dist[n] = dist[prev[n].src] + EdgeCost(prev[n])

Connected(path, n) ==
    /\ path # << >> => path[1].src = Source /\ path[Len(path)].dst = n
    /\ path = << >> => n = Source
    /\ \A i \in 1 .. Len(path) - 1 : path[i].dst = path[i + 1].src

TimeRespecting(path) == \A i \in 1 .. Len(path) - 1 : path[i].at <= path[i + 1].at

\* Somebody could have taken the path: its steps were all seen, in an order of time
\* that allows it. An edge may have been seen more than once.
Takeable(path) ==
    \E when \in [DOMAIN path -> {o.at : o \in seen}] :
        /\ \A i \in DOMAIN path : \E o \in seen :
              /\ o.src = path[i].src /\ o.dst = path[i].dst /\ o.type = path[i].type
              /\ o.at = when[i]
        /\ \A i \in 1 .. Len(path) - 1 : when[i] <= when[i + 1]

Simple(path) == /\ \A i, j \in DOMAIN path : i # j => path[i].dst # path[j].dst
                /\ \A i \in DOMAIN path : path[i].dst # Source

\* Although labels are overwritten while others already lead on from them, at
\* every point of the search each label is a real route: connected, in time
\* order, without a cycle ("you cannot act on a host before reaching it",
\* analytics.rs:255).
LabelsAreRoutes ==
    \A n \in DOMAIN dist :
        /\ Connected(Route(n), n)
        /\ TimeRespecting(Route(n))
        /\ Simple(Route(n))

\* What is returned leads from the source to the target by steps that were really
\* observed in that order, although a slot keeps only the first and the last
\* observation of many; and no path is offered twice.
PathsSound ==
    /\ \A i \in DOMAIN paths : /\ Connected(paths[i], Target)
                               /\ Takeable(paths[i])
                               /\ Simple(paths[i])
                               /\ SlotsOf(paths[i]) \subseteq graph
    /\ \A i, j \in DOMAIN paths : i # j => paths[i] # paths[j]

\* Labels and paths together: no search reports, or builds on, a route that nobody
\* could have taken in that order.
Inv == TypeOK /\ LabelsFit /\ LabelsAreRoutes /\ PathsSound

\* Every connected simple path from the source to the target.
AllPaths ==
    LET from[k \in 0 .. Cardinality(Node)] ==
          IF k = 0 THEN {<< >>}
          ELSE {<< >>} \cup {Append(p, e) : p \in from[k - 1], e \in graph}
    IN {p \in from[Cardinality(Node) - 1] : Connected(p, Target) /\ Simple(p)}

PlainCost(path) ==
    LET upto[i \in 0 .. Len(path)] ==
          IF i = 0 THEN 0 ELSE upto[i - 1] + PlainStep(path[i])
    IN upto[Len(path)]

\* Where time does not get in the way (no edge was first seen before the edges that
\* lead to it) the first path is a cheapest one, and there is one if the target can
\* be reached.
CheapestFirst ==
    (pc = "done" /\ \A e, f \in graph : e.dst = f.src => e.at <= f.at) =>
        /\ paths = << >> <=> AllPaths = {}
        /\ paths # << >> => \A p \in AllPaths : PlainCost(paths[1]) <= PlainCost(p)

\* The search comes to an end on every graph, cycles included.
SearchEnds == <>(pc = "done")

\* crates/loghound-api/src/lib.rs:465 answers "no time-respecting path between
\* the given nodes" when the search returns nothing: nobody could have gone there.
NothingMeansNoPath ==
    (pc = "done" /\ paths = << >>) => ~\E p \in AllPaths : Takeable(p)
=============================================================================
