----------------------------- MODULE Traversal -----------------------------
(***************************************************************************)
(* GET /graph/neighbors and GET /graph/path: the query the handlers make   *)
(* of their parameters, and the two breadth-first searches that answer it  *)
(* over the published snapshot; and GET /analytics/components, which joins *)
(* the ends of every edge.  The order of the nodes, and of the edges of a  *)
(* node, is the order in which the database returned them, so each is      *)
(* visited in any order, the outgoing edges first.                         *)
(***************************************************************************)
EXTENDS Integers, Sequences, FiniteSets

CONSTANTS
    Node,       \* the nodes of the snapshot
    Edge,       \* edges it may have, [src, dst, type, first, last]
    Type,       \* edge types
    Asked,      \* ids a client asks for, known or not
    DirInput,   \* `dir` parameters
    TypesInput, \* `etypes` parameters: sets of names, known or not
    TimeInput,  \* <<from, to>> parameters
    HopInput,   \* `hops` parameters
    Missing,    \* a parameter that is not given
    Far,        \* half the range of a timestamp
    MostHops    \* 5 in the code: the largest neighbourhood served

ASSUME EdgeAssumption ==
    \A e \in Edge : /\ e.src \in Node /\ e.dst \in Node /\ e.type \in Type
                    /\ e.first \in Int /\ e.last \in Int /\ e.first <= e.last
                    /\ -Far <= e.first /\ e.last <= Far
ASSUME NodeAssumption == IsFiniteSet(Node)
ASSUME MissingAssumption == Missing \notin Node \cup Asked \cup {"out", "in"}
ASSUME TimeAssumption ==
    Far \in Nat /\ TimeInput \subseteq (Int \cup {Missing}) \X (Int \cup {Missing})
ASSUME HopsAssumption == MostHops \in Nat \ {0} /\ HopInput \subseteq Nat \cup {Missing}

VARIABLES
    edges,      \* the edges of the snapshot
    pc,         \* "idle", "k_hop", "path", "components" or "done"
    query,      \* what is asked
    frontier,   \* nodes to expand, in order
    next,       \* k_hop: the nodes of the next level
    at,         \* the node being expanded
    around,     \* its qualifying edges not yet visited
    hops,       \* k_hop: levels expanded
    visited,
    prev,       \* path: node -> the node and edge it was reached by
    found,      \* k_hop: the edges collected
    parent      \* components: the union-find forest

vars == <<edges, pc, query, frontier, next, at, around, hops, visited, prev, found,
          parent>>

-----------------------------------------------------------------------------
\* parse_dir, parse_etypes, time_window and the clamp of `hops`.
Direction(dir) == IF dir \in {"out", "in"} THEN dir ELSE "both"

Types(names) == IF names \cap Type = {} THEN Type ELSE names \cap Type

Window(from, to) ==
    <<IF from = Missing THEN -Far ELSE from, IF to = Missing THEN Far ELSE to>>

Hops(n) == CASE n \in {Missing, 0} -> 1
             [] n \notin {Missing} \cup 0 .. MostHops -> MostHops
             [] OTHER -> n

Opts(time, names, dir) ==
    [time |-> Window(time[1], time[2]), types |-> Types(names), dir |-> Direction(dir)]

\* slot_passes: the edge's interval and the window overlap, both closed.
PassesInside(e, opts) == /\ opts.time[1] <= e.first /\ e.last <= opts.time[2]
                         /\ e.type \in opts.types
Passes(e, opts) ==
    /\ e.first <= opts.time[2] /\ e.last >= opts.time[1]
    /\ e.type \in opts.types

\* for_each_neighbor: <<neighbour, edge, way>> for every qualifying edge at u.
Around(u) ==
    LET way(w) == query.opts.dir \in {w, "both"}
    IN {<<e.dst, e, "out">> : e \in {e \in edges : way("out") /\ e.src = u
                                                   /\ Passes(e, query.opts)}}
         \cup {<<e.src, e, "in">> : e \in {e \in edges : way("in") /\ e.dst = u
                                                       /\ Passes(e, query.opts)}}

NoQuery == [seed |-> Missing, target |-> Missing, hops |-> 0,
            opts |-> Opts(<<Missing, Missing>>, {}, Missing)]

Init ==
    /\ edges \in SUBSET Edge
    /\ pc = "idle"
    /\ query = NoQuery
    /\ frontier = << >>
    /\ next = << >>
    /\ at = Missing
    /\ around = {}
    /\ hops = 0
    /\ visited = {}
    /\ prev = [n \in {} |-> 0]
    /\ found = << >>
    /\ parent = [n \in Node |-> n]

\* The seed is known: search from it. An unknown one is answered at once.
SearchFrom(seed, kind) ==
    /\ pc' = IF seed \in Node THEN kind ELSE "done"
    /\ frontier' = IF seed \in Node THEN <<seed>> ELSE << >>
    /\ visited' = {seed} \cap Node
    /\ UNCHANGED <<edges, parent, next, at, around, hops, prev, found>>

Neighbors(seed, n, time, names, dir) ==
    /\ pc = "idle"
    /\ query' = [seed |-> seed, target |-> Missing, hops |-> Hops(n),
                 opts |-> Opts(time, names, dir)]
    /\ SearchFrom(seed, "k_hop")

\* An unknown target is not found; a path to oneself is the node alone.
Path(src, dst, time, dir) ==
    /\ pc = "idle"
    /\ query' = [seed |-> src, target |-> dst, hops |-> 0,
                 opts |-> Opts(time, {}, dir)]
    /\ IF dst \in Node /\ src # dst
       THEN SearchFrom(src, "path")
       ELSE /\ pc' = "done"
            /\ visited' = {src} \cap {dst} \cap Node
            /\ UNCHANGED <<edges, parent, frontier, next, at, around, hops, prev, found>>

\* connected_components over all time and all types, which is what NoQuery asks.
Components ==
    /\ pc = "idle"
    /\ pc' = "components"
    /\ UNCHANGED <<edges, parent, query, frontier, next, at, around, hops, visited,
                   prev, found>>

-----------------------------------------------------------------------------
Searching == pc \in {"k_hop", "path", "components"}
TargetFound == pc = "path" /\ query.target \in visited

\* The levels of k_hop are up.
Enough == pc = "k_hop" /\ hops = query.hops

\* The next node of the frontier.
Expand ==
    /\ pc \in {"k_hop", "path"} /\ ~TargetFound /\ ~Enough
    /\ around = {}
    /\ frontier # << >>
    /\ at' = Head(frontier)
    /\ around' = Around(at')
    /\ frontier' = Tail(frontier)
    /\ UNCHANGED <<edges, parent, pc, query, next, hops, visited, prev, found>>

\* A turn of for_each_neighbor: outgoing edges before incoming ones.
Turn(step) ==
    /\ step \in around
    /\ step[3] = "in" => \A other \in around : other[3] = "in"
    /\ around' = around \ {step}

CollectSameLevel(step) ==
    /\ pc = "k_hop"
    /\ Turn(step)
    /\ found' = IF \E i \in DOMAIN found : found[i] = step[2]
                THEN found ELSE Append(found, step[2])
    /\ visited' = visited \cup {step[1]}
    /\ frontier' = IF step[1] \in visited THEN frontier ELSE Append(frontier, step[1])
    /\ UNCHANGED <<edges, parent, pc, query, next, at, hops, prev>>
Collect(step) ==
    /\ pc = "k_hop"
    /\ Turn(step)
    /\ found' = IF \E i \in DOMAIN found : found[i] = step[2]
                THEN found ELSE Append(found, step[2])
    /\ visited' = visited \cup {step[1]}
    /\ next' = IF step[1] \in visited THEN next ELSE Append(next, step[1])
    /\ UNCHANGED <<edges, parent, pc, query, frontier, at, hops, prev>>

\* The frontier is used up: the next level, or the end.
NextLevel ==
    /\ pc = "k_hop" /\ ~Enough
    /\ around = {} /\ frontier = << >>
    /\ frontier' = next
    /\ next' = << >>
    /\ hops' = hops + 1
    /\ pc' = IF next = << >> THEN "done" ELSE pc
    /\ UNCHANGED <<edges, parent, query, at, around, visited, prev, found>>

EnoughHops ==
    /\ Enough
    /\ pc' = "done"
    /\ UNCHANGED <<edges, parent, query, frontier, next, at, around, hops, visited, prev, found>>

\* shortest_path keeps the edge a node is first reached by.
Discover(step) ==
    LET node == step[1] IN
    /\ pc = "path"
    /\ Turn(step)
    /\ visited' = visited \cup {node}
    /\ prev' = IF node \in visited THEN prev
               ELSE [n \in DOMAIN prev \cup {node} |->
                       IF n = node THEN [parent |-> at, edge |-> step[2]] ELSE prev[n]]
    /\ frontier' = IF node \in visited THEN frontier ELSE Append(frontier, node)
    /\ UNCHANGED <<edges, parent, pc, query, next, at, hops, found>>

\* The search ends after the expansion that reaches the target, or with the queue.
EndPathAtTarget ==
    /\ pc = "path"
    /\ around = {}
    /\ TargetFound
    /\ pc' = "done"
    /\ UNCHANGED <<edges, parent, query, frontier, next, at, around, hops, visited, prev, found>>
EndPath ==
    /\ pc = "path"
    /\ around = {}
    /\ TargetFound \/ frontier = << >>
    /\ pc' = "done"
    /\ UNCHANGED <<edges, parent, query, frontier, next, at, around, hops, visited, prev, found>>

\* find: up to the root, and every other node on the way is hung two higher.
Above(forest, n) ==
    LET Up[k \in 0 .. Cardinality(Node)] == IF k = 0 THEN n ELSE forest[Up[k - 1]] IN Up
Root(forest, n) == Above(forest, n)[Cardinality(Node)]
Halved(forest, n) ==
    LET passed == {Above(forest, n)[k] : k \in {k \in 0 .. Cardinality(Node) : k % 2 = 0}}
    IN [m \in Node |-> IF m \in passed THEN forest[forest[m]] ELSE forest[m]]

\* The outgoing edges of one node after the other.
NextSource(u) ==
    /\ pc = "components"
    /\ around = {}
    /\ u \notin visited
    /\ visited' = visited \cup {u}
    /\ at' = u
    /\ around' = {step \in Around(u) : step[3] = "out"}
    /\ UNCHANGED <<edges, parent, pc, query, frontier, next, hops, prev, found>>

Joined(u, v, hung) ==
    LET forest == Halved(Halved(parent, u), v)
    IN IF Root(parent, u) = Root(parent, v) THEN forest
       ELSE [forest EXCEPT ![hung] = Root(parent, v)]
JoinNodes(step) ==
    /\ pc = "components"
    /\ Turn(step)
    /\ parent' = Joined(at, step[1], at)
    /\ UNCHANGED <<edges, pc, query, frontier, next, at, hops, visited, prev, found>>
Join(step) ==
    /\ pc = "components"
    /\ Turn(step)
    /\ parent' = Joined(at, step[1], Root(parent, at))
    /\ UNCHANGED <<edges, pc, query, frontier, next, at, hops, visited, prev, found>>

EndComponents ==
    /\ pc = "components"
    /\ around = {}
    /\ visited = Node
    /\ pc' = "done"
    /\ UNCHANGED <<edges, parent, query, frontier, next, at, around, hops, visited,
                   prev, found>>

\* The groups of the answer.
SameGroup(m, n) == Root(parent, m) = Root(parent, n)

SearchStep ==
    \/ Expand
    \/ \E step \in around : Collect(step) \/ Discover(step) \/ Join(step)
    \/ \E u \in Node : NextSource(u)
    \/ EndComponents
    \/ NextLevel \/ EnoughHops
    \/ EndPath

Next ==
    \/ \E time \in TimeInput, dir \in DirInput, id \in Asked :
          \/ \E n \in HopInput, names \in TypesInput : Neighbors(id, n, time, names, dir)
          \/ \E dst \in Asked : Path(id, dst, time, dir)
    \/ Components
    \/ SearchStep

\* A handler runs its search to the end.
Spec == Init /\ [][Next]_vars /\ WF_vars(SearchStep)

-----------------------------------------------------------------------------
(***************************************************************************)
(* Reference definitions, straight from the parameters                     *)
(***************************************************************************)
Steps(u, e) == (IF e.src = u /\ query.opts.dir # "in" THEN {e.dst} ELSE {})
                 \cup (IF e.dst = u /\ query.opts.dir # "out" THEN {e.src} ELSE {})
\* The edges of the asked types that were alive at some moment of the window.
Rewound == {e \in edges : /\ e.type \in query.opts.types
                          /\ \E t \in e.first .. e.last :
                                query.opts.time[1] <= t /\ t <= query.opts.time[2]}
Neighbourhood(S) == S \cup UNION {Steps(u, e) : u \in S, e \in Rewound}

\* The nodes within h hops of the seed.
Ball == LET B[h \in Nat] == IF h = 0 THEN {query.seed} ELSE Neighbourhood(B[h - 1])
        IN B
Reachable == Ball[Cardinality(Node)]
Distance(n) == CHOOSE h \in 0 .. Cardinality(Node) :
                 n \in Ball[h] /\ (h > 0 => n \notin Ball[h - 1])

\* The edges shortest_path reconstructs, from the seed to n.
RouteTo(n) ==
    LET R[x \in visited] == IF x = query.seed THEN << >>
                            ELSE Append(R[prev[x].parent], prev[x].edge)
    IN R[n]

\* Where one can be after the edges of a route.
EndsOf(route) ==
    LET W[i \in 0 .. Len(route)] ==
          IF i = 0 THEN {query.seed} ELSE UNION {Steps(u, route[i]) : u \in W[i - 1]}
    IN W[Len(route)]

\* The handlers take the two ends of a window as they come. In one that ends before
\* it begins no moment lies, but an edge that spans it passes.
Turned == query.opts.time[1] > query.opts.time[2]

(***************************************************************************)
(* Properties                                                              *)
(***************************************************************************)

\* Type invariant.
TypeOK ==
    /\ edges \subseteq Edge
    /\ pc \in {"idle", "k_hop", "path", "components", "done"}
    /\ query.hops \in 0 .. MostHops
    /\ frontier \in Seq(Node) /\ next \in Seq(Node)
    /\ \A step \in around : step[1] \in Node /\ step[2] \in edges
    /\ hops \in 0 .. query.hops
    /\ visited \subseteq Node
    /\ DOMAIN prev \subseteq visited
    /\ found \in Seq(edges)
    /\ parent \in [Node -> Node]

\* k_hop returns exactly the nodes within so many hops, and exactly the edges
\* with an end one level nearer, in the direction asked for (index.rs:345),
\* whatever the order of the rows. An edge is there once, met from both ends or
\* being a loop.
KHopExact ==
    (pc = "done" /\ query.target = Missing /\ query.seed \in Node /\ ~Turned) =>
        /\ visited = Ball[query.hops]
        /\ {found[i] : i \in DOMAIN found} =
             {e \in Rewound : \E u \in Ball[query.hops - 1] : Steps(u, e) # {}}
        /\ \A i, j \in DOMAIN found : found[i] = found[j] => i = j

\* A search never runs ahead: while a level is expanded, the nodes seen are those
\* of the levels before it and some of the next.
LevelByLevel ==
    (pc = "k_hop" /\ ~Turned) =>
        /\ Ball[hops] \subseteq visited \cup {query.seed}
        /\ ~Enough => visited \subseteq Ball[hops + 1]

\* What holds while a search runs: its shape, and that it goes level by level
\* (index.rs:362).
Inv == TypeOK /\ LevelByLevel

\* shortest_path answers whenever there is a path within the filter, and what it
\* reconstructs is one, with as few hops as possible (index.rs:383).
PathShortest ==
    (pc = "done" /\ query.target \in Node /\ query.seed \in Node /\ ~Turned) =>
        /\ query.target \in visited <=> query.target \in Reachable
        /\ query.target \in visited =>
             LET r == RouteTo(query.target) IN
             /\ Len(r) = Distance(query.target)
             /\ \A i \in DOMAIN r : r[i] \in Rewound
             /\ query.target \in EndsOf(r)

\* Both answers are the ones asked for, on cyclic graphs and at the edges of the
\* window, whatever order the rows came in.
AnswersExact == KHopExact /\ PathShortest

\* What is one group is connected and what is connected is one group, in whatever
\* order the edges were joined and the trees cut short (analytics.rs:126).
ComponentsExact ==
    (pc = "done" /\ query.seed = Missing) =>
        \A m, n \in Node :
            SameGroup(m, n) <=> \A S \in SUBSET Node :
                (m \in S /\ \A e \in edges : e.src \in S <=> e.dst \in S) => n \in S

\* Every search ends, on graphs with loops and cycles.
SearchEnds == Searching ~> pc = "done"
=============================================================================
