-------------------------- MODULE Traversal_proofs --------------------------
(***************************************************************************)
(* Proofs about the searches and the components, on any graph, with cycles *)
(* and loops, and in any order of rows.  First, without paths: what is     *)
(* visited lies in every set that holds the seed and what is around each   *)
(* of its nodes, and a search that ends because there is nothing left to   *)
(* expand has visited everything that can be reached.  Then the balls      *)
(* around the seed: both searches go through them one after the other, so  *)
(* a neighbourhood is one of them and a path is as short as any.  Then the *)
(* forest of the union-find, whose groups are the connected parts.  Last,  *)
(* the process tree, which gives every node of an answer a place.          *)
(***************************************************************************)
EXTENDS ProcessTree, NatRecursion, FiniteSetTheorems, TLAPS

Row(s) == {s[i] : i \in 1 .. Len(s)}

\* S holds the seed and, with a node, what is around it.
Closed(S) ==
    /\ S \in SUBSET Node
    /\ query.seed \in S
    /\ \A u \in S : \A step \in Around(u) : step[1] \in S

Walking == pc \in {"k_hop", "path"}
Answered == pc = "done" /\ query.seed \in Node

Shape ==
    /\ pc \in {"idle", "k_hop", "path", "components", "done"}
    /\ edges \subseteq Edge
    /\ query.opts.time \in Int \X Int
    /\ query.opts.dir \in {"in", "out", "both"}
    /\ pc \in {"idle", "components"} => query = NoQuery
    /\ pc = "path" => next = << >>
    /\ pc = "k_hop" => query.target = Missing /\ (Enough => around = {})
    /\ pc = "idle" => next = << >> /\ around = {}
    /\ visited \subseteq Node
    /\ frontier \in Seq(Node) /\ next \in Seq(Node)

\* Who is met is noted, and who is not in the queues was expanded, or is being so.
Queued ==
    Walking =>
        /\ query.seed \in visited
        /\ Row(frontier) \cup Row(next) \subseteq visited
        /\ around # {} => at \in visited /\ around \subseteq Around(at)
        /\ \A u \in visited \ (Row(frontier) \cup Row(next)) : \A step \in Around(u) :
              step[1] \in visited \/ (u = at /\ step \in around)

Within == (Walking \/ Answered) => \A S : Closed(S) => visited \subseteq S

\* A search that ends without its target, and with nothing left to expand.
Exhausted ==
    (/\ Answered
     /\ query.target \in Node \cup {Missing} /\ query.target \notin visited
     /\ frontier = << >> /\ next = << >>) => Closed(visited)

\* A path query that ends without its target has nothing left to expand.
PathEnded ==
    (Answered /\ query.target \in Node) =>
        query.target \in visited \/ (frontier = << >> /\ next = << >>)

IInv == Shape /\ Queued /\ Within /\ Exhausted /\ PathEnded

-----------------------------------------------------------------------------
LEMMA RowAppend ==
    ASSUME NEW s \in Seq(Node), NEW n \in Node
    PROVE  Append(s, n) \in Seq(Node) /\ Row(Append(s, n)) = Row(s) \cup {n}
<1>1. Append(s, n) \in Seq(Node) /\ Len(Append(s, n)) = Len(s) + 1 /\ Len(s) \in Nat
  OBVIOUS
<1>2. \A i \in 1 .. Len(s) : Append(s, n)[i] = s[i]
  OBVIOUS
<1>3. Append(s, n)[Len(s) + 1] = n
  OBVIOUS
<1>4. \A i \in 1 .. Len(s) + 1 : i \in 1 .. Len(s) \/ i = Len(s) + 1
  BY <1>1
<1>5. 1 .. Len(s) \subseteq 1 .. Len(s) + 1 /\ Len(s) + 1 \in 1 .. Len(s) + 1
  BY <1>1
<1> QED BY <1>1, <1>2, <1>3, <1>4, <1>5 DEF Row

LEMMA RowHead ==
    ASSUME NEW s \in Seq(Node), s # << >>
    PROVE  /\ Head(s) \in Node /\ Tail(s) \in Seq(Node)
           /\ Row(s) = {Head(s)} \cup Row(Tail(s))
<1>1. /\ Len(s) \in Nat /\ Len(s) >= 1 /\ Head(s) = s[1] /\ Tail(s) \in Seq(Node)
      /\ Len(Tail(s)) = Len(s) - 1 /\ Head(s) \in Node
  OBVIOUS
<1>2. \A i \in 1 .. Len(s) - 1 : Tail(s)[i] = s[i + 1]
  OBVIOUS
<1>3. \A i \in 1 .. Len(s) : i = 1 \/ (i - 1 \in 1 .. Len(s) - 1 /\ i - 1 + 1 = i)
  BY <1>1
<1>4. \A i \in 1 .. Len(s) - 1 : i + 1 \in 1 .. Len(s)
  BY <1>1
<1>5. 1 \in 1 .. Len(s)
  BY <1>1
<1> QED BY <1>1, <1>2, <1>3, <1>4, <1>5 DEF Row

LEMMA RowEmpty == Row(<< >>) = {}
BY DEF Row

\* What is around a node, and its own edges, are in the graph.
LEMMA AroundInGraph ==
    ASSUME Shape, NEW u, NEW step \in Around(u) PROVE step[1] \in Node /\ step[2] \in edges
<1>1. \A e \in edges : e.src \in Node /\ e.dst \in Node
  BY EdgeAssumption DEF Shape
<1> QED BY <1>1 DEF Around

LEMMA WindowInInt ==
    ASSUME NEW time \in (Int \cup {Missing}) \X (Int \cup {Missing}), NEW names, NEW dir
    PROVE  /\ Opts(time, names, dir).time \in Int \X Int
           /\ Opts(time, names, dir).dir \in {"in", "out", "both"}
BY TimeAssumption DEF Opts, Window, Direction

-----------------------------------------------------------------------------
LEMMA InitOK == Init => IInv
<1> SUFFICES ASSUME Init PROVE IInv
  OBVIOUS
<1>1. query.opts.time \in Int \X Int /\ query.opts.dir \in {"in", "out", "both"}
  BY WindowInInt DEF Init, NoQuery
<1>2. frontier \in Seq(Node) /\ next \in Seq(Node)
  BY DEF Init
<1> QED BY <1>1, <1>2
    DEF Init, IInv, Shape, Queued, Within, Exhausted, PathEnded, Walking, Answered

\* A query sets out from its seed.
LEMMA Started ==
    ASSUME IInv, pc = "idle", NEW seed, NEW kind \in {"k_hop", "path"},
           SearchFrom(seed, kind), query'.seed = seed,
           query'.opts.time \in Int \X Int, query'.opts.dir \in {"in", "out", "both"},
           kind = "k_hop" => query'.target = Missing
    PROVE  IInv'
<1>1. /\ pc' = (IF seed \in Node THEN kind ELSE "done")
      /\ frontier' = (IF seed \in Node THEN <<seed>> ELSE << >>)
      /\ visited' = {seed} \cap Node
      /\ UNCHANGED <<edges, next, at, around>>
      /\ next = << >> /\ around = {}
  BY DEF SearchFrom, IInv, Shape
<1>2. Shape'
  <2>1. frontier' \in Seq(Node)
    BY <1>1
  <2> QED BY <1>1, <2>1 DEF IInv, Shape
<1>3. CASE seed \in Node
  <2>1. Row(frontier') = {seed} /\ Row(next') = {}
    BY <1>1, <1>3 DEF Row
  <2>2. Queued' /\ Within'
    BY <1>1, <1>3, <2>1 DEF Queued, Within, Walking, Answered, Closed
  <2> QED BY <1>1, <1>2, <1>3, <2>2 DEF IInv, Exhausted, PathEnded, Answered
<1>4. CASE seed \notin Node
  BY <1>1, <1>2, <1>4
     DEF IInv, Queued, Within, Exhausted, PathEnded, Walking, Answered
<1> QED BY <1>3, <1>4

LEMMA NeighborsKeeps ==
    ASSUME IInv, NEW seed, NEW n, NEW time \in TimeInput, NEW names, NEW dir,
           Neighbors(seed, n, time, names, dir)
    PROVE  IInv'
<1>1. /\ query'.seed = seed /\ query'.target = Missing
      /\ query'.opts = Opts(time, names, dir) /\ pc = "idle" /\ SearchFrom(seed, "k_hop")
  BY DEF Neighbors
<1>2. query'.opts.time \in Int \X Int /\ query'.opts.dir \in {"in", "out", "both"}
  BY <1>1, TimeAssumption, WindowInInt
<1> QED BY <1>1, <1>2, Started

LEMMA PathKeeps ==
    ASSUME IInv, NEW src, NEW dst \in Asked, NEW time \in TimeInput, NEW dir,
           Path(src, dst, time, dir)
    PROVE  IInv'
<1>1. /\ query'.seed = src /\ query'.target = dst
      /\ query'.opts = Opts(time, {}, dir) /\ pc = "idle"
  BY DEF Path
<1>2. query'.opts.time \in Int \X Int /\ query'.opts.dir \in {"in", "out", "both"}
  BY <1>1, TimeAssumption, WindowInInt
<1>3. CASE dst \in Node /\ src # dst
  BY <1>1, <1>2, <1>3, Started DEF Path
<1>4. CASE ~(dst \in Node /\ src # dst)
  <2>1. /\ pc' = "done" /\ visited' = {src} \cap {dst} \cap Node
        /\ UNCHANGED <<edges, frontier, next, at, around>>
    BY <1>4 DEF Path
  <2>2. Shape'
    BY <1>2, <2>1 DEF IInv, Shape
  <2>3. src \in Node /\ dst \in Node \cup {Missing} => dst \in visited' \/ dst = Missing
    BY <1>4, <2>1
  <2>4. Within'
    BY <1>1, <2>1 DEF Within, Closed
  <2>5. Exhausted' /\ PathEnded' /\ Queued'
    BY <1>1, <1>4, <2>1, <2>3, MissingAssumption
       DEF Exhausted, PathEnded, Queued, Answered, Walking
  <2> QED BY <2>2, <2>4, <2>5 DEF IInv
<1> QED BY <1>3, <1>4

-----------------------------------------------------------------------------
\* The steps of a search change neither the graph nor the query.
LEMMA SameAround ==
    ASSUME UNCHANGED <<edges, query>>
    PROVE  (\A u : Around(u)' = Around(u)) /\ (\A S : Closed(S)' <=> Closed(S))
<1>1. \A u : Around(u)' = Around(u)
  BY DEF Around, Passes
<1> QED BY <1>1 DEF Closed

LEMMA ExpandKeeps == ASSUME IInv, Expand PROVE IInv'
<1>1. /\ around = {} /\ frontier # << >> /\ at' = Head(frontier) /\ around' = Around(at')
      /\ frontier' = Tail(frontier) /\ UNCHANGED <<edges, pc, query, next, visited, hops>>
      /\ Walking /\ ~Enough
  BY DEF Expand, Walking
<1>2. /\ Head(frontier) \in Node /\ Tail(frontier) \in Seq(Node)
      /\ Row(frontier) = {Head(frontier)} \cup Row(Tail(frontier))
  BY <1>1, RowHead DEF IInv, Shape
<1>3. Shape'
  BY <1>1, <1>2 DEF IInv, Shape, Walking, Enough
<1>4. /\ \A u : Around(u)' = Around(u)
      /\ \A S : Closed(S)' <=> Closed(S)
  BY <1>1, SameAround
<1>5. Queued'
  <2>1. around' = Around(at)'
    BY <1>1, <1>4
  <2>2. query'.seed \in visited' /\ Row(frontier') \cup Row(next') \subseteq visited' /\ at' \in visited'
    BY <1>1, <1>2 DEF IInv, Queued
  <2>3. ASSUME NEW u \in visited' \ (Row(frontier') \cup Row(next')), NEW step \in Around(u)
        PROVE  step[1] \in visited' \/ (u = at' /\ step \in around')
    <3>1. CASE u = Head(frontier)
      BY <1>1, <3>1
    <3>2. CASE u # Head(frontier)
      BY <1>1, <1>2, <3>2 DEF IInv, Queued
    <3> QED BY <3>1, <3>2
  <2> QED BY <1>4, <2>1, <2>2, <2>3 DEF Queued
<1>6. Within' /\ Exhausted' /\ PathEnded'
  BY <1>1, <1>4 DEF IInv, Within, Exhausted, PathEnded, Walking, Answered
<1> QED BY <1>3, <1>5, <1>6 DEF IInv

\* A turn notes the node at the other end, and queues it if it is new: in which of
\* the two queues makes no difference here.
LEMMA TurnKeeps ==
    ASSUME IInv, Walking, NEW step \in around,
           around' = around \ {step}, visited' = visited \cup {step[1]},
           UNCHANGED <<edges, pc, query, at, hops>>,
           frontier' \in Seq(Node), next' \in Seq(Node), pc = "path" => UNCHANGED next,
           Row(frontier') \cup Row(next') =
               Row(frontier) \cup Row(next) \cup ({step[1]} \ visited)
    PROVE  IInv'
<1>1. at \in visited /\ step \in Around(at) /\ around \subseteq Around(at)
  BY DEF IInv, Queued
<1>2. step[1] \in Node
  BY <1>1, AroundInGraph DEF IInv
<1>3. Shape'
  BY <1>2 DEF IInv, Shape, Walking, Enough
<1>4. /\ \A u : Around(u)' = Around(u)
      /\ \A S : Closed(S)' <=> Closed(S)
  BY SameAround
<1>5. Queued'
  <2>1. query'.seed \in visited' /\ Row(frontier') \cup Row(next') \subseteq visited' /\ at' \in visited'
    BY <1>1 DEF IInv, Queued
  <2>2. around' \subseteq Around(at)'
    BY <1>1, <1>4
  <2>3. ASSUME NEW u \in visited' \ (Row(frontier') \cup Row(next')), NEW other \in Around(u)
        PROVE  other[1] \in visited' \/ (u = at' /\ other \in around')
    <3>1. u \in visited \ (Row(frontier) \cup Row(next))
      OBVIOUS
    <3>2. other[1] \in visited \/ (u = at /\ other \in around)
      BY <3>1 DEF IInv, Queued
    <3> QED BY <3>2
  <2> QED BY <1>4, <2>1, <2>2, <2>3 DEF Queued
<1>6. Within'
  <2>1. ASSUME NEW S, Closed(S) PROVE visited' \subseteq S
    BY <1>1, <2>1 DEF IInv, Within, Closed
  <2> QED BY <1>4, <2>1 DEF Within
<1>7. Exhausted' /\ PathEnded'
  BY DEF Exhausted, PathEnded, Walking, Answered
<1> QED BY <1>3, <1>5, <1>6, <1>7 DEF IInv

LEMMA CollectKeeps == ASSUME IInv, NEW step \in around, Collect(step) PROVE IInv'
<1>1. Walking /\ step[1] \in Node
  BY AroundInGraph DEF Collect, Walking, IInv, Queued
<1>2. /\ frontier' \in Seq(Node) /\ next' \in Seq(Node)
      /\ Row(frontier') \cup Row(next') =
             Row(frontier) \cup Row(next) \cup ({step[1]} \ visited)
  BY <1>1, RowAppend DEF Collect, IInv, Shape
<1> QED BY <1>1, <1>2, TurnKeeps DEF Collect, Turn

LEMMA DiscoverKeeps == ASSUME IInv, NEW step \in around, Discover(step) PROVE IInv'
<1>1. Walking /\ step[1] \in Node
  BY AroundInGraph DEF Discover, Walking, IInv, Queued
<1>2. /\ frontier' \in Seq(Node) /\ next' \in Seq(Node)
      /\ Row(frontier') \cup Row(next') =
             Row(frontier) \cup Row(next) \cup ({step[1]} \ visited)
  BY <1>1, RowAppend DEF Discover, IInv, Shape
<1> QED BY <1>1, <1>2, TurnKeeps DEF Discover, Turn

\* A search that ends with empty queues and no row left has expanded all it met.
LEMMA AllExpanded ==
    ASSUME IInv, Walking, around = {}, frontier = << >>, next = << >>
    PROVE  Closed(visited)
BY RowEmpty DEF IInv, Shape, Queued, Closed

LEMMA NextLevelKeeps == ASSUME IInv, NextLevel PROVE IInv'
<1>1. /\ pc = "k_hop" /\ around = {} /\ frontier = << >> /\ frontier' = next /\ next' = << >>
      /\ pc' = (IF next = << >> THEN "done" ELSE pc)
      /\ UNCHANGED <<edges, query, at, around, visited>> /\ Walking
  BY DEF NextLevel, Walking
<1>2. Shape'
  BY <1>1 DEF IInv, Shape
<1>3. /\ \A u : Around(u)' = Around(u)
      /\ \A S : Closed(S)' <=> Closed(S)
  BY <1>1, SameAround
<1>4. Row(frontier') \cup Row(next') = Row(frontier) \cup Row(next)
  BY <1>1, RowEmpty
<1>5. Queued'
  BY <1>1, <1>3, <1>4 DEF IInv, Queued, Walking
<1>6. Within'
  BY <1>1, <1>3 DEF IInv, Within
<1>7. Exhausted'
  <2>1. CASE next = << >>
    <3>1. Closed(visited)
      BY <1>1, <2>1, AllExpanded
    <3>2. Closed(visited)'
      BY <1>1, <3>1, SameAround DEF Closed
    <3> QED BY <3>2 DEF Exhausted
  <2>2. CASE next # << >>
    BY <1>1, <2>2 DEF Exhausted, Answered
  <2> QED BY <2>1, <2>2
<1>8. PathEnded'
  BY <1>1, MissingAssumption DEF IInv, Shape, PathEnded
<1> QED BY <1>2, <1>5, <1>6, <1>7, <1>8 DEF IInv

\* The other ends of a search: it stops as it is.
LEMMA StopKeeps ==
    ASSUME IInv, Walking, around = {}, pc' = "done",
           UNCHANGED <<edges, query, frontier, next, at, around, visited>>,
           query.target \in Node => query.target \in visited \/ (frontier = << >> /\ next = << >>)
    PROVE  IInv'
<1>1. Shape' /\ Queued'
  BY DEF IInv, Shape, Queued, Walking
<1>2. \A S : Closed(S)' <=> Closed(S)
  BY SameAround
<1>3. Within' /\ PathEnded'
  BY <1>2 DEF IInv, Within, PathEnded, Answered
<1>4. Exhausted'
  <2>1. frontier = << >> /\ next = << >> => Closed(visited)'
    BY AllExpanded, SameAround DEF Closed
  <2> QED BY <2>1 DEF Exhausted
<1> QED BY <1>1, <1>3, <1>4 DEF IInv

LEMMA EndsKeep == ASSUME IInv, EnoughHops \/ EndPath PROVE IInv'
<1>1. CASE EnoughHops
  BY <1>1, StopKeeps, MissingAssumption DEF EnoughHops, Enough, IInv, Shape, Walking
<1>2. CASE EndPath
  BY <1>2, StopKeeps DEF EndPath, TargetFound, IInv, Shape, Walking
<1> QED BY <1>1, <1>2

\* Components are asked of no seed.
LEMMA ComponentsKeep ==
    ASSUME IInv, pc \in {"idle", "components"}, pc' \in {"components", "done"},
           UNCHANGED <<edges, query, frontier, next>>, visited' \subseteq Node
    PROVE  IInv'
<1>1. query = NoQuery /\ query.seed \notin Node /\ query.target \notin Node
  BY MissingAssumption DEF IInv, Shape, NoQuery
<1> QED BY <1>1 DEF IInv, Shape, Queued, Within, Exhausted, PathEnded, Walking, Answered

LEMMA IInvNext == IInv /\ [Next]_vars => IInv'
<1> SUFFICES ASSUME IInv, [Next]_vars PROVE IInv'
  OBVIOUS
<1>1. CASE UNCHANGED vars
  BY <1>1 DEF vars, IInv, Shape, Queued, Within, Exhausted, PathEnded, Walking, Answered,
     Closed, Around, Passes, Enough
<1>2. ASSUME NEW time \in TimeInput, NEW dir \in DirInput, NEW id \in Asked, NEW n, NEW names,
             Neighbors(id, n, time, names, dir)
      PROVE  IInv'
  BY <1>2, NeighborsKeeps
<1>3. ASSUME NEW time \in TimeInput, NEW dir \in DirInput, NEW id \in Asked, NEW dst \in Asked,
             Path(id, dst, time, dir)
      PROVE  IInv'
  BY <1>3, PathKeeps
<1>4. CASE Components
  BY <1>4, ComponentsKeep DEF Components, IInv, Shape
<1>5. ASSUME NEW step \in around, Join(step) PROVE IInv'
  BY <1>5, ComponentsKeep DEF Join, IInv, Shape
<1>6. ASSUME NEW u \in Node, NextSource(u) PROVE IInv'
  BY <1>6, ComponentsKeep DEF NextSource, IInv, Shape
<1>7. CASE EndComponents
  BY <1>7, ComponentsKeep DEF EndComponents, IInv, Shape
<1>8. CASE SearchStep
  BY <1>5, <1>6, <1>7, <1>8, ExpandKeeps, CollectKeeps, DiscoverKeeps, NextLevelKeeps, EndsKeep
     DEF SearchStep
<1> QED BY <1>1, <1>2, <1>3, <1>4, <1>8 DEF Next

-----------------------------------------------------------------------------
\* In a window that is not turned, what is around a node is what the reference
\* definition says: the edges that were alive at some moment of it.
LEMMA PassesRewound ==
    ASSUME Shape, query.opts.time[1] <= query.opts.time[2], NEW e \in edges
    PROVE  Passes(e, query.opts) <=> e \in Rewound
<1> DEFINE from == query.opts.time[1]
           to == query.opts.time[2]
           t == IF e.first >= from THEN e.first ELSE from
<1>1. e.first \in Int /\ e.last \in Int /\ e.first <= e.last /\ from \in Int /\ to \in Int
  BY EdgeAssumption DEF Shape
<1>2. ASSUME e.first <= to, e.last >= from
      PROVE  t \in e.first .. e.last /\ from <= t /\ t <= to
  BY <1>1, <1>2
<1>3. ASSUME NEW x \in e.first .. e.last, from <= x, x <= to
      PROVE  e.first <= to /\ e.last >= from
  BY <1>1, <1>3
<1>4. (e.first <= to /\ e.last >= from) <=> \E x \in e.first .. e.last : from <= x /\ x <= to
  <2> HIDE DEF t
  <2> QED BY <1>2, <1>3
<1> QED BY <1>4 DEF Passes, Rewound

LEMMA AroundIsRewound ==
    ASSUME Shape, query.opts.time[1] <= query.opts.time[2], NEW u
    PROVE  {step[1] : step \in Around(u)} = UNION {Steps(u, e) : e \in Rewound}
<1>1. \A e \in edges : Passes(e, query.opts) <=> e \in Rewound
  BY PassesRewound
<1>2. Rewound \subseteq edges
  BY DEF Rewound
<1>3. query.opts.dir \in {"in", "out", "both"}
  BY DEF Shape
<1>4. ASSUME NEW step \in Around(u) PROVE \E e \in Rewound : step[1] \in Steps(u, e)
  BY <1>1, <1>3 DEF Around, Steps
<1>5. ASSUME NEW e \in Rewound, NEW n \in Steps(u, e) PROVE \E step \in Around(u) : step[1] = n
  <2>1. Passes(e, query.opts) /\ e \in edges
    BY <1>1, <1>2
  <2>2. CASE e.src = u /\ query.opts.dir # "in" /\ n = e.dst
    <3>1. <<n, e, "out">> \in Around(u)
      BY <1>3, <2>1, <2>2 DEF Around
    <3> QED BY <3>1
  <2>3. CASE e.dst = u /\ query.opts.dir # "out" /\ n = e.src
    <3>1. <<n, e, "in">> \in Around(u)
      BY <1>3, <2>1, <2>3 DEF Around
    <3> QED BY <3>1
  <2> QED BY <2>2, <2>3 DEF Steps
<1> QED BY <1>4, <1>5

\* S holds the seed and the reference neighbourhood of every node of it.
Reaches(S) == query.seed \in S /\ Neighbourhood(S) \subseteq S

LEMMA ClosedIsReaches ==
    ASSUME Shape, query.opts.time[1] <= query.opts.time[2], NEW S \in SUBSET Node
    PROVE  Closed(S) <=> Reaches(S)
<1>1. \A u \in S : {step[1] : step \in Around(u)} = UNION {Steps(u, e) : e \in Rewound}
  BY AroundIsRewound
<1>2. Neighbourhood(S) \subseteq S
        <=> \A u \in S : UNION {Steps(u, e) : e \in Rewound} \subseteq S
  BY DEF Neighbourhood
<1>3. (\A u \in S : \A step \in Around(u) : step[1] \in S)
        <=> \A u \in S : {step[1] : step \in Around(u)} \subseteq S
  OBVIOUS
<1> QED BY <1>1, <1>2, <1>3 DEF Closed, Reaches

\* A path query finds its target exactly when there is a way to it within the
\* window, the types and the direction asked for (index.rs:383): it is in every set
\* that holds the seed and the neighbourhood of its nodes.
THEOREM PathFoundIfAny ==
    Spec => [](/\ pc = "done" /\ query.seed \in Node /\ query.target \in Node
               /\ query.opts.time[1] <= query.opts.time[2]
               => (query.target \in visited
                     <=> \A S \in SUBSET Node : Reaches(S) => query.target \in S))
<1>1. ASSUME IInv, Answered, query.target \in Node, query.opts.time[1] <= query.opts.time[2]
      PROVE  query.target \in visited
               <=> \A S \in SUBSET Node : Reaches(S) => query.target \in S
  <2>1. ASSUME query.target \in visited, NEW S \in SUBSET Node, Reaches(S)
        PROVE  query.target \in S
    BY <1>1, <2>1, ClosedIsReaches DEF IInv, Within
  <2>2. ASSUME query.target \notin visited PROVE Reaches(visited) /\ visited \in SUBSET Node
    <3>1. Closed(visited)
      BY <1>1, <2>2 DEF IInv, PathEnded, Exhausted
    <3> QED BY <1>1, <3>1, ClosedIsReaches DEF IInv, Shape
  <2> QED BY <2>1, <2>2
<1>2. IInv => (/\ pc = "done" /\ query.seed \in Node /\ query.target \in Node
               /\ query.opts.time[1] <= query.opts.time[2]
               => (query.target \in visited
                     <=> \A S \in SUBSET Node : Reaches(S) => query.target \in S))
  BY <1>1 DEF Answered
<1> QED BY <1>2, InitOK, IInvNext, PTL DEF Spec

\* A neighbourhood holds nothing that cannot be reached (index.rs:345), and one that
\* ends before its levels are used up holds everything that can.
THEOREM NeighboursReachable ==
    Spec => [](/\ pc = "done" /\ query.seed \in Node /\ query.target = Missing
               /\ query.opts.time[1] <= query.opts.time[2]
               => /\ \A S \in SUBSET Node : Reaches(S) => visited \subseteq S
                  /\ frontier = << >> /\ next = << >> => Reaches(visited))
<1>1. ASSUME IInv, Answered, query.target = Missing, query.opts.time[1] <= query.opts.time[2]
      PROVE  /\ \A S \in SUBSET Node : Reaches(S) => visited \subseteq S
             /\ frontier = << >> /\ next = << >> => Reaches(visited)
  <2>1. ASSUME NEW S \in SUBSET Node, Reaches(S) PROVE visited \subseteq S
    BY <1>1, <2>1, ClosedIsReaches DEF IInv, Within
  <2>2. ASSUME frontier = << >>, next = << >> PROVE Reaches(visited)
    <3>1. Closed(visited)
      BY <1>1, <2>2, MissingAssumption DEF IInv, Exhausted, Shape
    <3> QED BY <1>1, <3>1, ClosedIsReaches DEF IInv, Shape
  <2> QED BY <2>1, <2>2
<1>2. IInv => (/\ pc = "done" /\ query.seed \in Node /\ query.target = Missing
               /\ query.opts.time[1] <= query.opts.time[2]
               => /\ \A S \in SUBSET Node : Reaches(S) => visited \subseteq S
                  /\ frontier = << >> /\ next = << >> => Reaches(visited))
  BY <1>1 DEF Answered
<1> QED BY <1>2, InitOK, IInvNext, PTL DEF Spec

-----------------------------------------------------------------------------
(***************************************************************************)
(* Balls: that the recursion defines them, and when they stop growing.     *)
(***************************************************************************)
\* The reference definitions, of any graph and query.
StepsOf(q, u, e) == (IF e.src = u /\ q.opts.dir # "in" THEN {e.dst} ELSE {})
                       \cup (IF e.dst = u /\ q.opts.dir # "out" THEN {e.src} ELSE {})
RewoundOf(E, q) == {e \in E : /\ e.type \in q.opts.types
                              /\ \E t \in e.first .. e.last :
                                    q.opts.time[1] <= t /\ t <= q.opts.time[2]}
Beyond(E, q, S) == S \cup UNION {StepsOf(q, u, e) : u \in S, e \in RewoundOf(E, q)}
IsBalls(B, E, q) ==
    B = [h \in Nat |-> IF h = 0 THEN {q.seed} ELSE Beyond(E, q, B[h - 1])]
Balls(E, q) == CHOOSE B : IsBalls(B, E, q)

LEMMA BallsExist ==
    ASSUME NEW E \in SUBSET Edge, NEW q, q.seed \in Node
    PROVE  /\ Balls(E, q) \in [Nat -> SUBSET Node]
           /\ Balls(E, q)[0] = {q.seed}
           /\ \A h \in Nat : Balls(E, q)[h + 1] = Beyond(E, q, Balls(E, q)[h])
<1> DEFINE step == [p \in Nat \X SUBSET Node |-> Beyond(E, q, p[2])]
<1>1. \A S \in SUBSET Node : Beyond(E, q, S) \in SUBSET Node
  <2>1. \A e \in RewoundOf(E, q) : e.src \in Node /\ e.dst \in Node
    BY EdgeAssumption DEF RewoundOf
  <2>2. ASSUME NEW u, NEW e \in RewoundOf(E, q) PROVE StepsOf(q, u, e) \subseteq Node
    BY <2>1 DEF StepsOf
  <2> QED BY <2>2 DEF Beyond
<1>2. step \in [Nat \X SUBSET Node -> SUBSET Node]
  <2>1. \A p \in Nat \X SUBSET Node : p[2] \in SUBSET Node
    OBVIOUS
  <2>2. \A p \in Nat \X SUBSET Node : Beyond(E, q, p[2]) \in SUBSET Node
    BY <1>1, <2>1
  <2> HIDE DEF step
  <2>3. step = [p \in Nat \X SUBSET Node |-> Beyond(E, q, p[2])]
    BY DEF step
  <2> QED BY <2>2, <2>3
<1>3. \A h \in Nat : \A S \in SUBSET Node : step[<<h, S>>] = Beyond(E, q, S)
  OBVIOUS
<1>4. {q.seed} \in SUBSET Node
  OBVIOUS
<1> HIDE DEF step
<1>5. PICK f : Recurs(f, SUBSET Node, {q.seed}, step)
  BY <1>2, <1>4, RecursionExists
<1>6. \A h \in Nat : f[h + 1] = Beyond(E, q, f[h])
  BY <1>3, <1>5 DEF Recurs
<1>7. IsBalls(f, E, q)
  <2> DEFINE g == [h \in Nat |-> IF h = 0 THEN {q.seed} ELSE Beyond(E, q, f[h - 1])]
  <2>1. ASSUME NEW h \in Nat PROVE f[h] = g[h]
    <3>1. CASE h = 0
      BY <1>5, <3>1 DEF Recurs
    <3>2. CASE h # 0
      <4>1. h - 1 \in Nat /\ (h - 1) + 1 = h
        BY <3>2
      <4>2. f[h] = Beyond(E, q, f[h - 1])
        BY <1>6, <4>1
      <4> QED BY <3>2, <4>2
    <3> QED BY <3>1, <3>2
  <2>2. f = g
    BY <1>5, <2>1 DEF Recurs
  <2> QED BY <2>2 DEF IsBalls
<1> DEFINE B == Balls(E, q)
<1>8. IsBalls(B, E, q)
  BY <1>7 DEF Balls
<1> HIDE DEF B
<1>9. DOMAIN B = Nat /\ \A h \in Nat : B[h] = IF h = 0 THEN {q.seed} ELSE Beyond(E, q, B[h - 1])
  <2> DEFINE g == [h \in Nat |-> IF h = 0 THEN {q.seed} ELSE Beyond(E, q, B[h - 1])]
  <2>1. B = g
    BY <1>8 DEF IsBalls
  <2>2. DOMAIN g = Nat /\ \A h \in Nat : g[h] = IF h = 0 THEN {q.seed} ELSE Beyond(E, q, B[h - 1])
    OBVIOUS
  <2> HIDE DEF g
  <2> QED BY <2>1, <2>2
<1>10. B[0] = {q.seed} /\ \A h \in Nat : B[h + 1] = Beyond(E, q, B[h])
  <2>1. ASSUME NEW h \in Nat PROVE B[h + 1] = Beyond(E, q, B[h])
    <3>1. h + 1 \in Nat /\ h + 1 # 0 /\ (h + 1) - 1 = h
      OBVIOUS
    <3> QED BY <1>9, <3>1
  <2> QED BY <1>9, <2>1
<1>11. \A h \in Nat : B[h] \in SUBSET Node
  <2> DEFINE T == {h \in Nat : B[h] \in SUBSET Node}
  <2>1. 0 \in T
    BY <1>10
  <2>2. ASSUME NEW k \in T PROVE k + 1 \in T
    BY <1>1, <1>10
  <2>3. T \in SUBSET Nat
    OBVIOUS
  <2>4. T = Nat
    <3> HIDE DEF T
    <3> QED BY <2>1, <2>2, <2>3, AllNat
  <2> QED BY <2>4
<1>12. B = [h \in Nat |-> B[h]]
  <2> DEFINE g == [h \in Nat |-> IF h = 0 THEN {q.seed} ELSE Beyond(E, q, B[h - 1])]
  <2>1. B = g
    BY <1>8 DEF IsBalls
  <2>2. g = [h \in Nat |-> g[h]]
    OBVIOUS
  <2> HIDE DEF g
  <2> QED BY <2>1, <2>2
<1>13. B \in [Nat -> SUBSET Node]
  BY <1>11, <1>12
<1> QED BY <1>10, <1>13 DEF B

LEMMA BallIs == Ball = Balls(edges, query)
BY DEF Ball, Balls, IsBalls, Beyond, Neighbourhood, StepsOf, Steps, RewoundOf, Rewound

LEMMA BallFacts ==
    ASSUME edges \subseteq Edge, query.seed \in Node
    PROVE  /\ Ball \in [Nat -> SUBSET Node]
           /\ Ball[0] = {query.seed}
           /\ \A h \in Nat : Ball[h + 1] = Neighbourhood(Ball[h])
<1>1. Rewound = RewoundOf(edges, query) /\ \A u, e : Steps(u, e) = StepsOf(query, u, e)
  BY DEF StepsOf, Steps, RewoundOf, Rewound
<1>2. ASSUME NEW S PROVE Neighbourhood(S) = Beyond(edges, query, S)
  <2>1. \A x : x \in Neighbourhood(S)
                <=> x \in S \/ \E u \in S, e \in Rewound : x \in Steps(u, e)
    BY DEF Neighbourhood
  <2>2. \A x : x \in Beyond(edges, query, S)
                <=> x \in S \/ \E u \in S, e \in RewoundOf(edges, query) : x \in StepsOf(query, u, e)
    BY DEF Beyond
  <2>3. \A x : x \in Neighbourhood(S) <=> x \in Beyond(edges, query, S)
    BY <1>1, <2>1, <2>2
  <2> QED BY <2>3
<1>3. /\ Ball \in [Nat -> SUBSET Node] /\ Ball[0] = {query.seed}
      /\ \A h \in Nat : Ball[h + 1] = Beyond(edges, query, Ball[h])
  BY BallsExist, BallIs
<1> QED BY <1>2, <1>3

LEMMA BallSame ==
    ASSUME UNCHANGED <<edges, query>>
    PROVE  Ball' = Ball
<1>1. Ball' = Balls(edges', query')
  BY DEF Ball, Balls, IsBalls, Beyond, Neighbourhood, StepsOf, Steps, RewoundOf, Rewound
<1> QED BY <1>1, BallIs

LEMMA BallGrows ==
    ASSUME edges \subseteq Edge, query.seed \in Node, NEW h \in Nat, NEW k \in Nat, h <= k
    PROVE  Ball[h] \subseteq Ball[k]
<1> DEFINE T == {j \in Nat : h <= j => Ball[h] \subseteq Ball[j]}
<1>1. 0 \in T
  OBVIOUS
<1>2. ASSUME NEW j \in T PROVE j + 1 \in T
  <2>1. Ball[j] \subseteq Ball[j + 1]
    BY BallFacts DEF Neighbourhood
  <2>2. h <= j + 1 => h <= j \/ h = j + 1
    OBVIOUS
  <2> QED BY <2>1, <2>2
<1>3. T = Nat
  <2>1. T \in SUBSET Nat
    OBVIOUS
  <2> HIDE DEF T
  <2> QED BY <1>1, <1>2, <2>1, AllNat
<1> QED BY <1>3

\* Once a ball does not grow it never does.
LEMMA BallStable ==
    ASSUME edges \subseteq Edge, query.seed \in Node, NEW h \in Nat, NEW k \in Nat, h <= k,
           Ball[h + 1] = Ball[h]
    PROVE  Ball[k] = Ball[h]
<1> DEFINE T == {j \in Nat : h <= j => Ball[j] = Ball[h]}
<1>1. 0 \in T
  OBVIOUS
<1>2. ASSUME NEW j \in T PROVE j + 1 \in T
  <2> SUFFICES ASSUME h <= j + 1 PROVE Ball[j + 1] = Ball[h]
    OBVIOUS
  <2>1. CASE h = j + 1
    BY <2>1
  <2>2. CASE h <= j
    BY <2>2, BallFacts
  <2> QED BY <2>1, <2>2
<1>3. T = Nat
  <2>1. T \in SUBSET Nat
    OBVIOUS
  <2> HIDE DEF T
  <2> QED BY <1>1, <1>2, <2>1, AllNat
<1> QED BY <1>3

\* As many steps as there are nodes reach all that can be reached.
LEMMA BallAll ==
    ASSUME edges \subseteq Edge, query.seed \in Node, NEW k \in Nat
    PROVE  /\ Cardinality(Node) \in Nat
           /\ Ball[k] \subseteq Ball[Cardinality(Node)]
<1> DEFINE N == Cardinality(Node)
           T == {j \in Nat : \/ \E i \in 0 .. j : Ball[i + 1] = Ball[i]
                             \/ Cardinality(Ball[j]) >= j + 1}
<1>1. N \in Nat /\ \A S \in SUBSET Node : IsFiniteSet(S) /\ Cardinality(S) \in Nat
                                          /\ Cardinality(S) <= N
  BY NodeAssumption, FS_Subset, FS_CardinalityType
<1>2. \A j \in Nat : Ball[j] \in SUBSET Node
  BY BallFacts
<1>3. 0 \in T
  <2>1. Ball[0] = {query.seed}
    BY BallFacts
  <2>2. Cardinality({query.seed}) = 1
    BY FS_Singleton
  <2> QED BY <2>1, <2>2
<1>4. ASSUME NEW j \in T PROVE j + 1 \in T
  <2>1. CASE \E i \in 0 .. j : Ball[i + 1] = Ball[i]
    BY <2>1
  <2>2. CASE Cardinality(Ball[j]) >= j + 1 /\ Ball[j + 1] # Ball[j]
    <3>1. Ball[j] \subseteq Ball[j + 1]
      BY BallGrows
    <3>2. IsFiniteSet(Ball[j + 1]) /\ Cardinality(Ball[j]) \in Nat /\ Cardinality(Ball[j + 1]) \in Nat
      BY <1>1, <1>2
    <3>3. Cardinality(Ball[j]) < Cardinality(Ball[j + 1])
      BY <2>2, <3>1, <3>2, FS_Subset
    <3> QED BY <2>2, <3>2, <3>3
  <2> QED BY <2>1, <2>2
<1>5. T = Nat
  <2>1. T \in SUBSET Nat
    OBVIOUS
  <2> HIDE DEF T
  <2> QED BY <1>3, <1>4, <2>1, AllNat
<1>6. PICK i \in 0 .. N : Ball[i + 1] = Ball[i]
  BY <1>1, <1>2, <1>5
<1>7. Ball[N] = Ball[i]
  BY <1>1, <1>6, BallStable
<1>8. Ball[k] \subseteq Ball[i]
  <2>1. CASE k <= i
    BY <2>1, BallGrows
  <2>2. CASE i <= k
    BY <1>6, <2>2, BallStable
  <2> QED BY <2>1, <2>2
<1> QED BY <1>1, <1>7, <1>8

-----------------------------------------------------------------------------
(***************************************************************************)
(* The types                                                               *)
(***************************************************************************)
LEMMA NodeCount == Cardinality(Node) \in Nat
BY NodeAssumption, FS_CardinalityType

\* The forest is climbed from node to node.
LEMMA AboveIs ==
    ASSUME NEW forest \in [Node -> Node], NEW n \in Node
    PROVE  /\ Above(forest, n) \in [0 .. Cardinality(Node) -> Node]
           /\ Above(forest, n)[0] = n
           /\ \A k \in 0 .. Cardinality(Node) - 1 :
                 Above(forest, n)[k + 1] = forest[Above(forest, n)[k]]
<1> DEFINE N == Cardinality(Node)
           step == [p \in Nat \X Node |-> forest[p[2]]]
           Is(f) == f = [k \in 0 .. N |-> IF k = 0 THEN n ELSE forest[f[k - 1]]]
           up == CHOOSE f : Is(f)
<1>1. N \in Nat
  BY NodeCount
<1>2. step \in [Nat \X Node -> Node] /\ \A k \in Nat, m \in Node : step[<<k, m>>] = forest[m]
  OBVIOUS
<1> HIDE DEF step
<1>3. PICK f : Recurs(f, Node, n, step)
  BY <1>2, RecursionExists
<1>4. \E g : Is(g)
  <2> DEFINE g == [k \in 0 .. N |-> f[k]]
             h == [k \in 0 .. N |-> IF k = 0 THEN n ELSE forest[g[k - 1]]]
  <2>1. ASSUME NEW k \in 0 .. N PROVE g[k] = h[k]
    <3>1. CASE k = 0
      BY <1>3, <3>1 DEF Recurs
    <3>2. CASE k # 0
      <4>1. k - 1 \in 0 .. N /\ k - 1 \in Nat /\ (k - 1) + 1 = k
        BY <1>1, <3>2
      <4>2. f[(k - 1) + 1] = step[<<k - 1, f[k - 1]>>] /\ f[k - 1] \in Node
        BY <1>3, <4>1 DEF Recurs
      <4> QED BY <1>2, <3>2, <4>1, <4>2
    <3> QED BY <3>1, <3>2
  <2>2. g = h
    BY <2>1
  <2> QED BY <2>2
<1>5. Is(up)
  BY <1>4
<1>6. Above(forest, n) = up
  BY DEF Above
<1> HIDE DEF up
<1>7. DOMAIN up = 0 .. N /\ \A k \in 0 .. N : up[k] = IF k = 0 THEN n ELSE forest[up[k - 1]]
  <2> DEFINE h == [k \in 0 .. N |-> IF k = 0 THEN n ELSE forest[up[k - 1]]]
  <2>1. up = h
    BY <1>5
  <2>2. DOMAIN h = 0 .. N /\ \A k \in 0 .. N : h[k] = IF k = 0 THEN n ELSE forest[up[k - 1]]
    OBVIOUS
  <2> HIDE DEF h
  <2> QED BY <2>1, <2>2
<1>8. up[0] = n /\ \A k \in 0 .. N - 1 : up[k + 1] = forest[up[k]]
  <2>1. ASSUME NEW k \in 0 .. N - 1 PROVE up[k + 1] = forest[up[k]]
    <3>1. k + 1 \in 0 .. N /\ k + 1 # 0 /\ (k + 1) - 1 = k
      BY <1>1
    <3> QED BY <1>7, <3>1
  <2> QED BY <1>1, <1>7, <2>1
<1>9. \A k \in 0 .. N : up[k] \in Node
  <2> DEFINE T == {k \in Nat : k <= N => up[k] \in Node}
  <2>1. 0 \in T
    BY <1>8
  <2>2. ASSUME NEW k \in T PROVE k + 1 \in T
    BY <1>1, <1>8
  <2>3. T \in SUBSET Nat
    OBVIOUS
  <2>4. T = Nat
    <3> HIDE DEF T
    <3> QED BY <2>1, <2>2, <2>3, AllNat
  <2> QED BY <1>1, <2>4
<1>10. up = [k \in 0 .. N |-> up[k]]
  <2> DEFINE h == [k \in 0 .. N |-> IF k = 0 THEN n ELSE forest[up[k - 1]]]
  <2>1. up = h
    BY <1>5
  <2>2. h = [k \in 0 .. N |-> h[k]]
    OBVIOUS
  <2> HIDE DEF h
  <2> QED BY <2>1, <2>2
<1> HIDE DEF N, Is
<1>11. up \in [0 .. N -> Node]
  BY <1>9, <1>10
<1> QED BY <1>6, <1>8, <1>11 DEF N

LEMMA JoinedIsForest ==
    ASSUME NEW u \in Node, NEW v \in Node, NEW hung \in Node, parent \in [Node -> Node]
    PROVE  Joined(u, v, hung) \in [Node -> Node]
<1>1. \A forest \in [Node -> Node] : \A n : Halved(forest, n) \in [Node -> Node]
  BY DEF Halved
<1>2. \A n \in Node : Root(parent, n) \in Node
  BY AboveIs, NodeCount DEF Root
<1> DEFINE forest == Halved(Halved(parent, u), v)
<1>3. forest \in [Node -> Node]
  BY <1>1
<1> HIDE DEF forest
<1>4. [forest EXCEPT ![hung] = Root(parent, v)] \in [Node -> Node]
  BY <1>2, <1>3
<1> QED BY <1>3, <1>4 DEF Joined, forest

\* The rest of the types, and that an edge is collected once.
Typed ==
    /\ query.hops \in 0 .. MostHops
    /\ hops \in 0 .. query.hops
    /\ \A step \in around : step[1] \in Node /\ step[2] \in edges
    /\ pc = "components" /\ around # {} => at \in Node
    /\ DOMAIN prev \subseteq visited
    /\ found \in Seq(edges)
    /\ \A i, j \in DOMAIN found : found[i] = found[j] => i = j
    /\ parent \in [Node -> Node]
    /\ pc = "idle" => hops = 0 /\ DOMAIN prev = {} /\ found = << >> /\ visited = {}
    /\ pc = "k_hop" => query.hops >= 1
    /\ pc = "path" => query.target \in Node

LEMMA TypedInit == Init => Typed
BY HopsAssumption DEF Init, Typed, NoQuery

LEMMA TypedStart ==
    ASSUME Typed, NEW id, NEW n \in Nat \cup {Missing}, NEW time, NEW names, NEW dir,
           Neighbors(id, n, time, names, dir)
    PROVE  Typed'
<1>1. Hops(n) \in 1 .. MostHops
  BY HopsAssumption DEF Hops
<1>2. /\ query'.hops = Hops(n) /\ pc = "idle" /\ pc' \in {"k_hop", "done"}
      /\ UNCHANGED <<edges, parent, around, hops, prev, found>>
  BY DEF Neighbors, SearchFrom
<1> HIDE DEF Hops
<1> QED BY <1>1, <1>2, HopsAssumption DEF Typed

LEMMA TypedNext == ASSUME IInv, Typed, [Next]_vars PROVE Typed'
<1>1. CASE UNCHANGED vars
  BY <1>1 DEF vars, Typed
<1>2. ASSUME NEW id \in Asked, NEW n \in HopInput, NEW time \in TimeInput, NEW names, NEW dir,
             Neighbors(id, n, time, names, dir)
      PROVE  Typed'
  BY <1>2, TypedStart, HopsAssumption
<1>3. ASSUME NEW id \in Asked, NEW dst \in Asked, NEW time \in TimeInput, NEW dir,
             Path(id, dst, time, dir)
      PROVE  Typed'
  <2>1. /\ query'.hops = 0 /\ pc = "idle" /\ pc' \in {"path", "done"}
        /\ pc' = "path" => query'.target \in Node
        /\ UNCHANGED <<edges, parent, around, hops, prev, found>>
    BY <1>3 DEF Path, SearchFrom
  <2> QED BY <2>1, HopsAssumption DEF Typed
<1>4. CASE Components
  BY <1>4 DEF Components, Typed, IInv, Shape
<1>5. CASE Expand
  <2>1. /\ around' = Around(at)' /\ UNCHANGED <<edges, query, hops, prev, found, parent, visited, pc>>
        /\ pc \in {"k_hop", "path"}
    BY <1>5, SameAround DEF Expand
  <2>2. \A step \in around' : step[1] \in Node /\ step[2] \in edges
    BY <1>5, AroundInGraph DEF Expand, IInv
  <2> QED BY <2>1, <2>2 DEF Typed
<1>6. ASSUME NEW step \in around, Collect(step) PROVE Typed'
  <2>1. found' \in Seq(edges) /\ \A i, j \in DOMAIN found' : found'[i] = found'[j] => i = j
    <3>1. CASE \E i \in DOMAIN found : found[i] = step[2]
      BY <1>6, <3>1 DEF Typed, Collect
    <3>2. CASE ~ \E i \in DOMAIN found : found[i] = step[2]
      <4>1. found' = Append(found, step[2]) /\ step[2] \in edges /\ found \in Seq(edges)
        BY <1>6, <3>2 DEF Typed, Collect
      <4>2. \A i \in DOMAIN found' : \/ i \in DOMAIN found /\ found'[i] = found[i]
                                     \/ i = Len(found) + 1 /\ found'[i] = step[2]
        BY <4>1
      <4> QED BY <3>2, <4>1, <4>2 DEF Typed
    <3> QED BY <3>1, <3>2
  <2> QED BY <1>6, <2>1 DEF Typed, Collect, Turn
<1>7. ASSUME NEW step \in around, Discover(step) PROVE Typed'
  BY <1>7 DEF Typed, Discover, Turn
<1>8. ASSUME NEW step \in around, Join(step) PROVE Typed'
  <2>1. at \in Node /\ step[1] \in Node /\ Root(parent, at) \in Node
    BY <1>8, AboveIs, NodeCount DEF Typed, Join, Root
  <2>2. parent' \in [Node -> Node]
    BY <1>8, <2>1, JoinedIsForest DEF Join, Typed
  <2> QED BY <1>8, <2>2 DEF Typed, Join, Turn
<1>9. ASSUME NEW u \in Node, NextSource(u) PROVE Typed'
  <2>1. \A step \in around' : step[1] \in Node /\ step[2] \in edges
    BY <1>9, AroundInGraph DEF NextSource, IInv
  <2> QED BY <1>9, <2>1 DEF Typed, NextSource
<1>10. CASE EndComponents
  BY <1>10 DEF Typed, EndComponents
<1>11. CASE NextLevel
  BY <1>11, HopsAssumption DEF Typed, NextLevel, Enough
<1>12. CASE EnoughHops
  BY <1>12 DEF Typed, EnoughHops, Enough
<1>13. CASE EndPath
  BY <1>13 DEF Typed, EndPath
<1> QED
  BY <1>1, <1>2, <1>3, <1>4, <1>5, <1>6, <1>7, <1>8, <1>9, <1>10, <1>11, <1>12, <1>13
     DEF Next, SearchStep

LEMMA TypedIs == IInv /\ Typed => TypeOK
BY DEF IInv, Shape, Typed, TypeOK

-----------------------------------------------------------------------------
(***************************************************************************)
(* k_hop goes level by level                                               *)
(***************************************************************************)
\* What is around a node, edge by edge.
LEMMA AroundSteps ==
    ASSUME Shape, ~Turned, NEW u
    PROVE  /\ \A step \in Around(u) : step[2] \in Rewound /\ step[1] \in Steps(u, step[2])
           /\ \A e \in Rewound : \A n \in Steps(u, e) :
                 \E step \in Around(u) : step[1] = n /\ step[2] = e
<1>1. \A e \in edges : Passes(e, query.opts) <=> e \in Rewound
  BY PassesRewound DEF Turned, Shape
<1>2. Rewound \subseteq edges
  BY DEF Rewound
<1>3. query.opts.dir \in {"in", "out", "both"}
  BY DEF Shape
<1>4. ASSUME NEW step \in Around(u) PROVE step[2] \in Rewound /\ step[1] \in Steps(u, step[2])
  BY <1>1, <1>3 DEF Around, Steps
<1>5. ASSUME NEW e \in Rewound, NEW n \in Steps(u, e)
      PROVE  \E step \in Around(u) : step[1] = n /\ step[2] = e
  <2>1. Passes(e, query.opts) /\ e \in edges
    BY <1>1, <1>2
  <2>2. CASE e.src = u /\ query.opts.dir # "in" /\ n = e.dst
    <3>1. <<n, e, "out">> \in Around(u)
      BY <1>3, <2>1, <2>2 DEF Around
    <3> QED BY <3>1
  <2>3. CASE e.dst = u /\ query.opts.dir # "out" /\ n = e.src
    <3>1. <<n, e, "in">> \in Around(u)
      BY <1>3, <2>1, <2>3 DEF Around
    <3> QED BY <3>1
  <2> QED BY <2>2, <2>3 DEF Steps
<1> QED BY <1>4, <1>5

\* A set is its own neighbourhood and what is around its nodes.
LEMMA NeighbourhoodIs ==
    ASSUME Shape, ~Turned, NEW S
    PROVE  \A n : n \in Neighbourhood(S)
              <=> n \in S \/ \E u \in S : \E step \in Around(u) : step[1] = n
<1>1. \A n : n \in Neighbourhood(S) <=> n \in S \/ \E u \in S, e \in Rewound : n \in Steps(u, e)
  BY DEF Neighbourhood
<1>2. ASSUME NEW n, NEW u \in S
      PROVE  (\E e \in Rewound : n \in Steps(u, e)) <=> \E step \in Around(u) : step[1] = n
  BY AroundSteps
<1> QED BY <1>1, <1>2

\* The edges with an end at most h hops from the seed.
EdgesFrom(h) == {e \in Rewound : \E u \in Ball[h] : Steps(u, e) # {}}

Levels ==
    (pc = "k_hop" /\ ~Turned) =>
        /\ ~Enough =>
              /\ visited = Ball[hops] \cup Row(next)
              /\ Row(next) \subseteq Ball[hops + 1]
              /\ Row(next) \cap Ball[hops] = {}
              /\ Row(frontier) \subseteq Ball[hops]
              /\ around # {} => at \in Ball[hops]
              /\ Row(found) \subseteq EdgesFrom(hops)
              /\ \A u \in Ball[hops] \ Row(frontier) : \A step \in Around(u) :
                    step[2] \in Row(found) \/ (u = at /\ step \in around)
        /\ Enough => visited = Ball[hops] /\ next = << >> /\ Row(found) = EdgesFrom(hops - 1)

LevelsDone ==
    (Answered /\ query.target = Missing /\ ~Turned) =>
        visited = Ball[query.hops] /\ Row(found) = EdgesFrom(query.hops - 1)

\* What does not change while a search runs.
LEMMA Same ==
    ASSUME UNCHANGED <<edges, query>>
    PROVE  /\ Ball' = Ball /\ Rewound' = Rewound /\ (Turned' <=> Turned)
           /\ \A u : Around(u)' = Around(u)
           /\ \A u, e : Steps(u, e)' = Steps(u, e)
           /\ \A h : EdgesFrom(h)' = EdgesFrom(h)
           /\ \A S : Neighbourhood(S)' = Neighbourhood(S)
<1>1. /\ Ball' = Ball /\ Rewound' = Rewound /\ (Turned' <=> Turned)
      /\ \A u, e : Steps(u, e)' = Steps(u, e)
  BY BallSame DEF Rewound, Turned, Steps
<1>2. \A h : EdgesFrom(h)' = EdgesFrom(h)
  BY <1>1 DEF EdgesFrom
<1>3. \A S : Neighbourhood(S)' = Neighbourhood(S)
  BY <1>1 DEF Neighbourhood
<1> QED BY <1>1, <1>2, <1>3, SameAround

LEMMA EdgesFromGrow ==
    ASSUME edges \subseteq Edge, query.seed \in Node, NEW h \in Nat, NEW k \in Nat, h <= k
    PROVE  EdgesFrom(h) \subseteq EdgesFrom(k)
BY BallGrows DEF EdgesFrom

LEMMA BallStart ==
    ASSUME edges' \subseteq Edge, query'.seed \in Node
    PROVE  (Ball')[0] = {query'.seed}
<1>1. Ball' = Balls(edges', query')
  BY DEF Ball, Balls, IsBalls, Beyond, Neighbourhood, StepsOf, Steps, RewoundOf, Rewound
<1>2. PICK q : q = query'
  OBVIOUS
<1>3. PICK E : E = edges'
  OBVIOUS
<1>4. Balls(E, q)[0] = {q.seed}
  BY <1>2, <1>3, BallsExist
<1> QED BY <1>1, <1>2, <1>3, <1>4

\* Where the seed of a search is.
LEMMA SeedKnown ==
    ASSUME IInv, Typed, pc \in {"k_hop", "path"}
    PROVE  query.seed \in Node /\ edges \subseteq Edge /\ hops \in Nat /\ query.hops \in Nat
BY HopsAssumption DEF IInv, Shape, Queued, Walking, Typed

LEMMA LevelsStart ==
    ASSUME IInv, Typed, NEW id \in Asked, NEW n, NEW time, NEW names, NEW dir,
           Neighbors(id, n, time, names, dir), Typed', Shape'
    PROVE  Levels' /\ LevelsDone'
<1>1. /\ query'.seed = id /\ hops = 0 /\ next = << >> /\ around = {} /\ found = << >>
      /\ UNCHANGED <<edges, hops, next, around, found>>
  BY DEF Neighbors, SearchFrom, Typed, IInv, Shape
<1>2. CASE id \notin Node
  BY <1>1, <1>2 DEF Neighbors, SearchFrom, Levels, LevelsDone, Answered
<1>3. CASE id \in Node
  <2>1. pc' = "k_hop" /\ visited' = {id} /\ frontier' = <<id>>
    BY <1>3 DEF Neighbors, SearchFrom
  <2>2. query'.hops >= 1 /\ query'.hops \in Nat
    BY <2>1, HopsAssumption DEF Typed
  <2>3. (Ball')[0] = {id}
    BY <1>1, <1>3, BallStart DEF Shape
  <2>4. Row(next') = {} /\ Row(found') = {} /\ Row(frontier') = {id}
    BY <1>1, <2>1 DEF Row
  <2>5. ~Enough'
    BY <1>1, <2>1, <2>2 DEF Enough
  <2>6. LevelsDone'
    BY <2>1 DEF LevelsDone, Answered
  <2>7. Levels'
    BY <1>1, <2>1, <2>3, <2>4, <2>5 DEF Levels
  <2> QED BY <2>6, <2>7
<1> QED BY <1>2, <1>3

LEMMA LevelsExpand == ASSUME IInv, Typed, Levels, Expand PROVE Levels' /\ LevelsDone'
<1>1. CASE pc = "path" \/ Turned
  BY <1>1, Same DEF Expand, Levels, LevelsDone, Answered
<1>2. CASE pc = "k_hop" /\ ~Turned
  <2>1. /\ around = {} /\ frontier # << >> /\ at' = Head(frontier) /\ around' = Around(at')
        /\ frontier' = Tail(frontier) /\ ~Enough
        /\ UNCHANGED <<edges, pc, query, next, visited, hops, found>>
    BY DEF Expand
  <2>2. Row(frontier) = {at'} \cup Row(frontier')
    BY <2>1, RowHead DEF IInv, Shape
  <2>3. around' = Around(at)'
    BY <2>1, Same
  <2>4. /\ visited = Ball[hops] \cup Row(next) /\ Row(next) \subseteq Ball[hops + 1]
        /\ Row(next) \cap Ball[hops] = {} /\ Row(frontier) \subseteq Ball[hops]
        /\ Row(found) \subseteq EdgesFrom(hops)
        /\ \A u \in Ball[hops] \ Row(frontier) : \A step \in Around(u) : step[2] \in Row(found)
    BY <1>2, <2>1 DEF Levels
  <2>5. ASSUME NEW u \in Ball[hops] \ Row(frontier'), NEW step \in Around(u)
        PROVE  step[2] \in Row(found) \/ (u = at' /\ step \in around')
    BY <2>1, <2>2, <2>4
  <2>6. ~Enough'
    BY <2>1 DEF Enough
  <2>7. Levels'
    BY <2>1, <2>2, <2>4, <2>5, <2>6, Same DEF Levels
  <2> QED BY <1>2, <2>1, <2>7 DEF LevelsDone, Answered
<1> QED BY <1>1, <1>2 DEF Expand

LEMMA FoundRow ==
    ASSUME Typed, NEW e \in edges,
           found' = IF \E i \in DOMAIN found : found[i] = e THEN found ELSE Append(found, e)
    PROVE  Row(found') = Row(found) \cup {e}
<1>1. found \in Seq(edges) /\ DOMAIN found = 1 .. Len(found)
  BY DEF Typed
<1>2. CASE \E i \in DOMAIN found : found[i] = e
  BY <1>1, <1>2 DEF Row
<1>3. CASE ~ \E i \in DOMAIN found : found[i] = e
  <2>1. found' = Append(found, e)
    BY <1>3
  <2>2. Len(found') = Len(found) + 1 /\ Len(found) \in Nat
    BY <1>1, <2>1
  <2>3. \A i \in 1 .. Len(found) : found'[i] = found[i]
    BY <1>1, <2>1
  <2>4. found'[Len(found) + 1] = e
    BY <1>1, <2>1
  <2>5. \A i \in 1 .. Len(found) + 1 : i \in 1 .. Len(found) \/ i = Len(found) + 1
    BY <2>2
  <2>6. 1 .. Len(found) \subseteq 1 .. Len(found) + 1 /\ Len(found) + 1 \in 1 .. Len(found) + 1
    BY <2>2
  <2> QED BY <2>2, <2>3, <2>4, <2>5, <2>6 DEF Row
<1> QED BY <1>2, <1>3

LEMMA LevelsCollect ==
    ASSUME IInv, Typed, Levels, NEW step \in around, Collect(step)
    PROVE  Levels' /\ LevelsDone'
<1>1. /\ pc = "k_hop" /\ pc' = pc /\ around' = around \ {step} /\ visited' = visited \cup {step[1]}
      /\ next' = (IF step[1] \in visited THEN next ELSE Append(next, step[1]))
      /\ UNCHANGED <<edges, query, frontier, at, hops>>
  BY DEF Collect, Turn
<1>2. CASE Turned
  BY <1>1, <1>2, Same DEF Levels, LevelsDone, Answered
<1>3. CASE ~Turned
  <2>1. ~Enough /\ around # {}
    BY <1>1 DEF IInv, Shape
  <2>2. /\ visited = Ball[hops] \cup Row(next) /\ Row(next) \subseteq Ball[hops + 1]
        /\ Row(next) \cap Ball[hops] = {} /\ Row(frontier) \subseteq Ball[hops]
        /\ at \in Ball[hops] /\ Row(found) \subseteq EdgesFrom(hops)
        /\ \A u \in Ball[hops] \ Row(frontier) : \A other \in Around(u) :
              other[2] \in Row(found) \/ (u = at /\ other \in around)
    BY <1>1, <1>3, <2>1 DEF Levels
  <2>3. step \in Around(at) /\ step[1] \in Node /\ step[2] \in edges
    BY <1>1, AroundInGraph DEF IInv, Queued, Walking
  <2>4. step[2] \in Rewound /\ step[1] \in Steps(at, step[2])
    BY <1>3, <2>3, AroundSteps DEF IInv
  <2>5. Row(found') = Row(found) \cup {step[2]}
    BY <2>3, FoundRow DEF Collect
  <2>6. step[2] \in EdgesFrom(hops)
    BY <2>2, <2>4 DEF EdgesFrom
  <2>7. Row(next') = Row(next) \cup ({step[1]} \ visited)
    BY <1>1, <2>3, RowAppend DEF IInv, Shape
  <2>8. step[1] \in Ball[hops + 1]
    <3>1. step[1] \in Neighbourhood(Ball[hops])
      BY <2>2, <2>4 DEF Neighbourhood
    <3> QED BY <1>1, <3>1, SeedKnown, BallFacts
  <2>9. ASSUME NEW u \in Ball[hops] \ Row(frontier), NEW other \in Around(u)
        PROVE  other[2] \in Row(found') \/ (u = at /\ other \in around')
    BY <1>1, <2>2, <2>5
  <2>10. ~Enough'
    BY <1>1, <2>1 DEF Enough
  <2>11. Levels'
    BY <1>1, <2>2, <2>5, <2>6, <2>7, <2>8, <2>9, <2>10, Same DEF Levels
  <2> QED BY <1>1, <2>11 DEF LevelsDone, Answered
<1> QED BY <1>2, <1>3

\* A level that is used up: the next ball is there, and the edges of this one.
LEMMA LevelDone ==
    ASSUME IInv, Typed, Levels, pc = "k_hop", ~Turned, ~Enough, around = {}, frontier = << >>
    PROVE  visited = Ball[hops + 1] /\ Row(found) = EdgesFrom(hops)
<1>1. /\ visited = Ball[hops] \cup Row(next) /\ Row(next) \subseteq Ball[hops + 1]
      /\ Row(next) \cap Ball[hops] = {} /\ Row(frontier) = {}
      /\ Row(found) \subseteq EdgesFrom(hops)
      /\ \A u \in Ball[hops] : \A step \in Around(u) : step[2] \in Row(found)
  BY RowEmpty DEF Levels
<1>2. /\ query.seed \in Node /\ edges \subseteq Edge /\ hops \in Nat /\ Shape
      /\ Ball[hops + 1] = Neighbourhood(Ball[hops]) /\ Ball[hops] \subseteq Ball[hops + 1]
  <2>1. query.seed \in Node /\ edges \subseteq Edge /\ hops \in Nat /\ Shape
    BY SeedKnown DEF IInv
  <2>2. Ball[hops + 1] = Neighbourhood(Ball[hops])
    BY <2>1, BallFacts
  <2>3. Ball[hops] \subseteq Ball[hops + 1]
    BY <2>1, BallGrows
  <2> QED BY <2>1, <2>2, <2>3
<1>3. \A u \in Ball[hops] : \A step \in Around(u) : step[1] \in visited
  BY <1>1 DEF IInv, Queued, Walking
<1>4. Ball[hops + 1] \subseteq visited
  BY <1>1, <1>2, <1>3, NeighbourhoodIs
<1>5. ASSUME NEW e \in EdgesFrom(hops) PROVE e \in Row(found)
  <2>1. PICK u \in Ball[hops] : Steps(u, e) # {}
    BY DEF EdgesFrom
  <2>2. PICK n : n \in Steps(u, e)
    BY <2>1
  <2>3. e \in Rewound
    BY DEF EdgesFrom
  <2>4. \E step \in Around(u) : step[2] = e
    BY <1>2, <2>2, <2>3, AroundSteps
  <2> QED BY <1>1, <2>4
<1> QED BY <1>1, <1>2, <1>4, <1>5

LEMMA LevelsNextLevel == ASSUME IInv, Typed, Levels, NextLevel PROVE Levels' /\ LevelsDone'
<1>1. /\ pc = "k_hop" /\ ~Enough /\ around = {} /\ frontier = << >> /\ frontier' = next
      /\ next' = << >> /\ hops' = hops + 1 /\ pc' = (IF next = << >> THEN "done" ELSE pc)
      /\ UNCHANGED <<edges, query, at, around, visited, found>>
  BY DEF NextLevel
<1>2. CASE Turned
  BY <1>1, <1>2, Same DEF Levels, LevelsDone
<1>3. CASE ~Turned
  <2>1. visited = Ball[hops + 1] /\ Row(found) = EdgesFrom(hops)
    BY <1>1, <1>3, LevelDone
  <2>2. visited = Ball[hops] \cup Row(next) /\ Row(next) \subseteq Ball[hops + 1]
    BY <1>1, <1>3 DEF Levels
  <2>3. /\ query.seed \in Node /\ edges \subseteq Edge /\ hops \in Nat /\ query.hops \in Nat
        /\ hops + 1 <= query.hops
    BY <1>1, SeedKnown, HopsAssumption DEF Enough, Typed
  <2>4. CASE next = << >>
    <3>1. Ball[hops + 1] = Ball[hops]
      BY <2>1, <2>2, <2>4, RowEmpty
    <3>2. Ball[query.hops] = Ball[hops] /\ Ball[query.hops - 1] = Ball[hops]
      BY <2>3, <3>1, BallStable
    <3>3. EdgesFrom(query.hops - 1) = EdgesFrom(hops)
      BY <3>2 DEF EdgesFrom
    <3>4. LevelsDone'
      BY <1>1, <2>1, <3>1, <3>2, <3>3, Same DEF LevelsDone
    <3> QED BY <1>1, <2>4, <3>4 DEF Levels
  <2>5. CASE next # << >>
    <3>1. Row(next') = {} /\ pc' = "k_hop"
      BY <1>1, <2>5, RowEmpty
    <3>2. CASE Enough'
      <4>1. visited' = (Ball')[hops'] /\ (hops + 1) - 1 = hops
        BY <1>1, <2>1, <2>3, Same
      <4>2. Row(found)' = EdgesFrom(hops - 1)'
        BY <1>1, <2>1, <4>1, Same DEF EdgesFrom
      <4>3. next' = << >>
        BY <1>1
      <4>4. Levels'
        BY <3>2, <4>1, <4>2, <4>3 DEF Levels
      <4> QED BY <3>1, <4>4 DEF LevelsDone, Answered
    <3>3. CASE ~Enough'
      <4>1. EdgesFrom(hops) \subseteq EdgesFrom(hops + 1)
        BY <2>3, EdgesFromGrow
      <4>2. ASSUME NEW u \in Ball[hops + 1] \ Row(next), NEW step \in Around(u)
            PROVE  step[2] \in Row(found)
        <5>1. u \in Ball[hops] \ Row(frontier)
          BY <1>1, <2>1, <2>2, RowEmpty
        <5> QED BY <1>1, <1>3, <5>1 DEF Levels
      <4>3. Levels'
        BY <1>1, <2>1, <2>2, <3>1, <3>3, <4>1, <4>2, Same DEF Levels
      <4> QED BY <3>1, <4>3 DEF LevelsDone, Answered
    <3> QED BY <3>2, <3>3
  <2> QED BY <2>4, <2>5
<1> QED BY <1>2, <1>3

LEMMA LevelsEnough == ASSUME IInv, Typed, Levels, EnoughHops PROVE Levels' /\ LevelsDone'
<1>1. /\ pc = "k_hop" /\ hops = query.hops /\ Enough /\ pc' = "done"
      /\ UNCHANGED <<edges, query, visited, found>>
  BY DEF EnoughHops, Enough
<1> QED BY <1>1, Same DEF Levels, LevelsDone

LEMMA LevelsNext ==
    ASSUME IInv, Typed, Levels, LevelsDone, [Next]_vars, IInv', Typed'
    PROVE  Levels' /\ LevelsDone'
<1>1. CASE UNCHANGED vars
  <2>1. /\ UNCHANGED <<edges, pc, query, frontier, next, at, around, hops, visited, found>>
        /\ (Enough' <=> Enough) /\ (Answered' <=> Answered)
    BY <1>1 DEF vars, Enough, Answered
  <2> QED BY <2>1, Same DEF Levels, LevelsDone
<1>2. ASSUME NEW id \in Asked, NEW n \in HopInput, NEW time \in TimeInput, NEW names, NEW dir,
             Neighbors(id, n, time, names, dir)
      PROVE  Levels' /\ LevelsDone'
  BY <1>2, LevelsStart DEF IInv
<1>3. ASSUME NEW id \in Asked, NEW dst \in Asked, NEW time \in TimeInput, NEW dir,
             Path(id, dst, time, dir)
      PROVE  Levels' /\ LevelsDone'
  <2>1. query'.target # Missing /\ pc' # "k_hop"
    BY <1>3, MissingAssumption DEF Path, SearchFrom
  <2> QED BY <2>1 DEF Levels, LevelsDone
<1>4. CASE pc \in {"idle", "components"} /\ pc' \in {"components", "done"} /\ UNCHANGED query
  <2>1. query'.seed \notin Node
    BY <1>4, MissingAssumption DEF IInv, Shape, NoQuery
  <2> QED BY <1>4, <2>1 DEF Levels, LevelsDone, Answered
<1>5. CASE Expand
  BY <1>5, LevelsExpand
<1>6. ASSUME NEW step \in around, Collect(step) PROVE Levels' /\ LevelsDone'
  BY <1>6, LevelsCollect
<1>7. ASSUME NEW step \in around, Discover(step) PROVE Levels' /\ LevelsDone'
  BY <1>7 DEF Discover, Levels, LevelsDone, Answered
<1>8. CASE NextLevel
  BY <1>8, LevelsNextLevel
<1>9. CASE EnoughHops
  BY <1>9, LevelsEnough
<1>10. CASE EndPath
  <2>1. query'.target # Missing /\ pc' = "done"
    BY <1>10, MissingAssumption DEF EndPath, Typed
  <2> QED BY <1>10, <2>1 DEF EndPath, Levels, LevelsDone
<1>11. SearchStep \/ Components => Levels' /\ LevelsDone'
  <2>1. Components => Levels' /\ LevelsDone'
    BY <1>4 DEF Components
  <2>2. \A step \in around : Join(step) => Levels' /\ LevelsDone'
    BY <1>4 DEF Join
  <2>3. \A u \in Node : NextSource(u) => Levels' /\ LevelsDone'
    BY <1>4 DEF NextSource
  <2>4. EndComponents => Levels' /\ LevelsDone'
    BY <1>4 DEF EndComponents
  <2> QED BY <1>5, <1>6, <1>7, <1>8, <1>9, <1>10, <2>1, <2>2, <2>3, <2>4 DEF SearchStep
<1> QED BY <1>1, <1>2, <1>3, <1>11 DEF Next

LEMMA LevelsInit == Init => Levels /\ LevelsDone
BY DEF Init, Levels, LevelsDone, Answered

LEMMA LevelsAre ==
    ASSUME IInv, Typed, Levels, LevelsDone PROVE LevelByLevel /\ KHopExact
<1>1. LevelByLevel
  <2> SUFFICES ASSUME pc = "k_hop", ~Turned
               PROVE  /\ Ball[hops] \subseteq visited \cup {query.seed}
                      /\ ~Enough => visited \subseteq Ball[hops + 1]
    BY DEF LevelByLevel
  <2>1. Ball[hops] \subseteq Ball[hops + 1]
    BY SeedKnown, BallGrows
  <2> QED BY <2>1 DEF Levels
<1>2. KHopExact
  <2>1. {found[i] : i \in DOMAIN found} = Row(found)
    BY DEF Typed, Row
  <2> QED BY <2>1 DEF KHopExact, LevelsDone, Answered, EdgesFrom, Typed
<1> QED BY <1>1, <1>2

-----------------------------------------------------------------------------
(***************************************************************************)
(* shortest_path goes level by level                                       *)
(***************************************************************************)
\* Who reached x is one hop nearer to the seed.
ParentOf(x) ==
    /\ x \in DOMAIN prev
    /\ prev[x].parent \in visited
    /\ prev[x].edge \in Rewound
    /\ x \in Steps(prev[x].parent, prev[x].edge)
    /\ \A k \in Nat : x \in Ball[k + 1] => prev[x].parent \in Ball[k]
Parents == \A x \in visited \ {query.seed} : ParentOf(x)

\* The nodes of level h are expanded: m of the queue are of it, and after them come
\* those met of the next.
Front(h, m) ==
    /\ Ball[h] \subseteq visited /\ visited \subseteq Ball[h + 1]
    /\ \A i \in 1 .. m : frontier[i] \in Ball[h]
    /\ \A i \in m + 1 .. Len(frontier) : frontier[i] \notin Ball[h]
    /\ \A n \in visited \ Ball[h] : \E i \in m + 1 .. Len(frontier) : frontier[i] = n
    /\ around # {} => at \in Ball[h]

Walks ==
    (pc = "path" /\ ~Turned) =>
        Parents /\ \E h \in Nat : \E m \in 0 .. Len(frontier) : Front(h, m)

WalksDone ==
    (Answered /\ query.target \in Node /\ ~Turned) =>
        Parents /\ (visited # {} => query.seed \in visited)

LEMMA WalksStart ==
    ASSUME IInv, Typed, NEW id \in Asked, NEW dst \in Asked, NEW time, NEW dir,
           Path(id, dst, time, dir), Shape'
    PROVE  Walks' /\ WalksDone'
<1>1. /\ query'.seed = id /\ query'.target = dst /\ around = {}
      /\ UNCHANGED <<edges, around>>
  BY DEF Path, SearchFrom, IInv, Shape
<1>2. CASE ~(dst \in Node /\ id # dst)
  <2>1. pc' = "done" /\ visited' \subseteq {id}
    BY <1>2 DEF Path
  <2>2. visited' # {} => id \in visited'
    BY <2>1
  <2> QED BY <1>1, <2>1, <2>2 DEF Walks, WalksDone, Parents
<1>3. CASE dst \in Node /\ id # dst /\ id \notin Node
  BY <1>1, <1>3 DEF Path, SearchFrom, Walks, WalksDone, Answered
<1>4. CASE dst \in Node /\ id # dst /\ id \in Node
  <2>1. pc' = "path" /\ visited' = {id} /\ frontier' = <<id>>
    BY <1>4 DEF Path, SearchFrom
  <2>2. (Ball')[0] = {id}
    BY <1>1, <1>4, BallStart DEF Shape
  <2>3. {id} \subseteq (Ball')[0 + 1]
    <3>1. PICK q : q = query'
      OBVIOUS
    <3>2. PICK E : E = edges'
      OBVIOUS
    <3>3. Balls(E, q)[0 + 1] = Beyond(E, q, Balls(E, q)[0]) /\ Balls(E, q)[0] = {q.seed}
      <4>1. E \in SUBSET Edge /\ q.seed \in Node /\ 0 \in Nat
        BY <1>1, <1>4, <3>1, <3>2 DEF Shape
      <4> QED BY <4>1, BallsExist
    <3>4. {q.seed} \subseteq Balls(E, q)[0 + 1]
      BY <3>3 DEF Beyond
    <3>5. Ball' = Balls(edges', query')
      BY DEF Ball, Balls, IsBalls, Beyond, Neighbourhood, StepsOf, Steps, RewoundOf, Rewound
    <3> QED BY <1>1, <3>1, <3>2, <3>4, <3>5
  <2>4. Len(frontier') = 1 /\ frontier'[1] = id
    BY <2>1
  <2>5. Front(0, 1)'
    BY <1>1, <2>1, <2>2, <2>3, <2>4 DEF Front
  <2>6. Parents'
    BY <1>1, <2>1 DEF Parents
  <2>7. \E h \in Nat : \E m \in 0 .. Len(frontier') : Front(h, m)'
    BY <2>4, <2>5
  <2>8. Walks'
    BY <2>6, <2>7 DEF Walks
  <2> QED BY <2>1, <2>8 DEF WalksDone, Answered
<1> QED BY <1>2, <1>3, <1>4

LEMMA ParentsSame ==
    ASSUME UNCHANGED <<edges, query, visited, prev>>, Parents PROVE Parents'
<1>1. \A x : ParentOf(x)' <=> ParentOf(x)
  BY Same DEF ParentOf
<1> QED BY <1>1 DEF Parents

\* The level is used up: the next one is there.
LEMMA NextFront ==
    ASSUME IInv, Typed, pc = "path", ~Turned, NEW h \in Nat, Front(h, 0), around = {}
    PROVE  visited = Ball[h + 1]
<1>1. query.seed \in Node /\ edges \subseteq Edge /\ Shape /\ next = << >>
  BY SeedKnown DEF IInv, Shape
<1>2. \A n \in Row(frontier) : n \notin Ball[h]
  BY DEF Front, Row
<1>3. \A u \in Ball[h] : \A step \in Around(u) : step[1] \in visited
  BY <1>1, <1>2, RowEmpty DEF IInv, Queued, Walking, Front
<1>4. Neighbourhood(Ball[h]) \subseteq visited
  BY <1>1, <1>3, NeighbourhoodIs DEF Front
<1> QED BY <1>1, <1>4, BallFacts DEF Front

LEMMA WalksExpand == ASSUME IInv, Typed, Walks, Expand PROVE Walks' /\ WalksDone'
<1>1. CASE pc = "k_hop" \/ Turned
  BY <1>1, Same DEF Expand, Walks, WalksDone, Answered
<1>2. CASE pc = "path" /\ ~Turned
  <2>1. /\ around = {} /\ frontier # << >> /\ at' = Head(frontier)
        /\ frontier' = Tail(frontier)
        /\ UNCHANGED <<edges, pc, query, visited, prev>>
    BY DEF Expand
  <2>2. PICK h \in Nat, m \in 0 .. Len(frontier) : Front(h, m)
    BY <1>2 DEF Walks
  <2>3. /\ frontier \in Seq(Node) /\ query.seed \in Node /\ edges \subseteq Edge
        /\ Row(frontier) \subseteq visited
    BY <1>2, SeedKnown DEF IInv, Shape, Queued, Walking
  <2>4. /\ Len(frontier) \in Nat /\ Len(frontier) >= 1 /\ Len(Tail(frontier)) = Len(frontier) - 1
        /\ Head(frontier) = frontier[1]
        /\ \A i \in 1 .. Len(frontier) - 1 : Tail(frontier)[i] = frontier[i + 1]
    BY <2>1, <2>3
  <2>5. \E k \in Nat : \E j \in 0 .. Len(frontier') : Front(k, j)'
    <3>1. CASE m > 0
      <4>1. m - 1 \in 0 .. Len(frontier') /\ (m - 1) + 1 = m
        BY <2>1, <2>4, <3>1
      <4>2. \A i \in 1 .. m - 1 : frontier'[i] \in Ball[h]
        <5>1. \A i \in 1 .. m - 1 : i + 1 \in 1 .. m /\ i \in 1 .. Len(frontier) - 1
          BY <2>4
        <5> QED BY <2>1, <2>2, <2>4, <5>1 DEF Front
      <4>3. \A i \in m .. Len(frontier') : frontier'[i] \notin Ball[h]
        <5>1. \A i \in m .. Len(frontier') : i + 1 \in m + 1 .. Len(frontier)
                                             /\ i \in 1 .. Len(frontier) - 1
          BY <2>1, <2>4, <3>1
        <5> QED BY <2>1, <2>2, <2>4, <5>1 DEF Front
      <4>4. ASSUME NEW n \in visited \ Ball[h]
            PROVE  \E i \in m .. Len(frontier') : frontier'[i] = n
        <5>1. PICK i \in m + 1 .. Len(frontier) : frontier[i] = n
          BY <2>2 DEF Front
        <5>2. i - 1 \in m .. Len(frontier') /\ i - 1 \in 1 .. Len(frontier) - 1 /\ (i - 1) + 1 = i
          BY <2>1, <2>4, <3>1
        <5>3. frontier'[i - 1] = n
          BY <2>1, <2>4, <5>1, <5>2
        <5> QED BY <5>2, <5>3
      <4>5. at' \in Ball[h]
        BY <2>1, <2>2, <2>4, <3>1 DEF Front
      <4>6. Front(h, m - 1)'
        BY <2>1, <2>2, <4>1, <4>2, <4>3, <4>4, <4>5, Same DEF Front
      <4> QED BY <4>1, <4>6
    <3>2. CASE m = 0
      <4>1. visited = Ball[h + 1]
        BY <1>2, <2>1, <2>2, <3>2, NextFront
      <4>2. visited \subseteq Ball[(h + 1) + 1]
        BY <2>3, <4>1, BallGrows
      <4>3. /\ \A i \in 1 .. Len(frontier') : frontier'[i] \in visited
            /\ at' \in visited
        <5>1. \A i \in 1 .. Len(frontier') : i \in 1 .. Len(frontier) - 1
                                             /\ i + 1 \in 1 .. Len(frontier)
          BY <2>1, <2>4
        <5>2. \A i \in 1 .. Len(frontier) : frontier[i] \in visited
          BY <2>3 DEF Row
        <5> QED BY <2>1, <2>4, <5>1, <5>2
      <4>4. Len(frontier') \in 0 .. Len(frontier') /\ Len(frontier') + 1 .. Len(frontier') = {}
        BY <2>1, <2>4
      <4>5. PICK j : j = Len(frontier')
        OBVIOUS
      <4>6. h + 1 \in Nat /\ j \in 0 .. Len(frontier')
        BY <4>4, <4>5
      <4>7. Front(h + 1, j)'
        BY <2>1, <4>1, <4>2, <4>3, <4>4, <4>5, Same DEF Front
      <4> QED BY <4>6, <4>7
    <3> QED BY <3>1, <3>2
  <2>6. Parents'
    BY <1>2, <2>1, ParentsSame DEF Walks
  <2>7. Walks'
    BY <2>5, <2>6 DEF Walks
  <2> QED BY <1>2, <2>1, <2>7 DEF WalksDone, Answered
<1> QED BY <1>1, <1>2 DEF Expand

LEMMA WalksDiscover ==
    ASSUME IInv, Typed, Walks, NEW step \in around, Discover(step)
    PROVE  Walks' /\ WalksDone'
<1>1. /\ pc = "path" /\ pc' = pc /\ around' \subseteq around /\ visited' = visited \cup {step[1]}
      /\ frontier' = (IF step[1] \in visited THEN frontier ELSE Append(frontier, step[1]))
      /\ UNCHANGED <<edges, query, at>>
  BY DEF Discover, Turn
<1>2. CASE Turned
  BY <1>1, <1>2, Same DEF Walks, WalksDone, Answered
<1>3. CASE ~Turned
  <2>1. PICK h \in Nat, m \in 0 .. Len(frontier) : Front(h, m)
    BY <1>1, <1>3 DEF Walks
  <2>2. /\ frontier \in Seq(Node) /\ query.seed \in Node /\ edges \subseteq Edge
        /\ query.seed \in visited /\ at \in visited /\ step \in Around(at)
    BY <1>1, SeedKnown DEF IInv, Shape, Queued, Walking
  <2>3. step[1] \in Node
    BY <2>2, AroundInGraph DEF IInv
  <2>4. step[2] \in Rewound /\ step[1] \in Steps(at, step[2])
    BY <1>3, <2>2, AroundSteps DEF IInv
  <2>5. at \in Ball[h] /\ step[1] \in Ball[h + 1]
    <3>1. at \in Ball[h]
      BY <2>1 DEF Front
    <3>2. step[1] \in Neighbourhood(Ball[h])
      BY <2>4, <3>1 DEF Neighbourhood
    <3> QED BY <2>2, <3>1, <3>2, BallFacts
  <2>6. CASE step[1] \in visited
    <3>1. UNCHANGED <<visited, frontier, prev>>
      BY <1>1, <2>6 DEF Discover
    <3>2. Front(h, m)'
      BY <1>1, <2>1, <3>1, Same DEF Front
    <3>3. Parents'
      BY <1>1, <1>3, <3>1, ParentsSame DEF Walks
    <3>4. \E k \in Nat : \E j \in 0 .. Len(frontier') : Front(k, j)'
      BY <3>1, <3>2
    <3>5. Walks'
      BY <3>3, <3>4 DEF Walks
    <3> QED BY <1>1, <3>5 DEF WalksDone, Answered
  <2>7. CASE step[1] \notin visited
    <3>1. /\ frontier' = Append(frontier, step[1])
          /\ prev' = [n \in DOMAIN prev \cup {step[1]} |->
                        IF n = step[1] THEN [parent |-> at, edge |-> step[2]] ELSE prev[n]]
      BY <1>1, <2>7 DEF Discover
    <3>2. /\ Len(frontier) \in Nat /\ Len(frontier') = Len(frontier) + 1
          /\ \A i \in 1 .. Len(frontier) : frontier'[i] = frontier[i]
          /\ frontier'[Len(frontier) + 1] = step[1]
      BY <2>2, <2>3, <3>1
    <3>3. step[1] \notin Ball[h]
      BY <2>1, <2>7 DEF Front
    <3>4. m \in 0 .. Len(frontier') /\ \A i \in 1 .. m : i \in 1 .. Len(frontier)
      BY <3>2
    <3>5. \A i \in m + 1 .. Len(frontier') :
             (i \in m + 1 .. Len(frontier) /\ i \in 1 .. Len(frontier)) \/ i = Len(frontier) + 1
      BY <3>2
    <3>6. ASSUME NEW n \in visited' \ Ball[h]
          PROVE  \E i \in m + 1 .. Len(frontier') : frontier'[i] = n
      <4>1. CASE n = step[1]
        <5>1. Len(frontier) + 1 \in m + 1 .. Len(frontier')
          BY <3>2
        <5> QED BY <3>2, <4>1, <5>1
      <4>2. CASE n # step[1]
        <5>1. PICK i \in m + 1 .. Len(frontier) : frontier[i] = n
          BY <1>1, <2>1, <4>2 DEF Front
        <5>2. i \in m + 1 .. Len(frontier') /\ i \in 1 .. Len(frontier)
          BY <3>2
        <5> QED BY <3>2, <5>1, <5>2
      <4> QED BY <4>1, <4>2
    <3>7. /\ \A i \in 1 .. m : frontier'[i] \in Ball[h]
          /\ \A i \in m + 1 .. Len(frontier') : frontier'[i] \notin Ball[h]
      BY <2>1, <3>2, <3>3, <3>4, <3>5 DEF Front
    <3>8. Front(h, m)'
      BY <1>1, <2>1, <2>5, <3>6, <3>7, Same DEF Front
    <3>9. \A k \in Nat : step[1] \in Ball[k + 1] => at \in Ball[k]
      <4> SUFFICES ASSUME NEW k \in Nat, step[1] \in Ball[k + 1] PROVE at \in Ball[k]
        OBVIOUS
      <4>1. ~(k + 1 <= h)
        BY <2>2, <3>3, BallGrows
      <4>2. h <= k
        BY <4>1
      <4> QED BY <2>2, <2>5, <4>2, BallGrows
    <3>10. Parents'
      <4>1. ASSUME NEW x \in visited \ {query.seed} PROVE ParentOf(x)'
        <5>1. ParentOf(x)
          BY <1>1, <1>3 DEF Walks, Parents
        <5>2. x \in DOMAIN prev' /\ prev'[x] = prev[x]
          BY <2>7, <3>1, <5>1 DEF ParentOf
        <5> QED BY <1>1, <5>1, <5>2, Same DEF ParentOf
      <4>2. ParentOf(step[1])'
        <5>1. PICK x : x = step[1]
          OBVIOUS
        <5>2. x \in DOMAIN prev' /\ prev'[x] = [parent |-> at, edge |-> step[2]]
          BY <3>1, <5>1
        <5>3. prev'[x].parent = at /\ prev'[x].edge = step[2]
          BY <5>2
        <5>4. ParentOf(x)'
          BY <1>1, <2>2, <2>4, <3>9, <5>1, <5>2, <5>3, Same DEF ParentOf
        <5> QED BY <5>1, <5>4
      <4> QED BY <1>1, <4>1, <4>2 DEF Parents
    <3>11. \E k \in Nat : \E j \in 0 .. Len(frontier') : Front(k, j)'
      BY <3>4, <3>8
    <3>12. Walks'
      BY <3>10, <3>11 DEF Walks
    <3> QED BY <1>1, <3>12 DEF WalksDone, Answered
  <2> QED BY <2>6, <2>7
<1> QED BY <1>2, <1>3

LEMMA WalksEnd == ASSUME IInv, Typed, Walks, EndPath PROVE Walks' /\ WalksDone'
<1>1. pc = "path" /\ pc' = "done" /\ UNCHANGED <<edges, query, visited, prev>>
  BY DEF EndPath
<1>2. ~Turned => Parents' /\ query.seed \in visited
  BY <1>1, ParentsSame DEF Walks, IInv, Queued, Walking
<1> QED BY <1>1, <1>2, Same DEF Walks, WalksDone

LEMMA WalksNext ==
    ASSUME IInv, Typed, Walks, WalksDone, [Next]_vars, IInv', Typed'
    PROVE  Walks' /\ WalksDone'
<1>1. CASE UNCHANGED vars
  <2>1. /\ UNCHANGED <<edges, pc, query, frontier, at, around, visited, prev>>
        /\ (Answered' <=> Answered)
    BY <1>1 DEF vars, Answered
  <2>2. \A h, m : Front(h, m)' <=> Front(h, m)
    BY <2>1, Same DEF Front
  <2>3. Parents => Parents'
    BY <2>1, ParentsSame
  <2> QED BY <2>1, <2>2, <2>3, Same DEF Walks, WalksDone
<1>2. ASSUME NEW id \in Asked, NEW n \in HopInput, NEW time \in TimeInput, NEW names, NEW dir,
             Neighbors(id, n, time, names, dir)
      PROVE  Walks' /\ WalksDone'
  <2>1. query'.target = Missing /\ pc' # "path"
    BY <1>2 DEF Neighbors, SearchFrom
  <2> QED BY <2>1, MissingAssumption DEF Walks, WalksDone
<1>3. ASSUME NEW id \in Asked, NEW dst \in Asked, NEW time \in TimeInput, NEW dir,
             Path(id, dst, time, dir)
      PROVE  Walks' /\ WalksDone'
  BY <1>3, WalksStart DEF IInv
<1>4. CASE pc \in {"idle", "components"} /\ pc' \in {"components", "done"} /\ UNCHANGED query
  <2>1. query'.seed \notin Node
    BY <1>4, MissingAssumption DEF IInv, Shape, NoQuery
  <2> QED BY <1>4, <2>1 DEF Walks, WalksDone, Answered
<1>5. CASE pc = "k_hop" /\ pc' \in {"k_hop", "done"} /\ UNCHANGED query
  <2>1. query'.target = Missing
    BY <1>5 DEF IInv, Shape
  <2> QED BY <1>5, <2>1, MissingAssumption DEF Walks, WalksDone
<1>6. CASE Components
  BY <1>4, <1>6 DEF Components
<1>7. ASSUME NEW step \in around, Collect(step) \/ Discover(step) \/ Join(step)
      PROVE  Walks' /\ WalksDone'
  <2>1. CASE Collect(step)
    BY <1>5, <2>1 DEF Collect
  <2>2. CASE Discover(step)
    BY <2>2, WalksDiscover
  <2>3. CASE Join(step)
    BY <1>4, <2>3 DEF Join
  <2> QED BY <1>7, <2>1, <2>2, <2>3
<1>8. ASSUME NEW u \in Node, NextSource(u) PROVE Walks' /\ WalksDone'
  BY <1>4, <1>8 DEF NextSource
<1>9. CASE EndComponents
  BY <1>4, <1>9 DEF EndComponents
<1>10. CASE NextLevel
  BY <1>5, <1>10 DEF NextLevel
<1>11. CASE EnoughHops
  BY <1>5, <1>11 DEF EnoughHops, Enough
<1>12. CASE SearchStep
  BY <1>7, <1>8, <1>9, <1>10, <1>11, <1>12, WalksExpand, WalksEnd DEF SearchStep
<1> QED BY <1>1, <1>2, <1>3, <1>6, <1>12 DEF Next

LEMMA WalksInit == Init => Walks /\ WalksDone
BY DEF Init, Walks, WalksDone, Answered

-----------------------------------------------------------------------------
(***************************************************************************)
(* The path that is reconstructed                                          *)
(***************************************************************************)
IsEnds(W, r) ==
    W = [i \in 0 .. Len(r) |-> IF i = 0 THEN {query.seed}
                               ELSE UNION {Steps(u, r[i]) : u \in W[i - 1]}]
Ends(r) == CHOOSE W : IsEnds(W, r)

LEMMA EndsAre ==
    ASSUME edges \subseteq Edge, query.seed \in Node, NEW r \in Seq(Rewound)
    PROVE  /\ EndsOf(r) = Ends(r)[Len(r)]
           /\ Ends(r)[0] = {query.seed}
           /\ \A i \in 0 .. Len(r) - 1 :
                 Ends(r)[i + 1] = UNION {Steps(u, r[i + 1]) : u \in Ends(r)[i]}
<1> DEFINE step == [p \in Nat \X SUBSET Node |->
                       IF p[1] + 1 \in 1 .. Len(r)
                       THEN UNION {Steps(u, r[p[1] + 1]) : u \in p[2]} ELSE {}]
<1>1. \A e \in Rewound : e \in edges /\ e.src \in Node /\ e.dst \in Node
  BY EdgeAssumption DEF Rewound
<1>2. \A e \in Rewound : \A u : Steps(u, e) \subseteq Node
  BY <1>1 DEF Steps
<1>3. Len(r) \in Nat /\ \A i \in 1 .. Len(r) : r[i] \in Rewound
  OBVIOUS
<1>4. step \in [Nat \X SUBSET Node -> SUBSET Node]
  <2>1. ASSUME NEW p \in Nat \X SUBSET Node
        PROVE  (IF p[1] + 1 \in 1 .. Len(r)
                THEN UNION {Steps(u, r[p[1] + 1]) : u \in p[2]} ELSE {}) \in SUBSET Node
    BY <1>2, <1>3
  <2> QED BY <2>1
<1>5. \A k \in 0 .. Len(r) - 1 : \A S \in SUBSET Node :
         step[<<k, S>>] = UNION {Steps(u, r[k + 1]) : u \in S}
  <2> TAKE k \in 0 .. Len(r) - 1
  <2> TAKE S \in SUBSET Node
  <2>1. <<k, S>> \in Nat \X SUBSET Node /\ k + 1 \in 1 .. Len(r)
    BY <1>3
  <2> QED BY <2>1
<1> HIDE DEF step
<1>6. PICK f : Recurs(f, SUBSET Node, {query.seed}, step)
  <2>1. {query.seed} \in SUBSET Node
    OBVIOUS
  <2> QED BY <1>4, <2>1, RecursionExists
<1>7. \E W : IsEnds(W, r)
  <2> DEFINE g == [i \in 0 .. Len(r) |-> f[i]]
             h == [i \in 0 .. Len(r) |-> IF i = 0 THEN {query.seed}
                                         ELSE UNION {Steps(u, r[i]) : u \in g[i - 1]}]
  <2>1. ASSUME NEW i \in 0 .. Len(r) PROVE g[i] = h[i]
    <3>1. CASE i = 0
      BY <1>6, <3>1 DEF Recurs
    <3>2. CASE i # 0
      <4>1. /\ i - 1 \in 0 .. Len(r) /\ i - 1 \in 0 .. Len(r) - 1 /\ i - 1 \in Nat
            /\ (i - 1) + 1 = i
        BY <1>3, <3>2
      <4>2. f[(i - 1) + 1] = step[<<i - 1, f[i - 1]>>] /\ f[i - 1] \in SUBSET Node
        BY <1>6, <4>1 DEF Recurs
      <4>3. step[<<i - 1, f[i - 1]>>] = UNION {Steps(u, r[(i - 1) + 1]) : u \in f[i - 1]}
        BY <1>5, <4>1, <4>2
      <4>4. g[i - 1] = f[i - 1] /\ g[i] = f[i]
        BY <4>1
      <4>5. h[i] = UNION {Steps(u, r[i]) : u \in g[i - 1]}
        BY <3>2
      <4> HIDE DEF g, h
      <4> QED BY <4>1, <4>2, <4>3, <4>4, <4>5
    <3> QED BY <3>1, <3>2
  <2>2. g = h
    BY <2>1
  <2> QED BY <2>2 DEF IsEnds
<1> DEFINE W == Ends(r)
<1>8. IsEnds(W, r)
  BY <1>7 DEF Ends
<1>9. EndsOf(r) = W[Len(r)]
  BY DEF EndsOf, Ends, IsEnds
<1> HIDE DEF W
<1>10. \A i \in 0 .. Len(r) : W[i] = IF i = 0 THEN {query.seed}
                                    ELSE UNION {Steps(u, r[i]) : u \in W[i - 1]}
  <2> DEFINE h == [i \in 0 .. Len(r) |-> IF i = 0 THEN {query.seed}
                                         ELSE UNION {Steps(u, r[i]) : u \in W[i - 1]}]
  <2>1. W = h
    BY <1>8 DEF IsEnds
  <2>2. \A i \in 0 .. Len(r) : h[i] = IF i = 0 THEN {query.seed}
                                    ELSE UNION {Steps(u, r[i]) : u \in W[i - 1]}
    OBVIOUS
  <2> HIDE DEF h
  <2> QED BY <2>1, <2>2
<1>11. W[0] = {query.seed}
  <2>1. 0 \in 0 .. Len(r)
    BY <1>3
  <2> QED BY <1>10, <2>1
<1>12. ASSUME NEW i \in 0 .. Len(r) - 1
       PROVE  W[i + 1] = UNION {Steps(u, r[i + 1]) : u \in W[i]}
  <2>1. i + 1 \in 0 .. Len(r) /\ i + 1 # 0 /\ (i + 1) - 1 = i
    BY <1>3
  <2> QED BY <1>10, <2>1
<1> QED BY <1>9, <1>11, <1>12 DEF W

LEMMA EndsEmpty ==
    ASSUME edges \subseteq Edge, query.seed \in Node PROVE EndsOf(<< >>) = {query.seed}
<1>1. << >> \in Seq(Rewound) /\ Len(<< >>) = 0
  OBVIOUS
<1> QED BY <1>1, EndsAre

LEMMA EndsAppend ==
    ASSUME edges \subseteq Edge, query.seed \in Node, NEW r \in Seq(Rewound), NEW e \in Rewound
    PROVE  EndsOf(Append(r, e)) = UNION {Steps(u, e) : u \in EndsOf(r)}
<1> DEFINE s == Append(r, e)
           V == Ends(r)
           W == Ends(s)
           T == {i \in Nat : i <= Len(r) => V[i] = W[i]}
<1>1. /\ s \in Seq(Rewound) /\ Len(r) \in Nat /\ Len(s) = Len(r) + 1 /\ s[Len(r) + 1] = e
      /\ \A i \in 1 .. Len(r) : s[i] = r[i]
  OBVIOUS
<1> HIDE DEF s
<1>2. /\ EndsOf(r) = V[Len(r)] /\ V[0] = {query.seed}
      /\ \A i \in 0 .. Len(r) - 1 : V[i + 1] = UNION {Steps(u, r[i + 1]) : u \in V[i]}
  BY EndsAre
<1>3. /\ EndsOf(s) = W[Len(s)] /\ W[0] = {query.seed}
      /\ \A i \in 0 .. Len(s) - 1 : W[i + 1] = UNION {Steps(u, s[i + 1]) : u \in W[i]}
  BY <1>1, EndsAre
<1> HIDE DEF V, W
<1>4. 0 \in T
  BY <1>2, <1>3
<1>5. ASSUME NEW i \in T PROVE i + 1 \in T
  <2> SUFFICES ASSUME i + 1 <= Len(r) PROVE V[i + 1] = W[i + 1]
    OBVIOUS
  <2>1. i \in 0 .. Len(r) - 1 /\ i \in 0 .. Len(s) - 1 /\ i + 1 \in 1 .. Len(r) /\ V[i] = W[i]
    BY <1>1
  <2>2. s[i + 1] = r[i + 1]
    BY <1>1, <2>1
  <2>3. V[i + 1] = UNION {Steps(u, r[i + 1]) : u \in V[i]}
    BY <1>2, <2>1
  <2>4. W[i + 1] = UNION {Steps(u, s[i + 1]) : u \in W[i]}
    BY <1>3, <2>1
  <2> QED BY <2>1, <2>2, <2>3, <2>4
<1>6. T = Nat
  <2>1. T \in SUBSET Nat
    OBVIOUS
  <2> HIDE DEF T
  <2> QED BY <1>4, <1>5, <2>1, AllNat
<1>7. V[Len(r)] = W[Len(r)] /\ Len(r) \in 0 .. Len(s) - 1
  BY <1>1, <1>6
<1> QED BY <1>1, <1>2, <1>3, <1>7 DEF s

-----------------------------------------------------------------------------
Known ==
    /\ IInv /\ query.seed \in Node /\ query.seed \in visited /\ Parents
    /\ visited \subseteq Ball[Cardinality(Node)]

IsRoutes(R) ==
    R = [x \in visited |-> IF x = query.seed THEN << >>
                           ELSE Append(R[prev[x].parent], prev[x].edge)]
Routes == CHOOSE R : IsRoutes(R)

LEMMA RouteIs == \A x : RouteTo(x) = Routes[x]
BY DEF RouteTo, Routes, IsRoutes

\* The recursion is well founded: as many turns as there are nodes do.
LEMMA RoutesAre ==
    ASSUME Known
    PROVE  /\ Routes[query.seed] = << >>
           /\ \A x \in visited \ {query.seed} :
                 Routes[x] = Append(Routes[prev[x].parent], prev[x].edge)
<1> DEFINE N == Cardinality(Node)
           S == [visited -> Seq(Rewound)]
           base == [x \in visited |-> << >>]
           turn(R) == [x \in visited |-> IF x = query.seed THEN << >>
                                         ELSE Append(R[prev[x].parent], prev[x].edge)]
           step == [p \in Nat \X S |-> turn(p[2])]
<1>1. edges \subseteq Edge /\ N \in Nat
  BY NodeCount DEF Known, IInv, Shape
<1>2. \A x \in visited \ {query.seed} : prev[x].parent \in visited /\ prev[x].edge \in Rewound
  BY DEF Known, Parents, ParentOf
<1>3. base \in S
  OBVIOUS
<1>4. \A R \in S : turn(R) \in S
  <2> TAKE R \in S
  <2>1. ASSUME NEW x \in visited
        PROVE  (IF x = query.seed THEN << >> ELSE Append(R[prev[x].parent], prev[x].edge))
                  \in Seq(Rewound)
    BY <1>2
  <2> QED BY <2>1
<1>5. \A R : /\ DOMAIN turn(R) = visited
             /\ query.seed \in visited => turn(R)[query.seed] = << >>
             /\ \A x \in visited \ {query.seed} :
                   turn(R)[x] = Append(R[prev[x].parent], prev[x].edge)
             /\ turn(R) = [x \in visited |-> turn(R)[x]]
  OBVIOUS
<1> HIDE DEF turn, S
<1>6. step \in [Nat \X S -> S] /\ \A k \in Nat, R \in S : step[<<k, R>>] = turn(R)
  BY <1>4
<1> HIDE DEF step, base
<1>7. PICK F : Recurs(F, S, base, step)
  BY <1>3, <1>6, RecursionExists
<1>8. /\ \A k \in Nat : F[k] \in S /\ F[k + 1] = turn(F[k])
      /\ F[0] = base
  BY <1>6, <1>7 DEF Recurs
<1>9. \A k \in Nat : F[k][query.seed] = << >>
  <2>1. F[0][query.seed] = << >>
    BY <1>8 DEF base, Known
  <2>2. ASSUME NEW k \in Nat, k # 0 PROVE F[k][query.seed] = << >>
    <3>1. k - 1 \in Nat /\ (k - 1) + 1 = k
      BY <2>2
    <3>2. F[k] = turn(F[k - 1])
      BY <1>8, <3>1
    <3> QED BY <1>5, <3>2 DEF Known
  <2> QED BY <2>1, <2>2
<1> DEFINE T == {k \in Nat : \A j \in Nat : j >= k =>
                     \A x \in visited \cap Ball[k] : F[j + 1][x] = F[j][x]}
<1>10. 0 \in T
  <2>1. Ball[0] = {query.seed}
    BY <1>1, BallFacts DEF Known
  <2>2. ASSUME NEW j \in Nat PROVE F[j + 1][query.seed] = F[j][query.seed]
    BY <1>9
  <2> QED BY <2>1, <2>2
<1>11. ASSUME NEW k \in T PROVE k + 1 \in T
  <2> SUFFICES ASSUME NEW j \in Nat, j >= k + 1, NEW x \in visited \cap Ball[k + 1]
               PROVE  F[j + 1][x] = F[j][x]
    OBVIOUS
  <2>1. CASE x = query.seed
    BY <1>9, <2>1
  <2>2. CASE x # query.seed
    <3>1. j - 1 \in Nat /\ j - 1 >= k /\ (j - 1) + 1 = j
      OBVIOUS
    <3>2. prev[x].parent \in visited \cap Ball[k]
      BY <2>2 DEF Known, Parents, ParentOf
    <3>3. F[(j - 1) + 1][prev[x].parent] = F[j - 1][prev[x].parent]
      BY <3>1, <3>2
    <3>4. F[j + 1] = turn(F[j]) /\ F[j] = turn(F[j - 1])
      BY <1>8, <3>1
    <3>5. /\ F[j + 1][x] = Append(F[j][prev[x].parent], prev[x].edge)
          /\ F[j][x] = Append(F[j - 1][prev[x].parent], prev[x].edge)
      <4>1. \A R : turn(R)[x] = Append(R[prev[x].parent], prev[x].edge)
        BY <1>5, <2>2
      <4> QED BY <3>4, <4>1
    <3> QED BY <3>1, <3>3, <3>5
  <2> QED BY <2>1, <2>2
<1>12. T = Nat
  <2>1. T \in SUBSET Nat
    OBVIOUS
  <2> HIDE DEF T
  <2> QED BY <1>10, <1>11, <2>1, AllNat
<1>13. \A x \in visited : F[N + 1][x] = F[N][x]
  BY <1>1, <1>12 DEF Known
<1>14. turn(F[N]) = F[N]
  <2>1. F[N + 1] = turn(F[N]) /\ F[N] \in S /\ F[N + 1] \in S
    BY <1>1, <1>8
  <2> QED BY <1>13, <2>1 DEF S
<1>15. IsRoutes(F[N])
  BY <1>14 DEF IsRoutes, turn
<1>16. IsRoutes(Routes)
  BY <1>15 DEF Routes
<1>17. Routes = turn(Routes)
  BY <1>16 DEF IsRoutes, turn
<1>18. /\ turn(Routes)[query.seed] = << >>
       /\ \A x \in visited \ {query.seed} :
             turn(Routes)[x] = Append(Routes[prev[x].parent], prev[x].edge)
  BY <1>5 DEF Known
<1> QED BY <1>17, <1>18

\* It is of the rewound graph, leads from the seed to x, and has as many edges as x
\* has hops to the seed.
Good(x) ==
    /\ Routes[x] \in Seq(Rewound)
    /\ x \in EndsOf(Routes[x])
    /\ x \in Ball[Len(Routes[x])]
    /\ Len(Routes[x]) > 0 => x \notin Ball[Len(Routes[x]) - 1]

LEMMA RoutesGood == ASSUME Known PROVE \A x \in visited : Good(x)
<1> DEFINE N == Cardinality(Node)
           T == {k \in Nat : \A x \in visited \cap Ball[k] : Good(x)}
<1>1. edges \subseteq Edge /\ query.seed \in Node /\ N \in Nat
  BY NodeCount DEF Known, IInv, Shape
<1>2. Good(query.seed)
  <2>1. Routes[query.seed] = << >>
    BY RoutesAre
  <2>2. << >> \in Seq(Rewound) /\ Len(<< >>) = 0
    OBVIOUS
  <2>3. query.seed \in EndsOf(<< >>) /\ query.seed \in Ball[0]
    BY <1>1, EndsEmpty, BallFacts
  <2> QED BY <2>1, <2>2, <2>3 DEF Good
<1>3. 0 \in T
  BY <1>1, <1>2, BallFacts
<1>4. ASSUME NEW k \in T PROVE k + 1 \in T
  <2> SUFFICES ASSUME NEW x \in visited \cap Ball[k + 1], x # query.seed PROVE Good(x)
    BY <1>2
  <2> DEFINE p == prev[x].parent
             e == prev[x].edge
             L == Len(Routes[p])
  <2>1. ParentOf(x)
    BY DEF Known, Parents
  <2>2. /\ p \in visited \cap Ball[k] /\ e \in Rewound /\ x \in Steps(p, e)
        /\ \A j \in Nat : x \in Ball[j + 1] => p \in Ball[j]
    BY <2>1 DEF ParentOf
  <2>3. Good(p)
    BY <2>2
  <2>4. Routes[x] = Append(Routes[p], e)
    BY RoutesAre
  <2>5. /\ Routes[p] \in Seq(Rewound) /\ p \in EndsOf(Routes[p]) /\ p \in Ball[L]
        /\ L > 0 => p \notin Ball[L - 1]
    BY <2>3 DEF Good
  <2> HIDE DEF p, e
  <2>6. Routes[x] \in Seq(Rewound) /\ Len(Routes[x]) = L + 1 /\ L \in Nat
    BY <2>2, <2>4, <2>5
  <2>7. x \in EndsOf(Routes[x])
    <3>1. EndsOf(Append(Routes[p], e)) = UNION {Steps(u, e) : u \in EndsOf(Routes[p])}
      BY <1>1, <2>2, <2>5, EndsAppend
    <3> QED BY <2>2, <2>4, <2>5, <3>1
  <2> HIDE DEF L
  <2>8. x \in Ball[L + 1]
    <3>1. x \in Neighbourhood(Ball[L])
      BY <2>2, <2>5 DEF Neighbourhood
    <3> QED BY <1>1, <2>6, <3>1, BallFacts
  <2>9. x \notin Ball[L]
    <3>1. CASE L = 0
      BY <1>1, <3>1, BallFacts
    <3>2. CASE L # 0
      <4>1. L - 1 \in Nat /\ (L - 1) + 1 = L
        BY <2>6, <3>2
      <4> QED BY <2>2, <2>5, <2>6, <3>2, <4>1
    <3> QED BY <3>1, <3>2
  <2>10. (L + 1) - 1 = L
    BY <2>6
  <2> QED BY <2>6, <2>7, <2>8, <2>9, <2>10 DEF Good
<1>5. T = Nat
  <2>1. T \in SUBSET Nat
    OBVIOUS
  <2> HIDE DEF T
  <2> QED BY <1>3, <1>4, <2>1, AllNat
<1> QED BY <1>1, <1>5 DEF Known

LEMMA DistanceIs ==
    ASSUME Known, NEW x \in visited PROVE Len(Routes[x]) = Distance(x)
<1> DEFINE N == Cardinality(Node)
           L == Len(Routes[x])
           P(h) == x \in Ball[h] /\ (h > 0 => x \notin Ball[h - 1])
<1>1. edges \subseteq Edge /\ query.seed \in Node /\ N \in Nat /\ x \in Ball[N]
  BY NodeCount DEF Known, IInv, Shape
<1>2. L \in Nat /\ P(L)
  BY RoutesGood DEF Good
<1> HIDE DEF L
<1>3. L \in 0 .. N
  <2>1. CASE L = 0
    BY <1>1, <2>1
  <2>2. CASE L # 0
    <3>1. L - 1 \in Nat /\ x \notin Ball[L - 1]
      BY <1>2, <2>2
    <3>2. ~(N <= L - 1)
      BY <1>1, <3>1, BallGrows
    <3> QED BY <1>1, <1>2, <3>2
  <2> QED BY <2>1, <2>2
<1>4. ASSUME NEW h \in 0 .. N, P(h) PROVE h = L
  <2>1. ASSUME NEW i \in Nat, NEW j \in Nat, P(i), P(j) PROVE ~(i < j)
    <3> SUFFICES ASSUME i < j PROVE FALSE
      OBVIOUS
    <3>1. j - 1 \in Nat /\ i <= j - 1 /\ j > 0
      OBVIOUS
    <3>2. Ball[i] \subseteq Ball[j - 1]
      BY <1>1, <3>1, BallGrows
    <3> QED BY <2>1, <3>1, <3>2
  <2>2. ~(h < L) /\ ~(L < h)
    BY <1>2, <1>4, <2>1
  <2> QED BY <1>2, <2>2
<1>5. Distance(x) = CHOOSE h \in 0 .. N : P(h)
  BY DEF Distance
<1> HIDE DEF P
<1> QED BY <1>2, <1>3, <1>4, <1>5 DEF L

-----------------------------------------------------------------------------
\* Nothing is beyond the last ball, and it lies in all that is closed.
LEMMA LastBall ==
    ASSUME edges \subseteq Edge, query.seed \in Node
    PROVE  /\ Reaches(Reachable) /\ Reachable \in SUBSET Node
           /\ \A S : Reaches(S) => Reachable \subseteq S
<1> DEFINE N == Cardinality(Node)
<1>1. N \in Nat /\ Reachable = Ball[N]
  BY NodeCount DEF Reachable
<1>2. Reaches(Ball[N])
  <2>1. query.seed \in Ball[N]
    BY <1>1, BallFacts, BallGrows
  <2>2. Neighbourhood(Ball[N]) = Ball[N + 1]
    BY <1>1, BallFacts
  <2>3. Ball[N + 1] \subseteq Ball[N]
    BY <1>1, BallAll
  <2> QED BY <2>1, <2>2, <2>3 DEF Reaches
<1>3. ASSUME NEW S, Reaches(S) PROVE Ball[N] \subseteq S
  <2> DEFINE T == {k \in Nat : Ball[k] \subseteq S}
  <2>1. 0 \in T
    BY <1>3, BallFacts DEF Reaches
  <2>2. ASSUME NEW k \in T PROVE k + 1 \in T
    <3>1. Neighbourhood(Ball[k]) \subseteq Neighbourhood(S)
      BY DEF Neighbourhood
    <3> QED BY <1>3, <3>1, BallFacts DEF Reaches
  <2>3. T = Nat
    <3>1. T \in SUBSET Nat
      OBVIOUS
    <3> HIDE DEF T
    <3> QED BY <2>1, <2>2, <3>1, AllNat
  <2> QED BY <1>1, <2>3
<1>4. Ball[N] \in SUBSET Node
  BY <1>1, BallFacts
<1> QED BY <1>1, <1>2, <1>3, <1>4

LEMMA WalksAre == ASSUME IInv, WalksDone PROVE PathShortest
<1> SUFFICES ASSUME pc = "done", query.target \in Node, query.seed \in Node, ~Turned
             PROVE  /\ query.target \in visited <=> query.target \in Reachable
                    /\ query.target \in visited =>
                         LET r == RouteTo(query.target) IN
                         /\ Len(r) = Distance(query.target)
                         /\ \A i \in DOMAIN r : r[i] \in Rewound
                         /\ query.target \in EndsOf(r)
  BY DEF PathShortest
<1>1. Shape /\ Answered /\ edges \subseteq Edge /\ query.opts.time[1] <= query.opts.time[2]
  BY DEF IInv, Shape, Answered, Turned
<1>2. visited \subseteq Reachable
  <2>1. Closed(Reachable)
    BY <1>1, LastBall, ClosedIsReaches
  <2> QED BY <1>1, <2>1 DEF IInv, Within
<1>3. ASSUME query.target \in Reachable PROVE query.target \in visited
  <2> SUFFICES ASSUME query.target \notin visited PROVE FALSE
    OBVIOUS
  <2>1. Closed(visited)
    BY <1>1 DEF IInv, PathEnded, Exhausted
  <2>2. Reaches(visited)
    BY <1>1, <2>1, ClosedIsReaches DEF Shape
  <2> QED BY <1>1, <1>3, <2>2, LastBall
<1>4. ASSUME query.target \in visited
      PROVE  LET r == RouteTo(query.target) IN
             /\ Len(r) = Distance(query.target)
             /\ \A i \in DOMAIN r : r[i] \in Rewound
             /\ query.target \in EndsOf(r)
  <2>1. query.seed \in visited
    BY <1>1, <1>4 DEF WalksDone
  <2>2. Known
    BY <1>1, <1>2, <2>1 DEF Known, WalksDone, Reachable
  <2>3. Good(query.target) /\ Len(Routes[query.target]) = Distance(query.target)
    BY <1>4, <2>2, RoutesGood, DistanceIs
  <2> QED BY <2>3, RouteIs DEF Good
<1> QED BY <1>2, <1>3, <1>4

-----------------------------------------------------------------------------
(***************************************************************************)
(* Components: the union-find forest                                       *)
(***************************************************************************)
\* A forest: rank falls on the way up.
Ranked(p, rank) ==
    /\ p \in [Node -> Node] /\ rank \in [Node -> Nat]
    /\ \A n \in Node : p[n] # n => rank[p[n]] < rank[n]

\* As many steps up as there are nodes end at a root: the nodes passed differ.
LEMMA RootFixed ==
    ASSUME NEW p, NEW rank, Ranked(p, rank), NEW n \in Node
    PROVE  Root(p, n) \in Node /\ p[Root(p, n)] = Root(p, n)
<1> DEFINE N == Cardinality(Node)
           up == Above(p, n)
<1>1. N \in Nat /\ \A S \in SUBSET Node : IsFiniteSet(S) /\ Cardinality(S) \in Nat
                                          /\ Cardinality(S) <= N
  BY NodeAssumption, FS_Subset, FS_CardinalityType
<1>2. /\ \A k \in 0 .. N : up[k] \in Node
      /\ up[0] = n /\ \A k \in 0 .. N - 1 : up[k + 1] = p[up[k]]
  <2>1. p \in [Node -> Node]
    BY DEF Ranked
  <2>2. /\ up \in [0 .. N -> Node]
        /\ up[0] = n /\ \A k \in 0 .. N - 1 : up[k + 1] = p[up[k]]
    BY <2>1, AboveIs
  <2> HIDE DEF up, N
  <2> QED BY <2>2
<1>3. Root(p, n) = up[N]
  BY DEF Root
<1> HIDE DEF up, N
<1> SUFFICES ASSUME p[up[N]] # up[N] PROVE FALSE
  BY <1>1, <1>2, <1>3
<1>4. ASSUME NEW k \in 0 .. N PROVE p[up[k]] # up[k]
  <2> SUFFICES ASSUME p[up[k]] = up[k] PROVE FALSE
    OBVIOUS
  <2> DEFINE T == {j \in Nat : k <= j /\ j <= N => up[j] = up[k]}
  <2>1. 0 \in T
    BY <1>1
  <2>2. ASSUME NEW j \in T PROVE j + 1 \in T
    <3> SUFFICES ASSUME k <= j + 1, j + 1 <= N PROVE up[j + 1] = up[k]
      OBVIOUS
    <3>1. CASE k = j + 1
      BY <3>1
    <3>2. CASE k # j + 1
      <4>1. k <= j /\ j \in 0 .. N - 1
        BY <1>1, <3>2
      <4>2. up[j] = up[k] /\ up[j + 1] = p[up[j]]
        BY <1>1, <1>2, <4>1
      <4> QED BY <4>2
    <3> QED BY <3>1, <3>2
  <2>3. T = Nat
    <3>1. T \in SUBSET Nat
      OBVIOUS
    <3> HIDE DEF T
    <3> QED BY <2>1, <2>2, <3>1, AllNat
  <2>4. up[N] = up[k]
    BY <1>1, <2>3
  <2> QED BY <2>4
<1>5. \A k \in 0 .. N - 1 : rank[up[k + 1]] < rank[up[k]]
  BY <1>1, <1>2, <1>4 DEF Ranked
<1>6. \A k \in 0 .. N : rank[up[k]] \in Nat
  BY <1>2 DEF Ranked
<1> DEFINE T == {k \in Nat : k <= N => \A i \in 0 .. N : i < k => rank[up[k]] < rank[up[i]]}
<1>7. T = Nat
  <2>1. 0 \in T
    OBVIOUS
  <2>2. ASSUME NEW k \in T PROVE k + 1 \in T
    <3> SUFFICES ASSUME k + 1 <= N, NEW i \in 0 .. N, i < k + 1
                 PROVE  rank[up[k + 1]] < rank[up[i]]
      OBVIOUS
    <3>1. k \in 0 .. N - 1 /\ k \in 0 .. N /\ k + 1 \in 0 .. N
      BY <1>1
    <3>2. rank[up[k + 1]] < rank[up[k]]
      BY <1>5, <3>1
    <3>3. i = k \/ rank[up[k]] < rank[up[i]]
      BY <1>1, <3>1
    <3> QED BY <1>6, <3>1, <3>2, <3>3
  <2>3. T \in SUBSET Nat
    OBVIOUS
  <2> HIDE DEF T
  <2> QED BY <2>1, <2>2, <2>3, AllNat
<1>8. \A k \in 0 .. N, i \in 0 .. N : i < k => up[k] # up[i]
  BY <1>1, <1>6, <1>7
<1> DEFINE Passed(k) == {up[i] : i \in 0 .. k}
           U == {k \in Nat : k <= N => Cardinality(Passed(k)) = k + 1}
<1>9. 0 \in U
  <2>1. 0 .. 0 = {0}
    OBVIOUS
  <2>2. Passed(0) = {n}
    BY <1>2, <2>1
  <2>3. Cardinality({n}) = 1
    BY FS_Singleton
  <2> HIDE DEF Passed
  <2> QED BY <2>2, <2>3
<1>10. ASSUME NEW k \in U PROVE k + 1 \in U
  <2> SUFFICES ASSUME k + 1 <= N PROVE Cardinality(Passed(k + 1)) = (k + 1) + 1
    OBVIOUS
  <2>1. Cardinality(Passed(k)) = k + 1 /\ k \in 0 .. N /\ k + 1 \in 0 .. N
    BY <1>1
  <2>2. Passed(k + 1) = Passed(k) \cup {up[k + 1]}
    <3>1. 0 .. k + 1 = (0 .. k) \cup {k + 1}
      OBVIOUS
    <3> QED BY <3>1
  <2>3. up[k + 1] \notin Passed(k)
    BY <1>1, <1>8, <2>1
  <2>4. Passed(k) \in SUBSET Node
    BY <1>1, <1>2
  <2>5. IsFiniteSet(Passed(k))
    BY <1>1, <2>4
  <2> HIDE DEF Passed
  <2> QED BY <2>1, <2>2, <2>3, <2>5, FS_AddElement
<1>11. U = Nat
  <2>1. U \in SUBSET Nat
    OBVIOUS
  <2> HIDE DEF U
  <2> QED BY <1>9, <1>10, <2>1, AllNat
<1>12. Cardinality(Passed(N)) = N + 1
  <2>1. N \in U
    BY <1>1, <1>11
  <2> HIDE DEF Passed
  <2> QED BY <1>1, <2>1
<1>13. Passed(N) \in SUBSET Node
  BY <1>2
<1> HIDE DEF Passed
<1> QED BY <1>1, <1>12, <1>13

\* What does not change on the way up, and is the node itself at a root, is the root.
LEMMA RootIs ==
    ASSUME NEW p, NEW rank, Ranked(p, rank), NEW r,
           \A n \in Node : r[p[n]] = r[n], \A n \in Node : p[n] = n => r[n] = n,
           NEW n \in Node
    PROVE  Root(p, n) = r[n]
<1> DEFINE N == Cardinality(Node)
           up == Above(p, n)
           T == {k \in Nat : k <= N => r[up[k]] = r[n]}
<1>1. /\ N \in Nat /\ \A k \in 0 .. N : up[k] \in Node
      /\ up[0] = n /\ \A k \in 0 .. N - 1 : up[k + 1] = p[up[k]]
  <2>1. p \in [Node -> Node] /\ N \in Nat
    BY NodeCount DEF Ranked
  <2>2. /\ up \in [0 .. N -> Node]
        /\ up[0] = n /\ \A k \in 0 .. N - 1 : up[k + 1] = p[up[k]]
    BY <2>1, AboveIs
  <2> HIDE DEF up, N
  <2> QED BY <2>1, <2>2
<1>2. Root(p, n) = up[N]
  BY DEF Root
<1> HIDE DEF up, N
<1>3. 0 \in T
  BY <1>1
<1>4. ASSUME NEW k \in T PROVE k + 1 \in T
  <2> SUFFICES ASSUME k + 1 <= N PROVE r[up[k + 1]] = r[n]
    OBVIOUS
  <2>1. k \in 0 .. N - 1 /\ k \in 0 .. N /\ r[up[k]] = r[n]
    BY <1>1
  <2> QED BY <1>1, <2>1
<1>5. T = Nat
  <2>1. T \in SUBSET Nat
    OBVIOUS
  <2> HIDE DEF T
  <2> QED BY <1>3, <1>4, <2>1, AllNat
<1>6. r[up[N]] = r[n]
  BY <1>1, <1>5
<1> QED BY <1>2, <1>6, RootFixed

LEMMA RootUp ==
    ASSUME NEW p, NEW rank, Ranked(p, rank), NEW n \in Node
    PROVE  /\ Root(p, p[n]) = Root(p, n)
           /\ p[n] = n => Root(p, n) = n
           /\ Root(p, Root(p, n)) = Root(p, n)
<1> DEFINE N == Cardinality(Node)
<1>1. N \in Nat /\ p \in [Node -> Node]
  BY NodeCount DEF Ranked
<1>2. ASSUME NEW m \in Node PROVE Root(p, p[m]) = p[Root(p, m)]
  <2> DEFINE up == Above(p, m)
             vp == Above(p, p[m])
             T == {k \in Nat : k <= N => vp[k] = p[up[k]]}
  <2>1. /\ up[0] = m /\ \A k \in 0 .. N - 1 : up[k + 1] = p[up[k]]
        /\ vp[0] = p[m] /\ \A k \in 0 .. N - 1 : vp[k + 1] = p[vp[k]]
    BY <1>1, AboveIs
  <2>2. Root(p, p[m]) = vp[N] /\ Root(p, m) = up[N]
    BY DEF Root
  <2> HIDE DEF up, vp, N
  <2>3. 0 \in T
    BY <2>1
  <2>4. ASSUME NEW k \in T PROVE k + 1 \in T
    <3> SUFFICES ASSUME k + 1 <= N PROVE vp[k + 1] = p[up[k + 1]]
      OBVIOUS
    <3>1. k \in 0 .. N - 1 /\ vp[k] = p[up[k]]
      BY <1>1
    <3> QED BY <2>1, <3>1
  <2>5. T = Nat
    <3>1. T \in SUBSET Nat
      OBVIOUS
    <3> HIDE DEF T
    <3> QED BY <2>3, <2>4, <3>1, AllNat
  <2>6. vp[N] = p[up[N]]
    BY <1>1, <2>5
  <2> QED BY <2>2, <2>6
<1>3. \A m \in Node : Root(p, p[m]) = Root(p, m)
  BY <1>2, RootFixed
<1> DEFINE r == [m \in Node |-> Root(p, m)]
<1>4. ASSUME NEW m \in Node, p[m] = m PROVE Root(p, m) = m
  <2> DEFINE up == Above(p, m)
             T == {k \in Nat : k <= N => up[k] = m}
  <2>1. up[0] = m /\ \A k \in 0 .. N - 1 : up[k + 1] = p[up[k]]
    BY <1>1, AboveIs
  <2>2. Root(p, m) = up[N]
    BY DEF Root
  <2> HIDE DEF up, N
  <2>3. 0 \in T
    BY <2>1
  <2>4. ASSUME NEW k \in T PROVE k + 1 \in T
    <3> SUFFICES ASSUME k + 1 <= N PROVE up[k + 1] = m
      OBVIOUS
    <3>1. k \in 0 .. N - 1 /\ up[k] = m
      BY <1>1
    <3> QED BY <1>4, <2>1, <3>1
  <2>5. T = Nat
    <3>1. T \in SUBSET Nat
      OBVIOUS
    <3> HIDE DEF T
    <3> QED BY <2>3, <2>4, <3>1, AllNat
  <2> QED BY <1>1, <2>2, <2>5
<1> QED BY <1>3, <1>4, RootFixed

\* Path halving leaves every root where it is.
LEMMA HalvingKeepsRoots ==
    ASSUME NEW p, NEW rank, Ranked(p, rank), NEW m
    PROVE  /\ Ranked(Halved(p, m), rank)
           /\ \A n \in Node : Root(Halved(p, m), n) = Root(p, n)
<1> DEFINE q == Halved(p, m)
           r == [n \in Node |-> Root(p, n)]
<1>1. p \in [Node -> Node] /\ rank \in [Node -> Nat]
  BY DEF Ranked
<1>2. q \in [Node -> Node] /\ \A n \in Node : q[n] = p[n] \/ q[n] = p[p[n]]
  BY <1>1 DEF Halved
<1> HIDE DEF q
<1>3. ASSUME NEW n \in Node, q[n] # n PROVE rank[q[n]] < rank[n]
  <2>1. p[n] # n
    BY <1>2, <1>3
  <2>2. p[n] \in Node /\ p[p[n]] \in Node /\ rank[p[n]] < rank[n]
    BY <1>1, <2>1 DEF Ranked
  <2>3. rank[p[p[n]]] <= rank[p[n]]
    <3>1. CASE p[p[n]] = p[n]
      BY <1>1, <2>2, <3>1
    <3>2. CASE p[p[n]] # p[n]
      BY <1>1, <2>2, <3>2 DEF Ranked
    <3> QED BY <3>1, <3>2
  <2>4. rank[n] \in Nat /\ rank[p[n]] \in Nat /\ rank[p[p[n]]] \in Nat
    BY <1>1, <2>2
  <2> QED BY <1>2, <2>2, <2>3, <2>4
<1>4. Ranked(q, rank)
  BY <1>1, <1>2, <1>3 DEF Ranked
<1>5. \A n \in Node : r[q[n]] = r[n]
  <2> TAKE n \in Node
  <2>1. p[n] \in Node /\ p[p[n]] \in Node
    BY <1>1
  <2>2. Root(p, p[n]) = Root(p, n) /\ Root(p, p[p[n]]) = Root(p, p[n])
    BY <2>1, RootUp
  <2> QED BY <1>2, <2>1, <2>2
<1>6. \A n \in Node : q[n] = n => r[n] = n
  <2> TAKE n \in Node
  <2> SUFFICES ASSUME q[n] = n PROVE r[n] = n
    OBVIOUS
  <2>1. p[n] = n
    <3> SUFFICES ASSUME p[n] # n PROVE FALSE
      OBVIOUS
    <3>1. p[n] \in Node /\ rank[p[n]] < rank[n] /\ rank[n] \in Nat /\ rank[p[n]] \in Nat
      BY <1>1 DEF Ranked
    <3>2. p[p[n]] = n
      BY <1>2
    <3>3. rank[n] < rank[p[n]]
      BY <3>1, <3>2 DEF Ranked
    <3> QED BY <3>1, <3>3
  <2> QED BY <2>1, RootUp
<1> HIDE DEF r
<1>7. \A n \in Node : Root(q, n) = r[n]
  BY <1>4, <1>5, <1>6, RootIs
<1> QED BY <1>4, <1>7 DEF q, r

Hung(q, p, a, b) == q = [p EXCEPT ![a] = b]

\* A root that is hung under another takes its nodes with it.
LEMMA HangingJoins ==
    ASSUME NEW p, NEW rank, Ranked(p, rank), NEW a \in Node, NEW b \in Node, a # b,
           p[a] = a, p[b] = b, NEW q, Hung(q, p, a, b)
    PROVE  /\ \E higher : Ranked(q, higher)
           /\ \A n \in Node : Root(q, n) = IF Root(p, n) = a THEN b ELSE Root(p, n)
<1> DEFINE r == [n \in Node |-> IF Root(p, n) = a THEN b ELSE Root(p, n)]
           higher == [n \in Node |-> IF Root(p, n) = a THEN rank[n] + rank[b] + 1 ELSE rank[n]]
<1>1. p \in [Node -> Node] /\ rank \in [Node -> Nat]
  BY DEF Ranked
<1>2. q \in [Node -> Node] /\ q[a] = b /\ \A n \in Node : n # a => q[n] = p[n]
  BY <1>1 DEF Hung
<1>3. Root(p, a) = a /\ Root(p, b) = b
  BY RootUp
<1>4. \A n \in Node : Root(p, n) \in Node /\ Root(p, p[n]) = Root(p, n)
  BY RootFixed, RootUp
<1>5. higher \in [Node -> Nat] /\ r \in [Node -> Node]
  BY <1>1, <1>4
<1>6. ASSUME NEW n \in Node, q[n] # n PROVE higher[q[n]] < higher[n]
  <2>1. CASE n = a
    <3>1. higher[b] = rank[b] /\ higher[a] = rank[a] + rank[b] + 1
      BY <1>3
    <3>2. rank[a] \in Nat /\ rank[b] \in Nat
      BY <1>1
    <3> QED BY <1>2, <2>1, <3>1, <3>2
  <2>2. CASE n # a
    <3>1. q[n] = p[n] /\ p[n] \in Node /\ Root(p, p[n]) = Root(p, n)
      BY <1>1, <1>2, <1>4, <2>2
    <3>2. rank[p[n]] < rank[n]
      BY <1>6, <3>1 DEF Ranked
    <3>3. rank[p[n]] \in Nat /\ rank[n] \in Nat /\ rank[b] \in Nat
      BY <1>1, <3>1
    <3> QED BY <3>1, <3>2, <3>3
  <2> QED BY <2>1, <2>2
<1>7. Ranked(q, higher)
  <2> HIDE DEF higher
  <2> QED BY <1>2, <1>5, <1>6 DEF Ranked
<1>8. \A n \in Node : r[q[n]] = r[n]
  <2> TAKE n \in Node
  <2>1. CASE n = a
    BY <1>2, <1>3, <2>1
  <2>2. CASE n # a
    <3>1. q[n] = p[n] /\ p[n] \in Node
      BY <1>1, <1>2, <2>2
    <3> QED BY <1>4, <3>1
  <2> QED BY <2>1, <2>2
<1>9. \A n \in Node : q[n] = n => r[n] = n
  <2> TAKE n \in Node
  <2> SUFFICES ASSUME q[n] = n PROVE r[n] = n
    OBVIOUS
  <2>1. n # a /\ p[n] = n
    BY <1>2
  <2>2. Root(p, n) = n
    BY <2>1, RootUp
  <2> QED BY <2>1, <2>2
<1>10. \A n \in Node : Root(q, n) = r[n]
  <2> HIDE DEF r, higher
  <2> QED BY <1>7, <1>8, <1>9, RootIs
<1> QED BY <1>7, <1>10

-----------------------------------------------------------------------------
\* Sets that no edge leaves or enters.
Apart(S) == \A e \in edges : e.src \in S <=> e.dst \in S

Grouped ==
    /\ \E rank : Ranked(parent, rank)
    /\ \A S \in SUBSET Node : Apart(S) => \A m \in Node : m \in S <=> Root(parent, m) \in S
    /\ \A e \in edges : e.src \in visited =>
          SameGroup(e.src, e.dst) \/ (e.src = at /\ \E step \in around : step[2] = e)
    /\ \A step \in around : /\ step[2] \in edges /\ step[2].src = at
                            /\ step[1] = step[2].dst

Groups ==
    /\ pc = "idle" => parent = [n \in Node |-> n]
    /\ pc = "components" => Grouped
    /\ pc = "done" /\ query.seed = Missing => Grouped /\ visited = Node /\ around = {}

LEMMA GroupsInit == Init => Groups
BY DEF Init, Groups

\* Over all time and all types every edge is joined.
LEMMA AllPass ==
    ASSUME query = NoQuery, edges \subseteq Edge, NEW e \in edges
    PROVE  <<e.dst, e, "out">> \in Around(e.src)
<1>1. query.opts = Opts(<<Missing, Missing>>, {}, Missing)
  BY DEF NoQuery
<1>2. query.opts.time = <<-Far, Far>> /\ query.opts.types = Type /\ query.opts.dir = "both"
  BY <1>1, MissingAssumption DEF Opts, Window, Types, Direction
<1>3. /\ e.first \in Int /\ e.last \in Int /\ e.first <= e.last /\ -Far <= e.first /\ e.last <= Far
      /\ Far \in Int /\ e.type \in Type
  BY EdgeAssumption, TimeAssumption
<1>4. Passes(e, query.opts)
  BY <1>2, <1>3 DEF Passes
<1> QED BY <1>2, <1>4 DEF Around

LEMMA GroupsStart == ASSUME IInv, Typed, Groups, Components PROVE Groups'
<1>1. /\ parent = [n \in Node |-> n] /\ pc = "idle" /\ pc' = "components" /\ visited = {}
      /\ around = {} /\ UNCHANGED <<edges, parent, at, around, visited>>
  BY DEF Components, Groups, Typed, IInv, Shape
<1>2. Ranked(parent, [n \in Node |-> 0])
  BY <1>1 DEF Ranked
<1>3. \A m \in Node : Root(parent, m) = m
  BY <1>1, <1>2, RootUp
<1>4. Grouped'
  BY <1>1, <1>2, <1>3 DEF Grouped
<1> QED BY <1>1, <1>4 DEF Groups

LEMMA GroupsNextSource ==
    ASSUME IInv, Typed, Groups, NEW u \in Node, NextSource(u) PROVE Groups'
<1>1. /\ pc = "components" /\ around = {} /\ visited' = visited \cup {u} /\ at' = u
      /\ around' = {step \in Around(u) : step[3] = "out"}
      /\ UNCHANGED <<edges, parent, pc, query>>
  BY DEF NextSource
<1>2. Grouped /\ query = NoQuery /\ edges \subseteq Edge
  BY <1>1 DEF Groups, IInv, Shape
<1>3. ASSUME NEW e \in edges, e.src \in visited'
      PROVE  SameGroup(e.src, e.dst) \/ (e.src = at' /\ \E step \in around' : step[2] = e)
  <2>1. CASE e.src \in visited
    BY <1>1, <1>2, <2>1 DEF Grouped
  <2>2. CASE e.src = u
    <3>1. <<e.dst, e, "out">> \in Around(u)
      BY <1>2, <2>2, AllPass
    <3>2. <<e.dst, e, "out">> \in around'
      BY <1>1, <3>1
    <3> QED BY <1>1, <2>2, <3>2
  <2> QED BY <1>1, <1>3, <2>1, <2>2
<1>4. \A step \in around' : step[2] \in edges /\ step[2].src = u /\ step[1] = step[2].dst
  BY <1>1 DEF Around
<1>5. Grouped'
  BY <1>1, <1>2, <1>3, <1>4 DEF Grouped, Apart, SameGroup
<1> QED BY <1>1, <1>5 DEF Groups

\* Joining two nodes makes one group of theirs and leaves the others.
LEMMA JoinedRoots ==
    ASSUME NEW p, NEW rank, Ranked(p, rank), NEW u \in Node, NEW v \in Node, p = parent,
           NEW q, q = Joined(u, v, Root(p, u))
    PROVE  /\ \E higher : Ranked(q, higher)
           /\ \A n \in Node : Root(q, n) = IF Root(p, n) = Root(p, u) THEN Root(p, v)
                                           ELSE Root(p, n)
<1> DEFINE forest == Halved(Halved(p, u), v)
           a == Root(p, u)
           b == Root(p, v)
<1>1. Ranked(forest, rank) /\ \A n \in Node : Root(forest, n) = Root(p, n)
  <2>1. Ranked(Halved(p, u), rank) /\ \A n \in Node : Root(Halved(p, u), n) = Root(p, n)
    BY HalvingKeepsRoots
  <2> QED BY <2>1, HalvingKeepsRoots
<1>2. q = IF a = b THEN forest ELSE [forest EXCEPT ![a] = b]
  BY DEF Joined
<1>3. a \in Node /\ b \in Node
  BY RootFixed
<1> HIDE DEF forest
<1>4. CASE a = b
  <2>1. q = forest
    BY <1>2, <1>4
  <2> QED BY <1>1, <1>4, <2>1
<1>5. CASE a # b
  <2>1. Hung(q, forest, a, b)
    BY <1>2, <1>5 DEF Hung
  <2>2. Root(forest, u) = a /\ Root(forest, v) = b
    BY <1>1
  <2>3. forest[a] = a /\ forest[b] = b
    BY <1>1, <2>2, RootFixed
  <2> HIDE DEF a, b
  <2>4. /\ \E higher : Ranked(q, higher)
        /\ \A n \in Node : Root(q, n) = IF Root(forest, n) = a THEN b ELSE Root(forest, n)
    BY <1>1, <1>3, <1>5, <2>1, <2>3, HangingJoins
  <2> QED BY <1>1, <2>4 DEF a, b
<1> QED BY <1>4, <1>5

LEMMA GroupsJoin ==
    ASSUME IInv, Typed, Groups, NEW step \in around, Join(step) PROVE Groups'
<1>1. /\ pc = "components" /\ around' = around \ {step}
      /\ parent' = Joined(at, step[1], Root(parent, at))
      /\ UNCHANGED <<edges, pc, query, at, visited>>
  BY DEF Join, Turn
<1>2. Grouped /\ at \in Node /\ step[1] \in Node /\ edges \subseteq Edge
  BY <1>1 DEF Groups, Typed, IInv, Shape
<1>3. step[2] \in edges /\ step[2].src = at /\ step[1] = step[2].dst
  BY <1>2 DEF Grouped
<1>4. PICK p : p = parent
  OBVIOUS
<1>5. PICK q : q = parent'
  OBVIOUS
<1>6. PICK rank : Ranked(p, rank)
  BY <1>2, <1>4 DEF Grouped
<1> DEFINE a == Root(p, at)
           b == Root(p, step[1])
<1>7. /\ \E higher : Ranked(q, higher)
      /\ \A n \in Node : Root(q, n) = IF Root(p, n) = a THEN b ELSE Root(p, n)
  BY <1>1, <1>2, <1>4, <1>5, <1>6, JoinedRoots
<1>8. \A S \in SUBSET Node : Apart(S) => \A m \in Node : m \in S <=> Root(q, m) \in S
  <2> SUFFICES ASSUME NEW S \in SUBSET Node, Apart(S), NEW m \in Node
               PROVE  m \in S <=> Root(q, m) \in S
    OBVIOUS
  <2>1. \A n \in Node : n \in S <=> Root(p, n) \in S
    BY <1>2, <1>4 DEF Grouped
  <2>2. at \in S <=> step[1] \in S
    BY <1>3 DEF Apart
  <2>3. a \in S <=> b \in S
    BY <1>2, <2>1, <2>2
  <2> QED BY <1>7, <2>1, <2>3
<1>9. \A m, n \in Node : Root(p, m) = Root(p, n) => Root(q, m) = Root(q, n)
  BY <1>7
<1>10. Root(q, at) = Root(q, step[1])
  BY <1>2, <1>7
<1>11. ASSUME NEW e \in edges, e.src \in visited
       PROVE  Root(q, e.src) = Root(q, e.dst)
                 \/ (e.src = at /\ \E other \in around' : other[2] = e)
  <2>1. e.src \in Node /\ e.dst \in Node
    BY <1>2, EdgeAssumption
  <2>2. CASE SameGroup(e.src, e.dst)
    BY <1>4, <1>9, <2>1, <2>2 DEF SameGroup
  <2>3. CASE e.src = at /\ \E other \in around : other[2] = e
    <3>1. CASE step[2] = e
      BY <1>3, <1>10, <3>1
    <3>2. CASE step[2] # e
      BY <1>1, <2>3, <3>2
    <3> QED BY <3>1, <3>2
  <2> QED BY <1>2, <1>11, <2>2, <2>3 DEF Grouped
<1>12. \A other \in around' : other[2] \in edges /\ other[2].src = at /\ other[1] = other[2].dst
  BY <1>1, <1>2 DEF Grouped
<1>13. Grouped'
  BY <1>1, <1>5, <1>7, <1>8, <1>11, <1>12 DEF Grouped, Apart, SameGroup
<1> QED BY <1>1, <1>13 DEF Groups

LEMMA GroupsNext == ASSUME IInv, Typed, Groups, [Next]_vars PROVE Groups'
<1>1. CASE UNCHANGED vars
  <2>1. UNCHANGED <<edges, pc, query, at, around, visited, parent>>
    BY <1>1 DEF vars
  <2> QED BY <2>1 DEF Groups, Grouped, Apart, SameGroup
<1>2. ASSUME NEW id \in Asked, NEW n, NEW time, NEW names, NEW dir,
             Neighbors(id, n, time, names, dir)
      PROVE  Groups'
  <2>1. query'.seed # Missing /\ pc' \notin {"idle", "components"}
    BY <1>2, MissingAssumption DEF Neighbors, SearchFrom
  <2> QED BY <2>1 DEF Groups
<1>3. ASSUME NEW id \in Asked, NEW dst, NEW time, NEW dir, Path(id, dst, time, dir)
      PROVE  Groups'
  <2>1. query'.seed # Missing /\ pc' \notin {"idle", "components"}
    BY <1>3, MissingAssumption DEF Path, SearchFrom
  <2> QED BY <2>1 DEF Groups
<1>4. CASE pc \in {"k_hop", "path"} /\ pc' \in {"k_hop", "path", "done"} /\ UNCHANGED query
  <2>1. query'.seed # Missing
    BY <1>4, SeedKnown, MissingAssumption
  <2> QED BY <1>4, <2>1 DEF Groups
<1>5. CASE EndComponents
  <2>1. /\ pc = "components" /\ around = {} /\ visited = Node /\ pc' = "done"
        /\ UNCHANGED <<edges, parent, query, at, around, visited>>
    BY <1>5 DEF EndComponents
  <2>2. Grouped'
    BY <2>1 DEF Groups, Grouped, Apart, SameGroup
  <2> QED BY <2>1, <2>2 DEF Groups
<1>6. Expand \/ NextLevel \/ EnoughHops \/ EndPath => Groups'
  BY <1>4 DEF Expand, NextLevel, EnoughHops, Enough, EndPath
<1>7. \A step \in around : Collect(step) \/ Discover(step) => Groups'
  BY <1>4 DEF Collect, Discover
<1>8. CASE SearchStep
  BY <1>5, <1>6, <1>7, <1>8, GroupsJoin, GroupsNextSource DEF SearchStep
<1> QED BY <1>1, <1>2, <1>3, <1>8, GroupsStart DEF Next

LEMMA GroupsAre == ASSUME IInv, Groups PROVE ComponentsExact
<1> SUFFICES ASSUME pc = "done", query.seed = Missing, NEW m \in Node, NEW n \in Node
             PROVE  SameGroup(m, n) <=> \A S \in SUBSET Node :
                       (m \in S /\ \A e \in edges : e.src \in S <=> e.dst \in S) => n \in S
  BY DEF ComponentsExact
<1>1. Grouped /\ visited = Node /\ around = {} /\ edges \subseteq Edge
  BY DEF Groups, IInv, Shape
<1>2. ASSUME SameGroup(m, n), NEW S \in SUBSET Node, m \in S,
             \A e \in edges : e.src \in S <=> e.dst \in S
      PROVE  n \in S
  <2>1. Apart(S)
    BY <1>2 DEF Apart
  <2> QED BY <1>1, <1>2, <2>1 DEF Grouped, SameGroup
<1>3. ASSUME \A S \in SUBSET Node :
                (m \in S /\ \A e \in edges : e.src \in S <=> e.dst \in S) => n \in S
      PROVE  SameGroup(m, n)
  <2> DEFINE S == {x \in Node : SameGroup(m, x)}
  <2>1. \A e \in edges : e.src \in Node /\ e.dst \in Node /\ SameGroup(e.src, e.dst)
    BY <1>1, EdgeAssumption DEF Grouped
  <2>2. \A e \in edges : e.src \in S <=> e.dst \in S
    BY <2>1 DEF SameGroup
  <2>3. m \in S
    BY DEF SameGroup
  <2>4. S \in SUBSET Node
    OBVIOUS
  <2>5. n \in S
    <3> HIDE DEF S
    <3> QED BY <1>3, <2>2, <2>3, <2>4
  <2> QED BY <2>5
<1> QED BY <1>2, <1>3

-----------------------------------------------------------------------------
\* What a search keeps, all together.
SearchInv == IInv /\ Typed /\ Levels /\ LevelsDone /\ Walks /\ WalksDone /\ Groups

\* Any neighbourhood may be asked for.
LEMMA NeighborsSearch ==
    ASSUME SearchInv, NEW id \in Asked, NEW n \in Nat \cup {Missing}, NEW time \in TimeInput,
           NEW names, NEW dir, Neighbors(id, n, time, names, dir)
    PROVE  SearchInv'
<1>1. IInv' /\ Typed'
  BY NeighborsKeeps, TypedStart DEF SearchInv
<1>2. Levels' /\ LevelsDone'
  BY <1>1, LevelsStart DEF SearchInv, IInv
<1>3. query'.target = Missing /\ query'.seed # Missing /\ pc' \notin {"path", "idle", "components"}
  BY MissingAssumption DEF Neighbors, SearchFrom
<1>4. Walks' /\ WalksDone' /\ Groups'
  BY <1>3, MissingAssumption DEF Walks, WalksDone, Groups
<1> QED BY <1>1, <1>2, <1>4 DEF SearchInv

LEMMA SearchInit == Init => SearchInv
BY InitOK, TypedInit, LevelsInit, WalksInit, GroupsInit DEF SearchInv

LEMMA SearchNext == SearchInv /\ [Next]_vars => SearchInv'
BY IInvNext, TypedNext, LevelsNext, WalksNext, GroupsNext DEF SearchInv

LEMMA SearchInvariant == Spec => []SearchInv
<1> QED BY SearchInit, SearchNext, PTL DEF Spec

\* While a search runs its state is well formed, and a neighbourhood is taken level
\* by level (index.rs:362): what is seen holds the levels before the one that is
\* expanded, and nothing that is farther than the next.
THEOREM SearchesLevelByLevel == Spec => []Inv
<1>1. SearchInv => Inv
  BY TypedIs, LevelsAre DEF SearchInv, Inv
<1> QED BY <1>1, SearchInvariant, PTL

\* A neighbourhood is exactly the nodes within so many hops and the edges that reach
\* them, each once (index.rs:345), and a path is found whenever there is one, is one
\* of the rewound graph, and is as short as any (index.rs:383): on any graph, in any
\* order of the rows.
THEOREM AnswersAlwaysExact == Spec => []AnswersExact
<1>1. SearchInv => AnswersExact
  BY LevelsAre, WalksAre DEF SearchInv, AnswersExact
<1> QED BY <1>1, SearchInvariant, PTL

\* The groups of the union-find are the connected parts of the graph, in whatever
\* order the edges are joined, with the trees cut short as they are climbed
\* (analytics.rs:126).
THEOREM ComponentsAlwaysExact == Spec => []ComponentsExact
<1>1. SearchInv => ComponentsExact
  BY GroupsAre DEF SearchInv
<1> QED BY <1>1, SearchInvariant, PTL
-----------------------------------------------------------------------------
(***************************************************************************)
(* The process tree.  An answer can be walked from its seed along its own  *)
(* edges.  The layout walks it so, and each call of `place` takes leaves   *)
(* that no call of its depth took before it.                               *)
(***************************************************************************)
OutWalk == /\ pc \in {"k_hop", "done"} /\ query.seed \in Node /\ query.target = Missing
           /\ query.opts.dir = "out"

\* Whatever holds the seed and the targets of the edges found from what it holds.
Follows(S, E) == query.seed \in S /\ \A e \in E : e.src \in S => e.dst \in S

Gathered ==
    OutWalk => /\ query.seed \in visited
               /\ \A e \in Row(found) : e.src \in visited /\ e.dst \in visited
               /\ \A S : Follows(S, Row(found)) => visited \subseteq S

LEMMA FoundEmpty == Row(<< >>) = {}
BY DEF Row

LEMMA GatheredStart ==
    ASSUME SearchInv, NEW id, NEW n, NEW time, NEW names, NEW dir,
           Neighbors(id, n, time, names, dir)
    PROVE  Gathered'
<1>1. found' = << >> /\ visited' = {id} \cap Node /\ query'.seed = id
  BY DEF Neighbors, SearchFrom, SearchInv, Typed
<1> QED BY <1>1, FoundEmpty DEF Gathered, OutWalk, Follows

LEMMA GatheredCollect ==
    ASSUME SearchInv, Gathered, NEW step \in around, Collect(step)
    PROVE  Gathered'
<1>1. /\ pc = "k_hop" /\ pc' = pc /\ visited' = visited \cup {step[1]} /\ UNCHANGED query
      /\ found' = (IF \E i \in DOMAIN found : found[i] = step[2]
                   THEN found ELSE Append(found, step[2]))
  BY DEF Collect, Turn
<1>2. SUFFICES ASSUME OutWalk PROVE Gathered'
  BY <1>1 DEF Gathered, OutWalk
<1>3. at \in visited /\ step \in Around(at) /\ step[2] \in edges
  BY <1>1 DEF SearchInv, IInv, Queued, Walking, Typed
<1>4. step[2].src = at /\ step[2].dst = step[1]
  BY <1>2, <1>3 DEF Around, OutWalk
<1>5. Row(found') = Row(found) \cup {step[2]}
  BY <1>1, <1>3, FoundRow DEF SearchInv
<1>6. \A e \in Row(found') : e.src \in visited' /\ e.dst \in visited'
  BY <1>1, <1>2, <1>3, <1>4, <1>5 DEF Gathered
<1>7. query.seed \in visited'
  BY <1>1, <1>2 DEF Gathered
<1>8. ASSUME NEW S, Follows(S, Row(found')) PROVE visited' \subseteq S
  <2>1. Follows(S, Row(found))
    BY <1>5, <1>8 DEF Follows
  <2>2. visited \subseteq S
    BY <1>2, <2>1 DEF Gathered
  <2>3. step[1] \in S
    BY <1>3, <1>4, <1>5, <1>8, <2>2 DEF Follows
  <2> QED BY <1>1, <2>2, <2>3
<1> QED BY <1>1, <1>6, <1>7, <1>8 DEF Gathered, Follows

LEMMA GatheredNext == ASSUME SearchInv, Gathered, [Next]_vars PROVE Gathered'
<1>1. CASE UNCHANGED <<pc, query, visited, found>>
  BY <1>1 DEF Gathered, OutWalk, Follows
<1>2. ASSUME NEW id \in Asked, NEW dst \in Asked, NEW time, NEW dir, Path(id, dst, time, dir)
      PROVE  Gathered'
  <2>1. query'.target # Missing
    BY <1>2, MissingAssumption DEF Path
  <2> QED BY <2>1 DEF Gathered, OutWalk
<1>3. CASE /\ pc = "k_hop" /\ UNCHANGED <<query, visited, found>>
  BY <1>3 DEF Gathered, OutWalk, Follows
<1>4. CASE pc \in {"idle", "components"} /\ UNCHANGED query
  BY <1>4, MissingAssumption DEF Gathered, OutWalk, SearchInv, IInv, Shape, NoQuery
<1>5. CASE pc = "path" /\ UNCHANGED query
  <2>1. query'.target # Missing
    BY <1>5, MissingAssumption DEF SearchInv, Typed
  <2> QED BY <2>1 DEF Gathered, OutWalk
<1>6. ASSUME NEW step \in around, Collect(step) \/ Discover(step) \/ Join(step)
      PROVE  Gathered'
  <2>1. Discover(step) => Gathered'
    BY <1>5 DEF Discover
  <2>2. Join(step) => Gathered'
    BY <1>4 DEF Join
  <2> QED BY <1>6, <2>1, <2>2, GatheredCollect
<1>7. CASE Expand
  <2>1. pc = "k_hop" \/ pc = "path"
    BY <1>7 DEF Expand
  <2> QED BY <1>3, <1>5, <1>7, <2>1 DEF Expand
<1>8. CASE NextLevel \/ EnoughHops
  BY <1>3, <1>8 DEF NextLevel, EnoughHops, Enough
<1>9. CASE EndPath
  BY <1>5, <1>9 DEF EndPath
<1>10. CASE EndComponents \/ Components
  BY <1>4, <1>10 DEF EndComponents, Components
<1>11. ASSUME NEW u \in Node, NextSource(u) PROVE Gathered'
  BY <1>4, <1>11 DEF NextSource
<1>12. CASE SearchStep
  BY <1>6, <1>7, <1>8, <1>9, <1>10, <1>11, <1>12 DEF SearchStep
<1>13. CASE UNCHANGED vars
  BY <1>1, <1>13 DEF vars
<1> QED BY <1>2, <1>10, <1>12, <1>13, GatheredStart DEF Next

-----------------------------------------------------------------------------
Call == [id : Node, kids : SUBSET Nat, xs : SUBSET Int]
Opened == {calls[k].id : k \in DOMAIN calls}

\* What is there of a layout, and of the recursion.
Laying ==
    /\ layout = [visited |-> layout.visited, depth |-> layout.depth,
                 x |-> layout.x, leaf |-> layout.leaf]
    /\ layout = Nowhere \/ (TreeShown /\ query.seed \in layout.visited)
    /\ layout.visited \subseteq visited
    /\ DOMAIN layout.depth = layout.visited
    /\ \A n \in layout.visited : layout.depth[n] \in Nat
    /\ layout.leaf \in Nat
    /\ calls \in Seq(Call)
    /\ Opened \subseteq layout.visited

\* A call is as deep as the calls below it, and lists what none of them is for.
Nested ==
    /\ NeverBelowItself
    /\ \A k \in DOMAIN calls :
          /\ layout.depth[calls[k].id] = k - 1
          /\ \A i \in calls[k].kids :
                /\ i \in DOMAIN found /\ found[i].src = calls[k].id
                /\ \A j \in 1 .. k : found[i].dst # calls[j].id

\* The children of what is marked are marked, or a call has them on its list.
Listed ==
    \A i \in DOMAIN found : found[i].src \in layout.visited =>
        \/ found[i].dst \in layout.visited
        \/ \E k \in DOMAIN calls : calls[k].id = found[i].src /\ i \in calls[k].kids

\* Nothing is higher than it is near.
NotAbove == ~Turned => \A n \in layout.visited : n \in Ball[layout.depth[n]]

\* The leaves a .. b - 1 are those of a node, from s on those of a call.
Spans(l, cs, a, b, s) ==
    LET placed == l.visited \ {cs[k].id : k \in DOMAIN cs} IN
    /\ \A n \in placed : /\ a[n] \in Nat /\ b[n] \in Nat /\ a[n] < b[n] /\ b[n] <= l.leaf
                         /\ n \in DOMAIN l.x /\ l.x[n] \in Int
                         /\ Slot * a[n] <= l.x[n] /\ l.x[n] <= Slot * (b[n] - 1)
    /\ \A m, n \in placed : m # n /\ l.depth[m] = l.depth[n] => b[m] <= a[n] \/ b[n] <= a[m]
    /\ \A k \in DOMAIN cs :
          /\ s[k] \in Nat /\ s[k] <= l.leaf
          /\ \A n \in placed : l.depth[n] = k - 1 => b[n] <= s[k]
          /\ \A v \in cs[k].xs : /\ s[k] < l.leaf
                                 /\ Slot * s[k] <= v /\ v <= Slot * (l.leaf - 1)
    /\ \A j, k \in DOMAIN cs : j <= k => s[j] <= s[k]

Spaced == \E a, b, s : Spans(layout, calls, a, b, s)

DrawInv == Gathered /\ Laying /\ Nested /\ Listed /\ NotAbove /\ Spaced
-----------------------------------------------------------------------------
\* The width of a leaf.
IsPower(P) == P = [n \in Nat |-> IF n = 0 THEN 1 ELSE 2 * P[n - 1]]
Powers == CHOOSE P : IsPower(P)

LEMMA SlotIs == Slot = Powers[Cardinality(Node)]
BY DEF Slot, Powers, IsPower

LEMMA SlotPositive == Slot \in Nat /\ Slot > 0
<1> DEFINE step == [p \in Nat \X Nat |-> 2 * p[2]]
<1>1. step \in [Nat \X Nat -> Nat] /\ \A n, v \in Nat : step[<<n, v>>] = 2 * v
  OBVIOUS
<1> HIDE DEF step
<1>2. PICK f : Recurs(f, Nat, 1, step)
  BY <1>1, RecursionExists
<1>3. f \in [Nat -> Nat] /\ f[0] = 1 /\ \A n \in Nat : f[n + 1] = 2 * f[n]
  BY <1>1, <1>2 DEF Recurs
<1>4. IsPower(f)
  <2> DEFINE g == [n \in Nat |-> IF n = 0 THEN 1 ELSE 2 * f[n - 1]]
  <2>1. ASSUME NEW n \in Nat PROVE f[n] = g[n]
    <3>1. CASE n = 0
      BY <1>3, <3>1
    <3>2. CASE n # 0
      <4>1. n - 1 \in Nat /\ (n - 1) + 1 = n
        BY <3>2
      <4>2. f[n] = 2 * f[n - 1]
        BY <1>3, <4>1
      <4> QED BY <3>2, <4>2
    <3> QED BY <3>1, <3>2
  <2>2. f = g
    BY <1>3, <2>1
  <2> QED BY <2>2 DEF IsPower
<1> DEFINE P == Powers
<1>5. IsPower(P)
  BY <1>4 DEF Powers
<1> HIDE DEF P
<1>6. \A n \in Nat : P[n] = IF n = 0 THEN 1 ELSE 2 * P[n - 1]
  <2> DEFINE g == [n \in Nat |-> IF n = 0 THEN 1 ELSE 2 * P[n - 1]]
  <2>1. P = g
    BY <1>5 DEF IsPower
  <2>2. \A n \in Nat : g[n] = IF n = 0 THEN 1 ELSE 2 * P[n - 1]
    OBVIOUS
  <2> HIDE DEF g
  <2> QED BY <2>1, <2>2
<1> DEFINE T == {n \in Nat : P[n] \in Nat /\ P[n] > 0}
<1>7. 0 \in T
  BY <1>6
<1>8. ASSUME NEW k \in T PROVE k + 1 \in T
  <2>1. k + 1 \in Nat /\ k + 1 # 0 /\ (k + 1) - 1 = k
    OBVIOUS
  <2>2. P[k + 1] = 2 * P[k]
    BY <1>6, <2>1
  <2> QED BY <2>1, <2>2
<1>9. T \in SUBSET Nat
  OBVIOUS
<1>10. T = Nat
  <2> HIDE DEF T
  <2> QED BY <1>7, <1>8, <1>9, AllNat
<1>11. Slot = P[Cardinality(Node)] /\ Cardinality(Node) \in Nat
  BY SlotIs, NodeCount DEF P
<1> QED BY <1>10, <1>11

LEMMA SlotTimes == ASSUME NEW i \in Int PROVE Slot * i \in Int
BY SlotPositive

LEMMA FartherLeaf == ASSUME NEW i \in Int, NEW j \in Int, i <= j PROVE Slot * i <= Slot * j
<1>1. PICK d \in Nat : j = i + d
  <2>1. j - i \in Nat /\ j = i + (j - i)
    OBVIOUS
  <2> QED BY <2>1
<1>2. Slot * d >= 0
  BY SlotPositive
<1>3. Slot * j = Slot * i + Slot * d
  BY <1>1, SlotPositive
<1>4. Slot * i \in Int /\ Slot * d \in Int
  BY SlotPositive
<1> QED BY <1>2, <1>3, <1>4

\* The middle of places that lie within bounds does so.
LEMMA CentreBetween ==
    ASSUME NEW S \in SUBSET Int, S # {}, NEW lo \in Int, NEW hi \in Int,
           \A v \in S : lo <= v /\ v <= hi
    PROVE  Centre(S) \in Int /\ lo <= Centre(S) /\ Centre(S) <= hi
<1>1. \E i \in S : \A j \in S : i <= j
  <2> DEFINE D == {v - lo : v \in S}
  <2>1. D \in SUBSET Nat /\ D # {}
    <3>1. \A v \in S : v - lo \in Nat
      OBVIOUS
    <3> QED BY <3>1
  <2> HIDE DEF D
  <2>2. PICK d \in D : \A y \in D : d <= y
    BY <2>1, LeastExists
  <2>3. PICK i \in S : d = i - lo
    BY DEF D
  <2>4. ASSUME NEW j \in S PROVE i <= j
    <3>1. j - lo \in D
      BY DEF D
    <3>2. i - lo <= j - lo
      BY <2>2, <2>3, <3>1
    <3> QED BY <3>2
  <2> QED BY <2>4
<1>2. \E i \in S : \A j \in S : j <= i
  <2> DEFINE D == {hi - v : v \in S}
  <2>1. D \in SUBSET Nat /\ D # {}
    <3>1. \A v \in S : hi - v \in Nat
      OBVIOUS
    <3> QED BY <3>1
  <2> HIDE DEF D
  <2>2. PICK d \in D : \A y \in D : d <= y
    BY <2>1, LeastExists
  <2>3. PICK i \in S : d = hi - i
    BY DEF D
  <2>4. ASSUME NEW j \in S PROVE j <= i
    <3>1. hi - j \in D
      BY DEF D
    <3>2. hi - i <= hi - j
      BY <2>2, <2>3, <3>1
    <3> QED BY <3>2
  <2> QED BY <2>4
<1>3. Least(S) \in S
  BY <1>1 DEF Least
<1>4. Greatest(S) \in S
  BY <1>2 DEF Greatest
<1>5. PICK x \in Int, y \in Int : x = Least(S) /\ y = Greatest(S)
  BY <1>3, <1>4
<1>6. lo <= x /\ x <= hi /\ lo <= y /\ y <= hi
  BY <1>3, <1>4, <1>5
<1>7. PICK c \in Int : c = (x + y) \div 2
  OBVIOUS
<1>8. 2 * c <= x + y /\ x + y < 2 * c + 2
  BY <1>7
<1>9. lo <= c /\ c <= hi
  BY <1>6, <1>8
<1> QED BY <1>5, <1>7, <1>9 DEF Centre

LEMMA LeastIn == ASSUME NEW S \in SUBSET Nat, S # {} PROVE Least(S) \in S
<1>1. \E i \in S : \A j \in S : i <= j
  BY LeastExists
<1> QED BY <1>1 DEF Least

-----------------------------------------------------------------------------
\* Entering a node takes no leaf.
Enters(l, cs, l2, cs2, m, id) ==
    /\ m \in Nat /\ DOMAIN cs = 1 .. m /\ DOMAIN cs2 = 1 .. m + 1
    /\ \A k \in 1 .. m : cs2[k].id = cs[k].id /\ cs2[k].xs = cs[k].xs
    /\ cs2[m + 1].id = id /\ cs2[m + 1].xs = {}
    /\ l2.visited = l.visited \cup {id} /\ l2.x = l.x
    /\ l.leaf \in Nat /\ l2.leaf = l.leaf
    /\ \A n \in l.visited : n # id => l2.depth[n] = l.depth[n]

LEMMA SpansEnter ==
    ASSUME NEW l, NEW cs, NEW l2, NEW cs2, NEW a, NEW b, NEW s, NEW m, NEW id,
           Spans(l, cs, a, b, s), Enters(l, cs, l2, cs2, m, id)
    PROVE  \E t : Spans(l2, cs2, a, b, t)
<1> USE DEF Enters
<1> DEFINE old == l.visited \ {cs[k].id : k \in DOMAIN cs}
           new == l2.visited \ {cs2[k].id : k \in DOMAIN cs2}
           t == [k \in 1 .. m + 1 |-> IF k = m + 1 THEN l.leaf ELSE s[k]]
<1>1. \A n \in new : n \in old /\ l2.depth[n] = l.depth[n]
  <2> SUFFICES ASSUME NEW n \in new PROVE n \in old /\ l2.depth[n] = l.depth[n]
    OBVIOUS
  <2>1. m + 1 \in 1 .. m + 1 /\ 1 .. m \subseteq 1 .. m + 1
    OBVIOUS
  <2>2. n # id
    BY <2>1
  <2>3. \A k \in 1 .. m : n # cs[k].id
    BY <2>1
  <2> QED BY <2>2, <2>3
<1>2. /\ \A n \in old : /\ a[n] \in Nat /\ b[n] \in Nat /\ a[n] < b[n] /\ b[n] <= l.leaf
                        /\ n \in DOMAIN l.x /\ l.x[n] \in Int
                        /\ Slot * a[n] <= l.x[n] /\ l.x[n] <= Slot * (b[n] - 1)
      /\ \A p, n \in old : p # n /\ l.depth[p] = l.depth[n] => b[p] <= a[n] \/ b[n] <= a[p]
      /\ \A k \in 1 .. m :
          /\ s[k] \in Nat /\ s[k] <= l.leaf
          /\ \A n \in old : l.depth[n] = k - 1 => b[n] <= s[k]
          /\ \A v \in cs[k].xs : /\ s[k] < l.leaf
                                 /\ Slot * s[k] <= v /\ v <= Slot * (l.leaf - 1)
      /\ \A j, k \in 1 .. m : j <= k => s[j] <= s[k]
  BY DEF Spans
<1> HIDE DEF old, new
<1>3. t[m + 1] = l.leaf /\ \A k \in 1 .. m : t[k] = s[k] /\ k # m + 1 /\ k \in 1 .. m + 1
  OBVIOUS
<1>4. \A k \in 1 .. m + 1 : k \in 1 .. m \/ k = m + 1
  OBVIOUS
<1> HIDE DEF t
<1>5. ASSUME NEW k \in 1 .. m + 1
      PROVE  /\ t[k] \in Nat /\ t[k] <= l.leaf
             /\ \A n \in new : l2.depth[n] = k - 1 => b[n] <= t[k]
             /\ \A v \in cs2[k].xs : /\ t[k] < l.leaf
                                     /\ Slot * t[k] <= v /\ v <= Slot * (l.leaf - 1)
  <2>1. CASE k \in 1 .. m
    BY <1>1, <1>2, <1>3, <2>1
  <2>2. CASE k = m + 1
    BY <1>1, <1>2, <1>3, <2>2
  <2> QED BY <1>4, <2>1, <2>2
<1>6. ASSUME NEW j \in 1 .. m + 1, NEW k \in 1 .. m + 1, j <= k PROVE t[j] <= t[k]
  <2>1. CASE k = m + 1
    BY <1>3, <1>5, <2>1
  <2>2. CASE k \in 1 .. m
    <3>1. j \in 1 .. m
      BY <1>6, <2>2
    <3> QED BY <1>2, <1>3, <1>6, <2>2, <3>1
  <2> QED BY <1>4, <2>1, <2>2
<1>7. Spans(l2, cs2, a, b, t)
  <2>1. new = l2.visited \ {cs2[k].id : k \in DOMAIN cs2}
    BY DEF new
  <2> QED BY <1>1, <1>2, <1>5, <1>6, <2>1 DEF Spans
<1> QED BY <1>7

\* A node that is placed has the leaves since its call began.
Returns(l, cs, l2, cs2, m, x, s) ==
    /\ m \in Nat \ {0} /\ DOMAIN cs = 1 .. m /\ DOMAIN cs2 = 1 .. m - 1
    /\ l.leaf \in Nat /\ l2.leaf \in Nat /\ l.leaf <= l2.leaf
    /\ \A k \in 1 .. m - 1 : cs2[k].id = cs[k].id /\ cs2[k].xs \subseteq cs[k].xs \cup {x}
    /\ \A j, k \in 1 .. m : cs[j].id = cs[k].id => j = k
    /\ \A k \in 1 .. m : cs[k].xs \subseteq Int
    /\ l2.visited = l.visited /\ l2.depth = l.depth /\ l2.x = Put(l.x, cs[m].id, x)
    /\ l.depth[cs[m].id] = m - 1
    /\ x \in Int /\ s[m] < l2.leaf /\ Slot * s[m] <= x /\ x <= Slot * (l2.leaf - 1)

LEMMA SpansReturn ==
    ASSUME NEW l, NEW cs, NEW l2, NEW cs2, NEW a, NEW b, NEW s, NEW m, NEW x,
           Spans(l, cs, a, b, s), Returns(l, cs, l2, cs2, m, x, s)
    PROVE  \E c, d : Spans(l2, cs2, c, d, s)
<1> USE DEF Returns
<1> DEFINE id == cs[m].id
           old == l.visited \ {cs[k].id : k \in DOMAIN cs}
           new == l2.visited \ {cs2[k].id : k \in DOMAIN cs2}
           c == [n \in new |-> IF n = id THEN s[m] ELSE a[n]]
           d == [n \in new |-> IF n = id THEN l2.leaf ELSE b[n]]
<1>1. \A n \in new : n # id => n \in old
  <2>1. 1 .. m - 1 \subseteq 1 .. m /\ \A k \in 1 .. m : k = m \/ k \in 1 .. m - 1
    OBVIOUS
  <2> QED BY <2>1
<1>2. /\ \A n \in old : /\ a[n] \in Nat /\ b[n] \in Nat /\ a[n] < b[n] /\ b[n] <= l.leaf
                        /\ n \in DOMAIN l.x /\ l.x[n] \in Int
                        /\ Slot * a[n] <= l.x[n] /\ l.x[n] <= Slot * (b[n] - 1)
      /\ \A p, n \in old : p # n /\ l.depth[p] = l.depth[n] => b[p] <= a[n] \/ b[n] <= a[p]
      /\ \A k \in 1 .. m :
          /\ s[k] \in Nat /\ s[k] <= l.leaf
          /\ \A n \in old : l.depth[n] = k - 1 => b[n] <= s[k]
          /\ \A v \in cs[k].xs : /\ s[k] < l.leaf
                                 /\ Slot * s[k] <= v /\ v <= Slot * (l.leaf - 1)
      /\ \A j, k \in 1 .. m : j <= k => s[j] <= s[k]
  BY DEF Spans
<1>3. \A n \in new : n # id => c[n] = a[n] /\ d[n] = b[n] /\ l2.x[n] = l.x[n] /\ n \in DOMAIN l2.x
  BY <1>1, <1>2 DEF Put
<1>4. id \in new => c[id] = s[m] /\ d[id] = l2.leaf
  OBVIOUS
<1>5. l2.x[id] = x /\ id \in DOMAIN l2.x
  BY DEF Put
<1>6. m \in 1 .. m /\ \A k \in 1 .. m - 1 : k \in 1 .. m /\ k # m
  OBVIOUS
<1>7. new = l2.visited \ {cs2[k].id : k \in DOMAIN cs2}
  OBVIOUS
<1>8. l.depth[id] = m - 1
  OBVIOUS
<1> HIDE DEF id, old, new, c, d
<1>9. ASSUME NEW n \in new
      PROVE  /\ c[n] \in Nat /\ d[n] \in Nat /\ c[n] < d[n] /\ d[n] <= l2.leaf
             /\ n \in DOMAIN l2.x /\ l2.x[n] \in Int
             /\ Slot * c[n] <= l2.x[n] /\ l2.x[n] <= Slot * (d[n] - 1)
  <2>1. CASE n = id
    BY <1>2, <1>4, <1>5, <1>6, <2>1
  <2>2. CASE n # id
    BY <1>1, <1>2, <1>3, <2>2
  <2> QED BY <2>1, <2>2
<1>10. ASSUME NEW p \in new, NEW n \in new, p # n, l2.depth[p] = l2.depth[n]
       PROVE  d[p] <= c[n] \/ d[n] <= c[p]
  <2>1. CASE p = id
    <3>1. n \in old /\ b[n] <= s[m]
      BY <1>1, <1>2, <1>6, <1>8, <1>10, <2>1
    <3> QED BY <1>3, <1>4, <1>10, <2>1, <3>1
  <2>2. CASE n = id
    <3>1. p \in old /\ b[p] <= s[m]
      BY <1>1, <1>2, <1>6, <1>8, <1>10, <2>2
    <3> QED BY <1>3, <1>4, <1>10, <2>2, <3>1
  <2>3. CASE p # id /\ n # id
    BY <1>1, <1>2, <1>3, <1>10, <2>3
  <2> QED BY <2>1, <2>2, <2>3
<1>11. ASSUME NEW k \in 1 .. m - 1
       PROVE  /\ s[k] \in Nat /\ s[k] <= l2.leaf
              /\ \A n \in new : l2.depth[n] = k - 1 => d[n] <= s[k]
              /\ \A v \in cs2[k].xs : /\ s[k] < l2.leaf
                                      /\ Slot * s[k] <= v /\ v <= Slot * (l2.leaf - 1)
  <2>1. s[k] \in Nat /\ s[m] \in Nat /\ s[k] <= s[m] /\ s[k] <= l.leaf
    BY <1>2, <1>6
  <2>2. ASSUME NEW n \in new, l2.depth[n] = k - 1 PROVE d[n] <= s[k]
    <3>1. n # id
      BY <1>8, <2>2
    <3> QED BY <1>1, <1>2, <1>3, <1>6, <2>2, <3>1
  <2>3. ASSUME NEW v \in cs2[k].xs
        PROVE  s[k] < l2.leaf /\ Slot * s[k] <= v /\ v <= Slot * (l2.leaf - 1)
    <3>1. CASE v = x
      <4>1. Slot * s[k] <= Slot * s[m]
        BY <2>1, FartherLeaf
      <4>2. Slot * s[k] \in Int /\ Slot * s[m] \in Int
        BY <2>1, SlotPositive
      <4> QED BY <2>1, <3>1, <4>1, <4>2
    <3>2. CASE v \in cs[k].xs
      <4>1. s[k] < l.leaf /\ Slot * s[k] <= v /\ v <= Slot * (l.leaf - 1)
        BY <1>2, <1>6, <3>2
      <4>2. Slot * (l.leaf - 1) <= Slot * (l2.leaf - 1)
        BY FartherLeaf
      <4>3. Slot * (l.leaf - 1) \in Int /\ Slot * (l2.leaf - 1) \in Int /\ Slot * s[k] \in Int
        <5>1. l.leaf - 1 \in Int /\ l2.leaf - 1 \in Int /\ s[k] \in Int
          BY <2>1
        <5> QED BY <5>1, SlotTimes
      <4>4. PICK p \in Int, q \in Int, w \in Int :
               p = Slot * (l.leaf - 1) /\ q = Slot * (l2.leaf - 1) /\ w = Slot * s[k]
        BY <4>3
      <4>5. v <= p /\ p <= q /\ w <= v /\ s[k] < l2.leaf
        BY <2>1, <4>1, <4>2, <4>4
      <4>6. v \in Int
        BY <1>6, <3>2
      <4>7. v <= q
        BY <4>5, <4>6
      <4> QED BY <4>4, <4>5, <4>7
    <3> QED BY <2>3, <3>1, <3>2
  <2> QED BY <2>1, <2>2, <2>3
<1>12. \A j, k \in 1 .. m - 1 : j <= k => s[j] <= s[k]
  BY <1>2, <1>6
<1>13. Spans(l2, cs2, c, d, s)
  BY <1>7, <1>9, <1>10, <1>11, <1>12 DEF Spans
<1> QED BY <1>13
-----------------------------------------------------------------------------
\* What is drawn is not asked about again.
LEMMA DoneIsOver == pc = "done" => ~Next /\ \A id, time : ~OpenTree(id, time)
BY DEF Next, Neighbors, Path, Components, SearchStep, Expand, Collect, Discover, Join, NextSource,
   EndComponents, NextLevel, EnoughHops, Enough, EndPath, OpenTree

LEMMA NotYetDrawn ==
    ASSUME Laying, layout = Nowhere PROVE layout.visited = {} /\ DOMAIN calls = {} /\ calls = << >>
<1>1. layout.visited = {}
  BY DEF Nowhere
<1>2. DOMAIN calls = 1 .. Len(calls) /\ Len(calls) \in Nat
  BY DEF Laying
<1>3. \A k \in DOMAIN calls : calls[k].id \in Opened
  BY DEF Opened
<1>4. DOMAIN calls = {}
  BY <1>1, <1>3 DEF Laying
<1>5. Len(calls) = 0
  BY <1>2, <1>4
<1> QED BY <1>1, <1>4, <1>5 DEF Laying

LEMMA DrawInit == Init /\ layout = Nowhere /\ calls = << >> => DrawInv
<1> SUFFICES ASSUME Init, layout = Nowhere, calls = << >> PROVE DrawInv
  OBVIOUS
<1>1. Gathered
  BY DEF Init, Gathered, OutWalk
<1>2. calls \in Seq(Call) /\ DOMAIN calls = {} /\ layout.visited = {}
  BY DEF Nowhere
<1>3. Laying
  BY <1>2 DEF Laying, Nowhere, Opened
<1>4. Nested /\ Listed /\ NotAbove
  BY <1>2 DEF Nested, NeverBelowItself, Listed, NotAbove
<1>5. Spans(layout, calls, 0, 0, 0)
  BY <1>2 DEF Spans
<1> QED BY <1>1, <1>3, <1>4, <1>5 DEF DrawInv, Spaced

\* Until it is drawn.
LEMMA SearchUndrawn ==
    ASSUME DrawInv, Gathered', layout = Nowhere, UNCHANGED <<layout, calls>> PROVE DrawInv'
<1>1. DOMAIN calls' = {} /\ (layout').visited = {} /\ layout' = Nowhere
  BY NotYetDrawn DEF DrawInv
<1>2. Laying'
  BY <1>1 DEF DrawInv, Laying, Nowhere, Opened
<1>3. Nested' /\ Listed' /\ NotAbove'
  BY <1>1 DEF Nested, NeverBelowItself, Listed, NotAbove
<1>4. Spaced'
  BY DEF DrawInv, Spaced
<1> QED BY <1>2, <1>3, <1>4 DEF DrawInv

LEMMA SameGraph ==
    ASSUME UNCHANGED vars
    PROVE  /\ UNCHANGED <<pc, query, visited, found>> /\ (Turned' <=> Turned) /\ Ball' = Ball
           /\ (TreeShown' <=> TreeShown) /\ (Gathered => Gathered')
<1>1. UNCHANGED <<pc, query, visited, found, edges>>
  BY DEF vars
<1> QED BY <1>1, Same DEF TreeShown, Gathered, OutWalk, Follows

LEMMA StillDrawn == ASSUME DrawInv, UNCHANGED treeVars PROVE DrawInv'
<1>1. UNCHANGED <<layout, calls>> /\ UNCHANGED vars
  BY DEF treeVars
<1>2. UNCHANGED <<pc, query, visited, found>>
  BY <1>1, SameGraph
<1>3. Laying' /\ Nested' /\ Listed'
  BY <1>1, <1>2, SameGraph DEF DrawInv, Laying, Opened, Nested, NeverBelowItself, Listed
<1>4. NotAbove' /\ Spaced'
  BY <1>1, SameGraph DEF DrawInv, NotAbove, Spaced
<1> QED BY <1>1, <1>3, <1>4, SameGraph DEF DrawInv

\* The list of the caller may be shorter by what leads to the node that is entered.
Under(under, id) ==
    /\ under \in Seq(Call) /\ Len(under) = Len(calls)
    /\ \A k \in DOMAIN calls :
          /\ under[k].id = calls[k].id /\ under[k].xs = calls[k].xs
          /\ under[k].kids \subseteq calls[k].kids
          /\ \A i \in calls[k].kids \ under[k].kids : found[i].dst = id

LEMMA EnterKeeps ==
    ASSUME DrawInv, UNCHANGED vars, NEW id \in visited \cap Node, NEW under, Under(under, id),
           id \notin Opened, ~Turned => id \in Ball[Len(calls)],
           TreeShown, query.seed \in layout.visited \cup {id},
           found \in Seq(edges), Enter(id, under)
    PROVE  DrawInv'
<1> DEFINE m == Len(calls)
           seen == layout.visited \cup {id}
           call == [id |-> id, kids |-> Kids(id, seen), xs |-> {}]
<1>1. PICK l, cs : l = layout' /\ cs = calls'
  OBVIOUS
<1>2. /\ m \in Nat /\ DOMAIN calls = 1 .. m /\ Len(under) = m /\ under \in Seq(Call)
      /\ layout.leaf \in Nat
  BY DEF DrawInv, Laying, Under
<1>3. /\ l = [layout EXCEPT !.visited = seen, !.depth = Put(@, id, m)]
      /\ cs = Append(under, call)
  BY <1>1, <1>2 DEF Enter
<1>4. /\ l.visited = seen /\ l.depth = Put(layout.depth, id, m)
      /\ l.x = layout.x /\ l.leaf = layout.leaf
      /\ l = [visited |-> l.visited, depth |-> l.depth, x |-> l.x, leaf |-> l.leaf]
  BY <1>3 DEF DrawInv, Laying
<1>5. call \in Call
  BY DEF Call, Kids
<1>6. /\ call.id = id /\ call.kids = Kids(id, seen) /\ call.xs = {}
  OBVIOUS
<1> HIDE DEF m, call
<1>7. /\ cs \in Seq(Call) /\ Len(cs) = m + 1 /\ DOMAIN cs = 1 .. m + 1
      /\ cs[m + 1] = call /\ \A k \in 1 .. m : cs[k] = under[k]
  BY <1>2, <1>3, <1>5
<1>8. \A k \in 1 .. m : /\ cs[k].id = calls[k].id /\ cs[k].xs = calls[k].xs
                        /\ cs[k].kids \subseteq calls[k].kids
                        /\ \A i \in calls[k].kids \ cs[k].kids : found[i].dst = id
  BY <1>2, <1>7 DEF Under
<1>9. /\ DOMAIN layout.depth = layout.visited /\ layout.visited \subseteq visited
      /\ \A n \in layout.visited : layout.depth[n] \in Nat
  BY DEF DrawInv, Laying
<1>10. /\ DOMAIN l.depth = l.visited /\ l.depth[id] = m
       /\ \A n \in l.visited : n # id => n \in layout.visited /\ l.depth[n] = layout.depth[n]
  BY <1>4, <1>9 DEF Put
<1>11. \A k \in 1 .. m + 1 : k \in 1 .. m \/ k = m + 1
  BY <1>2
<1>12. 1 .. m \subseteq 1 .. m + 1 /\ m + 1 \in 1 .. m + 1 /\ m + 1 \notin 1 .. m
  BY <1>2
<1>13. \A k \in 1 .. m : calls[k].id # id /\ calls[k].id \in layout.visited
  BY <1>2 DEF Opened, DrawInv, Laying
<1>14. UNCHANGED <<pc, query, visited, found>>
  BY SameGraph
<1>15. Laying'
  <2>1. {cs[k].id : k \in DOMAIN cs} \subseteq l.visited
    BY <1>4, <1>6, <1>7, <1>8, <1>11, <1>13
  <2>2. \A n \in l.visited : l.depth[n] \in Nat
    BY <1>2, <1>9, <1>10
  <2>3. query.seed \in l.visited /\ l.visited \subseteq visited /\ l.leaf \in Nat
    BY <1>2, <1>4, <1>9
  <2> QED BY <1>1, <1>4, <1>7, <1>10, <1>14, <2>1, <2>2, <2>3, SameGraph DEF Laying, Opened
<1>16. Nested'
  <2>1. \A j, k \in 1 .. m + 1 : cs[j].id = cs[k].id => j = k
    <3>1. \A j, k \in 1 .. m : calls[j].id = calls[k].id => j = k
      BY <1>2 DEF DrawInv, Nested, NeverBelowItself
    <3>2. cs[m + 1].id = id /\ \A k \in 1 .. m : cs[k].id = calls[k].id /\ cs[k].id # id
      BY <1>6, <1>7, <1>8, <1>13
    <3> QED BY <1>11, <3>1, <3>2
  <2>2. ASSUME NEW k \in 1 .. m + 1
        PROVE  /\ l.depth[cs[k].id] = k - 1
               /\ \A i \in cs[k].kids :
                    /\ i \in DOMAIN found /\ found[i].src = cs[k].id
                    /\ \A j \in 1 .. k : found[i].dst # cs[j].id
    <3>1. CASE k \in 1 .. m
      <4>1. /\ layout.depth[calls[k].id] = k - 1
            /\ \A i \in calls[k].kids :
                  /\ i \in DOMAIN found /\ found[i].src = calls[k].id
                  /\ \A j \in 1 .. k : found[i].dst # calls[j].id
        BY <1>2, <3>1 DEF DrawInv, Nested
      <4>2. \A j \in 1 .. k : j \in 1 .. m
        BY <1>2, <3>1
      <4>3. l.depth[cs[k].id] = k - 1
        BY <1>4, <1>8, <1>10, <1>13, <3>1, <4>1
      <4> QED BY <1>8, <3>1, <4>1, <4>2, <4>3
    <3>2. CASE k = m + 1
      <4>1. cs[k].id = id /\ cs[k].kids = Kids(id, seen) /\ l.depth[id] = k - 1
        BY <1>2, <1>6, <1>7, <1>10, <3>2
      <4>2. \A j \in 1 .. k : cs[j].id \in seen
        BY <1>4, <1>6, <1>7, <1>8, <1>11, <1>13, <3>2
      <4> QED BY <4>1, <4>2 DEF Kids
    <3> QED BY <1>11, <3>1, <3>2
  <2> QED BY <1>1, <1>7, <1>14, <2>1, <2>2 DEF Nested, NeverBelowItself
<1>17. Listed'
  <2>1. ASSUME NEW i \in DOMAIN found, found[i].src \in l.visited
        PROVE  \/ found[i].dst \in l.visited
               \/ \E k \in 1 .. m + 1 : cs[k].id = found[i].src /\ i \in cs[k].kids
    <3>1. CASE found[i].src = id
      BY <1>4, <1>6, <1>7, <1>12, <3>1 DEF Kids
    <3>2. CASE found[i].src # id
      <4>1. \/ found[i].dst \in layout.visited
            \/ \E k \in 1 .. m : calls[k].id = found[i].src /\ i \in calls[k].kids
        BY <1>2, <1>10, <2>1, <3>2 DEF DrawInv, Listed
      <4> QED BY <1>4, <1>8, <1>12, <4>1
    <3> QED BY <3>1, <3>2
  <2> QED BY <1>1, <1>7, <1>14, <2>1 DEF Listed
<1>18. NotAbove'
  <2>1. ~Turned => \A n \in l.visited : n \in Ball[l.depth[n]]
    BY <1>10 DEF DrawInv, NotAbove, m
  <2> QED BY <1>1, <2>1, SameGraph DEF NotAbove
<1>19. Spaced'
  <2>1. PICK a, b, s : Spans(layout, calls, a, b, s)
    BY DEF DrawInv, Spaced
  <2>2. \E t : Spans(l, cs, a, b, t)
    <3>1. \A k \in 1 .. m : cs[k].id = calls[k].id /\ cs[k].xs = calls[k].xs
      BY <1>8
    <3>2. cs[m + 1].id = id /\ cs[m + 1].xs = {}
      BY <1>6, <1>7
    <3>3. \A n \in layout.visited : n # id => l.depth[n] = layout.depth[n]
      BY <1>4, <1>10
    <3>4. PICK o, os : o = layout /\ os = calls
      OBVIOUS
    <3>5. Enters(o, os, l, cs, m, id)
      BY <1>2, <1>4, <1>7, <3>1, <3>2, <3>3, <3>4 DEF Enters
    <3> QED BY <2>1, <3>4, <3>5, SpansEnter
  <2> QED BY <1>1, <2>2 DEF Spaced
<1> QED BY <1>15, <1>16, <1>17, <1>18, <1>19, SameGraph DEF DrawInv

-----------------------------------------------------------------------------
LEMMA RootKeeps == ASSUME SearchInv, DrawInv, PlaceRoot PROVE DrawInv'
<1>1. /\ TreeShown /\ layout = Nowhere /\ Enter(query.seed, << >>) /\ UNCHANGED vars
  BY DEF PlaceRoot
<1>2. layout.visited = {} /\ DOMAIN calls = {} /\ calls = << >>
  BY <1>1, NotYetDrawn DEF DrawInv
<1>3. query.seed \in Node /\ edges \subseteq Edge
  BY <1>1 DEF TreeShown, SearchInv, IInv, Shape
<1>4. found \in Seq(edges)
  BY DEF SearchInv, Typed
<1>5. query.seed \in visited
  <2>1. OutWalk
    BY <1>1 DEF TreeShown, OutWalk
  <2> QED BY <2>1 DEF DrawInv, Gathered
<1>6. query.seed \in Ball[0]
  BY <1>3, BallFacts
<1>7. Under(<< >>, query.seed)
  BY <1>2 DEF Under
<1>8. query.seed \notin Opened /\ Len(calls) = 0
  BY <1>2 DEF Opened
<1>9. PICK q : q = query.seed
  OBVIOUS
<1> QED BY <1>1, <1>3, <1>4, <1>5, <1>6, <1>7, <1>8, <1>9, EnterKeeps
\* What a call under way knows.
LEMMA InCall ==
    ASSUME DrawInv, calls # << >>
    PROVE  /\ TreeShown /\ query.seed \in layout.visited
           /\ Len(calls) \in Nat \ {0} /\ DOMAIN calls = 1 .. Len(calls)
           /\ Len(calls) \in DOMAIN calls /\ calls \in Seq(Call)
           /\ Current \in Call /\ Current.id \in layout.visited
           /\ layout.depth[Current.id] = Len(calls) - 1
<1>1. /\ Len(calls) \in Nat \ {0} /\ DOMAIN calls = 1 .. Len(calls)
      /\ Len(calls) \in DOMAIN calls /\ calls \in Seq(Call)
  BY DEF DrawInv, Laying
<1>2. Current \in Call /\ Current.id \in Opened
  BY <1>1 DEF Current, Opened
<1>3. Current.id \in layout.visited
  BY <1>2 DEF DrawInv, Laying
<1>4. layout # Nowhere
  BY <1>3 DEF Nowhere
<1>5. TreeShown /\ query.seed \in layout.visited
  BY <1>4 DEF DrawInv, Laying
<1>6. layout.depth[Current.id] = Len(calls) - 1
  BY <1>1 DEF DrawInv, Nested, Current
<1> QED BY <1>1, <1>2, <1>3, <1>5, <1>6

LEMMA KidKeeps == ASSUME SearchInv, DrawInv, PlaceKid PROVE DrawInv'
<1> DEFINE m == Len(calls)
           kid == Least(Current.kids)
           id == found[kid].dst
           under == [calls EXCEPT ![m].kids = @ \ {kid}]
<1>1. calls # << >> /\ Current.kids # {} /\ Enter(id, under) /\ UNCHANGED vars
  BY DEF PlaceKid
<1>2. /\ TreeShown /\ query.seed \in layout.visited /\ calls \in Seq(Call)
      /\ m \in Nat \ {0} /\ DOMAIN calls = 1 .. m /\ m \in DOMAIN calls
      /\ Current \in Call /\ Current = calls[m] /\ Current.id \in layout.visited
      /\ layout.depth[Current.id] = m - 1
  BY <1>1, InCall DEF Current
<1>3. Current.kids \in SUBSET Nat
  BY <1>2 DEF Call
<1>4. kid \in Current.kids
  BY <1>1, <1>3, LeastIn
<1>5. /\ kid \in DOMAIN found /\ found[kid].src = Current.id
      /\ \A j \in 1 .. m : id # calls[j].id
  BY <1>2, <1>4 DEF DrawInv, Nested
<1>6. found \in Seq(edges) /\ edges \subseteq Edge /\ query.seed \in Node
  BY <1>2 DEF SearchInv, IInv, Shape, Typed, TreeShown
<1>7. found[kid] \in edges /\ found[kid] \in Row(found)
  BY <1>5, <1>6 DEF Row
<1>8. OutWalk /\ Answered /\ query.target = Missing /\ query.opts.dir = "out"
  BY <1>2 DEF TreeShown, OutWalk, Answered
<1>9. id \in visited \cap Node
  <2>1. id \in Node
    BY <1>6, <1>7, EdgeAssumption
  <2> QED BY <1>7, <1>8, <2>1 DEF DrawInv, Gathered
<1>10. ~Turned => id \in Ball[m]
  <2> SUFFICES ASSUME ~Turned PROVE id \in Ball[m]
    OBVIOUS
  <2>1. found[kid] \in Rewound
    BY <1>7, <1>8 DEF SearchInv, LevelsDone, EdgesFrom
  <2>2. Current.id \in Ball[m - 1]
    BY <1>2 DEF DrawInv, NotAbove
  <2>3. id \in Steps(Current.id, found[kid])
    BY <1>5, <1>8 DEF Steps
  <2>4. id \in Neighbourhood(Ball[m - 1])
    BY <2>1, <2>2, <2>3 DEF Neighbourhood
  <2>5. m - 1 \in Nat /\ (m - 1) + 1 = m
    BY <1>2
  <2>6. Ball[(m - 1) + 1] = Neighbourhood(Ball[m - 1])
    BY <1>6, <2>5, BallFacts
  <2> QED BY <2>4, <2>5, <2>6
<1>11. Under(under, id)
  <2> DEFINE rest == [Current EXCEPT !.kids = @ \ {kid}]
  <2>1. under = [calls EXCEPT ![m] = rest]
    BY <1>2
  <2>2. rest \in Call /\ rest.id = Current.id /\ rest.xs = Current.xs /\ rest.kids = Current.kids \ {kid}
    BY <1>2 DEF Call
  <2> HIDE DEF rest, under, kid
  <2>3. /\ under \in Seq(Call) /\ Len(under) = m
        /\ under[m] = rest /\ \A k \in DOMAIN calls : k # m => under[k] = calls[k]
    BY <1>2, <2>1, <2>2
  <2> QED BY <1>2, <2>2, <2>3 DEF Under
<1>12. id \notin Opened
  BY <1>2, <1>5 DEF Opened
<1>13. PICK i, u : i = id /\ u = under
  OBVIOUS
<1> HIDE DEF id, under, kid
<1> QED BY <1>1, <1>2, <1>6, <1>9, <1>10, <1>11, <1>12, <1>13, EnterKeeps DEF m

LEMMA ReturnKeeps == ASSUME SearchInv, DrawInv, Return PROVE DrawInv'
<1> DEFINE m == Len(calls)
           id == Current.id
           leaf == Current.xs = {}
           x == IF leaf THEN Slot * layout.leaf ELSE Centre(Current.xs)
<1>1. /\ calls # << >> /\ Current.kids = {} /\ UNCHANGED vars
      /\ layout' = [layout EXCEPT !.x = Put(@, Current.id, x),
                                  !.leaf = IF leaf THEN NextLeaf(@) ELSE @]
      /\ calls' = [k \in 1 .. m - 1 |-> IF k = m - 1 THEN [calls[k] EXCEPT !.xs = @ \cup {x}]
                                                     ELSE calls[k]]
  BY DEF Return
<1>2. /\ TreeShown /\ query.seed \in layout.visited /\ calls \in Seq(Call)
      /\ m \in Nat \ {0} /\ DOMAIN calls = 1 .. m /\ m \in DOMAIN calls
      /\ Current \in Call /\ Current = calls[m] /\ id \in layout.visited
      /\ layout.depth[id] = m - 1
  BY <1>1, InCall DEF Current
<1>3. layout.leaf \in Nat /\ Current.xs \in SUBSET Int
  BY <1>2 DEF DrawInv, Laying, Call
<1>4. PICK l, cs : l = layout' /\ cs = calls'
  OBVIOUS
<1>5. /\ l.visited = layout.visited /\ l.depth = layout.depth
      /\ l.x = Put(layout.x, id, x) /\ l.leaf = (IF leaf THEN layout.leaf + 1 ELSE layout.leaf)
      /\ l = [visited |-> l.visited, depth |-> l.depth, x |-> l.x, leaf |-> l.leaf]
  BY <1>1, <1>4 DEF DrawInv, Laying, NextLeaf
<1>6. l.leaf \in Nat /\ layout.leaf <= l.leaf
  BY <1>3, <1>5
<1>7. PICK a, b, s : Spans(layout, calls, a, b, s)
  BY DEF DrawInv, Spaced
<1>8. /\ s[m] \in Nat /\ s[m] <= layout.leaf
      /\ \A v \in Current.xs : /\ s[m] < layout.leaf
                               /\ Slot * s[m] <= v /\ v <= Slot * (layout.leaf - 1)
  BY <1>2, <1>7 DEF Spans
<1>9. x \in Int /\ s[m] < l.leaf /\ Slot * s[m] <= x /\ x <= Slot * (l.leaf - 1)
  <2>1. CASE leaf
    <3>1. x = Slot * layout.leaf /\ l.leaf = layout.leaf + 1
      BY <1>5, <2>1
    <3>2. l.leaf - 1 = layout.leaf /\ s[m] < l.leaf
      BY <1>3, <1>8, <3>1
    <3>3. Slot * s[m] <= Slot * layout.leaf
      BY <1>3, <1>8, FartherLeaf
    <3>4. PICK y \in Int : y = Slot * layout.leaf
      BY <1>3, SlotTimes
    <3> QED BY <3>1, <3>2, <3>3, <3>4
  <2>2. CASE ~leaf
    <3>1. x = Centre(Current.xs) /\ l.leaf = layout.leaf /\ Current.xs # {}
      BY <1>5, <2>2
    <3>2. PICK lo \in Int, hi \in Int : lo = Slot * s[m] /\ hi = Slot * (layout.leaf - 1)
      <4>1. s[m] \in Int /\ layout.leaf - 1 \in Int
        BY <1>3, <1>8
      <4>2. Slot * s[m] \in Int /\ Slot * (layout.leaf - 1) \in Int
        BY <4>1, SlotTimes
      <4> QED BY <4>2
    <3>3. \A v \in Current.xs : lo <= v /\ v <= hi
      BY <1>8, <3>2
    <3>4. Centre(Current.xs) \in Int /\ lo <= Centre(Current.xs) /\ Centre(Current.xs) <= hi
      BY <1>3, <3>1, <3>3, CentreBetween
    <3> QED BY <1>8, <3>1, <3>2, <3>4
  <2> QED BY <2>1, <2>2
<1> HIDE DEF x, leaf
<1>10. /\ DOMAIN cs = 1 .. m - 1
       /\ \A k \in 1 .. m - 1 :
             cs[k] = IF k = m - 1 THEN [calls[k] EXCEPT !.xs = @ \cup {x}] ELSE calls[k]
  BY <1>1, <1>4
<1>11. /\ \A k \in 1 .. m - 1 : k \in 1 .. m /\ k # m
       /\ \A k \in 1 .. m : k = m \/ k \in 1 .. m - 1
  <2>1. m \in Nat \ {0}
    BY <1>2
  <2> HIDE DEF m
  <2> QED BY <2>1
<1>12. ASSUME NEW k \in 1 .. m - 1
       PROVE  /\ cs[k] \in Call /\ cs[k].id = calls[k].id /\ cs[k].kids = calls[k].kids
              /\ cs[k].xs \subseteq calls[k].xs \cup {x}
  <2>1. calls[k] \in Call
    <3>1. k \in DOMAIN calls
      BY <1>2, <1>11
    <3> QED BY <1>2, <3>1
  <2> QED BY <1>9, <1>10, <2>1 DEF Call
<1>13. cs \in Seq(Call) /\ Len(cs) = m - 1
  <2>1. m - 1 \in Nat /\ cs = [k \in 1 .. m - 1 |-> cs[k]]
    BY <1>1, <1>2, <1>4
  <2> QED BY <1>10, <1>12, <2>1
<1>14. UNCHANGED <<pc, query, visited, found>>
  BY <1>1, SameGraph
<1>15. Laying'
  <2>1. {cs[k].id : k \in DOMAIN cs} \subseteq l.visited
    BY <1>2, <1>5, <1>10, <1>11, <1>12 DEF DrawInv, Laying, Opened
  <2>2. /\ l.visited \subseteq visited /\ DOMAIN l.depth = l.visited
        /\ \A n \in l.visited : l.depth[n] \in Nat
    BY <1>5 DEF DrawInv, Laying
  <2> QED BY <1>1, <1>2, <1>4, <1>5, <1>6, <1>13, <1>14, <2>1, <2>2, SameGraph DEF Laying, Opened
<1>16. \A j, k \in 1 .. m : calls[j].id = calls[k].id => j = k
  BY <1>2 DEF DrawInv, Nested, NeverBelowItself
<1>17. Nested'
  <2>1. \A j, k \in 1 .. m - 1 : cs[j].id = cs[k].id => j = k
    BY <1>11, <1>12, <1>16
  <2>2. ASSUME NEW k \in 1 .. m - 1
        PROVE  /\ l.depth[cs[k].id] = k - 1
               /\ \A i \in cs[k].kids :
                    /\ i \in DOMAIN found /\ found[i].src = cs[k].id
                    /\ \A j \in 1 .. k : found[i].dst # cs[j].id
    <3>1. /\ layout.depth[calls[k].id] = k - 1
          /\ \A i \in calls[k].kids :
                /\ i \in DOMAIN found /\ found[i].src = calls[k].id
                /\ \A j \in 1 .. k : found[i].dst # calls[j].id
      BY <1>2, <1>11 DEF DrawInv, Nested
    <3>2. \A j \in 1 .. k : j \in 1 .. m - 1
      BY <1>2
    <3> QED BY <1>5, <1>12, <3>1, <3>2
  <2> QED BY <1>4, <1>10, <1>14, <2>1, <2>2 DEF Nested, NeverBelowItself
<1>18. Listed'
  <2>1. ASSUME NEW i \in DOMAIN found, found[i].src \in l.visited
        PROVE  \/ found[i].dst \in l.visited
               \/ \E k \in 1 .. m - 1 : cs[k].id = found[i].src /\ i \in cs[k].kids
    <3>1. \/ found[i].dst \in layout.visited
          \/ \E k \in 1 .. m : calls[k].id = found[i].src /\ i \in calls[k].kids
      BY <1>2, <1>5, <2>1 DEF DrawInv, Listed
    <3>2. calls[m].kids = {}
      BY <1>1, <1>2
    <3> QED BY <1>5, <1>11, <1>12, <3>1, <3>2
  <2> QED BY <1>4, <1>10, <1>14, <2>1 DEF Listed
<1>19. NotAbove'
  BY <1>1, <1>4, <1>5, SameGraph DEF DrawInv, NotAbove
<1>20. Spaced'
  <2>1. PICK o, os, y : o = layout /\ os = calls /\ y = x
    OBVIOUS
  <2>2. Returns(o, os, l, cs, m, y, s)
    <3>1. ASSUME NEW k \in 1 .. m PROVE calls[k].xs \subseteq Int
      <4>1. calls[k] \in Call
        BY <1>2
      <4> QED BY <4>1 DEF Call
    <3>2. \A k \in 1 .. m - 1 : cs[k].id = calls[k].id /\ cs[k].xs \subseteq calls[k].xs \cup {x}
      BY <1>12
    <3>3. /\ l.visited = layout.visited /\ l.depth = layout.depth
          /\ l.x = Put(layout.x, calls[m].id, x) /\ layout.depth[calls[m].id] = m - 1
      BY <1>2, <1>5
    <3> QED BY <1>2, <1>3, <1>6, <1>9, <1>10, <1>16, <2>1, <3>1, <3>2, <3>3 DEF Returns
  <2>3. \E c, d : Spans(l, cs, c, d, s)
    BY <1>7, <2>1, <2>2, SpansReturn
  <2> QED BY <1>4, <2>3 DEF Spaced
<1> QED BY <1>1, <1>15, <1>17, <1>18, <1>19, <1>20, SameGraph DEF DrawInv
-----------------------------------------------------------------------------
LEMMA TreeNextKeeps ==
    ASSUME SearchInv, DrawInv, [TreeNext]_treeVars PROVE SearchInv' /\ DrawInv'
<1>1. ASSUME UNCHANGED vars PROVE SearchInv'
  BY <1>1, SearchNext
<1>2. CASE Next /\ UNCHANGED <<layout, calls>>
  <2>1. SearchInv' /\ Gathered'
    BY <1>2, SearchNext, GatheredNext DEF DrawInv
  <2>2. layout = Nowhere
    BY <1>2, DoneIsOver DEF DrawInv, Laying, TreeShown
  <2> QED BY <1>2, <2>1, <2>2, SearchUndrawn
<1>3. ASSUME NEW selected \in Asked, NEW time \in TimeInput,
             OpenTree(selected, time) /\ UNCHANGED <<layout, calls>>
      PROVE  SearchInv' /\ DrawInv'
  <2>1. Neighbors(selected, TreeHops, time, TreeTypes, "out") /\ TreeHops \in Nat \cup {Missing}
    BY <1>3 DEF OpenTree, TreeHops
  <2>2. SearchInv' /\ Gathered'
    BY <2>1, NeighborsSearch, GatheredStart
  <2>3. layout = Nowhere
    BY <1>3, DoneIsOver DEF DrawInv, Laying, TreeShown
  <2> QED BY <1>3, <2>2, <2>3, SearchUndrawn
<1>4. CASE PlaceRoot
  BY <1>1, <1>4, RootKeeps DEF PlaceRoot
<1>5. CASE PlaceKid
  BY <1>1, <1>5, KidKeeps DEF PlaceKid
<1>6. CASE Return
  BY <1>1, <1>6, ReturnKeeps DEF Return
<1>7. CASE UNCHANGED treeVars
  BY <1>1, <1>7, StillDrawn DEF treeVars
<1> QED BY <1>2, <1>3, <1>4, <1>5, <1>6, <1>7 DEF TreeNext

LEMMA DrawInvariant == TreeSpec => [](SearchInv /\ DrawInv)
<1>1. TreeInit => SearchInv /\ DrawInv
  BY SearchInit, DrawInit DEF TreeInit
<1>2. SearchInv /\ DrawInv /\ [TreeNext]_treeVars => SearchInv' /\ DrawInv'
  BY TreeNextKeeps
<1> QED BY <1>1, <1>2, PTL DEF TreeSpec

\* A distance is the least number of hops that will do.
LEMMA DistanceLeast ==
    ASSUME edges \subseteq Edge, query.seed \in Node, NEW k \in Nat, NEW x \in Ball[k]
    PROVE  Distance(x) <= k
<1> DEFINE N == Cardinality(Node)
           S == {h \in Nat : x \in Ball[h]}
           P(h) == x \in Ball[h] /\ (h > 0 => x \notin Ball[h - 1])
<1>1. N \in Nat /\ Ball[k] \subseteq Ball[N]
  BY BallAll
<1>2. N \in S /\ S \in SUBSET Nat
  BY <1>1
<1>3. PICK h \in S : \A i \in S : h <= i
  <2> HIDE DEF S
  <2> QED BY <1>2, LeastExists
<1>4. h \in 0 .. N
  BY <1>2, <1>3
<1>5. P(h)
  <2>1. ASSUME h > 0 PROVE x \notin Ball[h - 1]
    <3>1. h - 1 \in Nat /\ ~(h <= h - 1)
      BY <1>3, <2>1
    <3> QED BY <1>3, <3>1
  <2> QED BY <1>3, <2>1
<1>6. Distance(x) = CHOOSE i \in 0 .. N : P(i)
  BY DEF Distance
<1> HIDE DEF P
<1>7. Distance(x) \in 0 .. N /\ P(Distance(x))
  BY <1>4, <1>5, <1>6
<1> DEFINE D == Distance(x)
<1>8. D \in Nat /\ (D > 0 => x \notin Ball[D - 1])
  BY <1>1, <1>7 DEF P
<1> HIDE DEF D
<1>9. ASSUME k < D PROVE FALSE
  <2>1. D > 0 /\ D - 1 \in Nat /\ k <= D - 1
    BY <1>8, <1>9
  <2>2. Ball[k] \subseteq Ball[D - 1]
    BY <2>1, BallGrows
  <2> QED BY <1>8, <2>1, <2>2
<1>10. D <= k
  BY <1>8, <1>9
<1> QED BY <1>10 DEF D

LEMMA AllDrawn == ASSUME SearchInv, DrawInv PROVE EveryNodeDrawn
<1> SUFFICES ASSUME TreeShown, calls = << >>, layout # Nowhere
             PROVE  /\ layout.visited = visited
                    /\ \A n \in visited : n \in DOMAIN layout.depth /\ n \in DOMAIN layout.x
                    /\ \A m, n \in visited :
                          m # n => layout.depth[m] # layout.depth[n] \/ layout.x[m] # layout.x[n]
                    /\ ~Turned => \A n \in visited : layout.depth[n] >= Distance(n)
  BY DEF EveryNodeDrawn, Drawn
<1>1. OutWalk /\ query.seed \in Node /\ edges \subseteq Edge /\ DOMAIN calls = {}
  BY DEF TreeShown, OutWalk, SearchInv, IInv, Shape
<1>2. layout.visited = visited
  <2>1. found \in Seq(edges)
    BY DEF SearchInv, Typed
  <2>2. \A i \in DOMAIN found : found[i].src \in layout.visited => found[i].dst \in layout.visited
    BY <1>1 DEF DrawInv, Listed
  <2>3. Follows(layout.visited, Row(found))
    BY <2>1, <2>2 DEF Follows, Row, DrawInv, Laying
  <2>4. visited \subseteq layout.visited
    BY <1>1, <2>3 DEF DrawInv, Gathered
  <2> QED BY <2>4 DEF DrawInv, Laying
<1>3. PICK a, b, s : Spans(layout, calls, a, b, s)
  BY DEF DrawInv, Spaced
<1>4. layout.visited \ {calls[k].id : k \in DOMAIN calls} = visited
  BY <1>1, <1>2
<1>5. \A n \in visited : /\ a[n] \in Nat /\ b[n] \in Nat
                         /\ n \in DOMAIN layout.x /\ layout.x[n] \in Int
                         /\ Slot * a[n] <= layout.x[n] /\ layout.x[n] <= Slot * (b[n] - 1)
  BY <1>3, <1>4 DEF Spans
<1>6. \A m, n \in visited :
         m # n /\ layout.depth[m] = layout.depth[n] => b[m] <= a[n] \/ b[n] <= a[m]
  BY <1>3, <1>4 DEF Spans
<1>7. ASSUME NEW m \in visited, NEW n \in visited, b[m] <= a[n]
      PROVE  layout.x[m] # layout.x[n]
  <2>1. PICK i \in Nat, j \in Nat : i = b[m] /\ j = a[n] /\ i <= j
    BY <1>5, <1>7
  <2>2. PICK p \in Int, q \in Int : p = Slot * (i - 1) /\ q = Slot * i
    BY <2>1, SlotTimes
  <2>3. p < q
    BY <2>1, <2>2, SlotPositive
  <2>4. q <= Slot * j
    BY <2>1, <2>2, FartherLeaf
  <2>5. layout.x[m] <= p /\ Slot * j <= layout.x[n]
    BY <1>5, <2>1, <2>2
  <2>6. layout.x[m] \in Int /\ layout.x[n] \in Int
    BY <1>5
  <2>7. Slot * j \in Int
    BY <2>1, SlotTimes
  <2> QED BY <2>3, <2>4, <2>5, <2>6, <2>7
<1>8. ASSUME NEW n \in visited, ~Turned PROVE layout.depth[n] >= Distance(n)
  <2>1. layout.depth[n] \in Nat /\ n \in Ball[layout.depth[n]]
    BY <1>2, <1>8 DEF DrawInv, Laying, NotAbove
  <2>2. Distance(n) <= layout.depth[n]
    BY <1>1, <2>1, DistanceLeast
  <2> QED BY <2>2
<1>9. \A n \in visited : n \in DOMAIN layout.depth
  BY <1>2 DEF DrawInv, Laying
<1> QED BY <1>2, <1>5, <1>6, <1>7, <1>8, <1>9

\* The recursion of the process tree never enters a node it is already in, although
\* children are listed once and placed later (layout.ts:79), and the tree it draws
\* has every node of the answer, each in a place of its own and none higher than it
\* is near (layout.ts:84): the fallback for what the recursion does not reach never
\* has anything to place.
THEOREM TreeAlwaysSound == TreeSpec => []TreeSound
<1>1. SearchInv /\ DrawInv => NeverBelowItself
  BY DEF DrawInv, Nested
<1>2. SearchInv /\ DrawInv => EveryNodeDrawn
  BY AllDrawn
<1>3. SearchInv /\ DrawInv => TreeSound
  BY <1>1, <1>2 DEF TreeSound
<1> QED BY <1>3, DrawInvariant, PTL
=============================================================================
