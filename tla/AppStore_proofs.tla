--------------------------- MODULE AppStore_proofs ---------------------------
(***************************************************************************)
(* Proofs about the web client: its store, for any nodes, windows and      *)
(* answers of the server and any number of requests in flight, whose flags *)
(* and paths stay sound however they overlap and which shows what was asked*)
(* for when they do not; and the time-rewind scrubber on top of it, whose  *)
(* handles tell the window whenever its effects have come to rest.         *)
(***************************************************************************)
EXTENDS Scrubber, NatRecursion, FiniteSetTheorems, SequenceTheorems, TLAPS

USE InitialAssumption, HopAssumption, TopAssumption

\* The paths offered, if any, are an answer of the search.
RankedIsAnswer ==
    \/ ranked \in {Unasked, << >>}
    \/ \E x, y \in Id : ranked = Attack(x, y) /\ ranked # << >>

Sound == TypeOK /\ IdleNotLoading /\ RankedIsAnswer /\ HighlightIsShown

-----------------------------------------------------------------------------
LEMMA ClampInRange == ASSUME NEW n \in Int PROVE Clamp(n) \in 1 .. 5
BY DEF Clamp

\* A request that is well-formed, with the number of those issued.
Proper(r, n) ==
    /\ r.kind \in {"refresh", "path", "attack", "overview"}
    /\ r.id \in 0 .. n - 1
    /\ r.seeds \subseteq Id
    /\ r.view \in Views
    /\ r.kind \in {"path", "attack"} => r.ends \in Id \X Id

\* A proper request joins proper ones.
LEMMA SendSound ==
    ASSUME TypeOK, NEW kind \in {"refresh", "path", "attack", "overview"},
           NEW ss \in SUBSET Id, NEW ends, NEW v \in Views,
           kind \in {"path", "attack"} => ends \in Id \X Id,
           NEW inFlight \in SUBSET pending,
           Send(Request(kind, ss, ends, v), inFlight)
    PROVE  /\ issued' \in Nat /\ loading' \in BOOLEAN /\ error' \in BOOLEAN
           /\ pending' # {}
           /\ \A r \in pending' : Proper(r, issued')
<1> DEFINE q == [id |-> issued, kind |-> kind, seeds |-> ss, ends |-> ends, view |-> v]
<1>1. /\ issued' = issued + 1 /\ loading' = TRUE /\ error' = FALSE
      /\ pending' = inFlight \cup {q}
  <2>1. [Request(kind, ss, ends, v) EXCEPT !.id = issued] = q
    BY DEF Request
  <2> QED BY <2>1 DEF Send
<1>2. ASSUME NEW r \in inFlight PROVE Proper(r, issued')
  <2>1. r.id \in 0 .. issued' - 1
    BY <1>1 DEF TypeOK
  <2> QED BY <2>1 DEF TypeOK, Proper
<1>3. Proper(q, issued')
  <2>1. q.id \in 0 .. issued' - 1
    BY <1>1 DEF TypeOK
  <2>2. q.kind = kind /\ q.seeds = ss /\ q.ends = ends /\ q.view = v
    OBVIOUS
  <2> HIDE DEF q
  <2> QED BY <2>1, <2>2 DEF Proper
<1> HIDE DEF q
<1>4. issued' \in Nat
  BY <1>1 DEF TypeOK
<1>5. \A r \in pending' : Proper(r, issued')
  BY <1>1, <1>2, <1>3
<1> QED BY <1>1, <1>4, <1>5

LEMMA RefreshSound ==
    ASSUME TypeOK, NEW ss \in SUBSET Id, NEW v \in Views,
           NEW inFlight \in SUBSET pending, Refresh(ss, v, inFlight)
    PROVE  /\ issued' \in Nat /\ loading' \in BOOLEAN /\ error' \in BOOLEAN
           /\ refreshed' \in BOOLEAN
           /\ \A r \in pending' : Proper(r, issued')
           /\ ss # {} => pending' # {}
           /\ ss = {} => pending' = inFlight /\ loading' = loading
<1>1. CASE ss = {}
  BY <1>1 DEF Refresh, TypeOK, Proper
<1>2. CASE ss # {}
  <2>1. Send(Request("refresh", ss, <<>>, v), inFlight) /\ refreshed' = refreshed
    BY <1>2 DEF Refresh
  <2> QED BY <1>2, <2>1, SendSound DEF TypeOK
<1> QED BY <1>1, <1>2

\* Of an answer, the path that is picked is the one the attack view shows.
LEMMA PickedIsShown ==
    ASSUME NEW x \in Id, NEW y \in Id, NEW k \in DOMAIN Attack(x, y),
           k = 1 \/ Attack(x, y)[k] # {}
    PROVE  Attack(x, y)[k] = PathShown(Attack(x, y), Attack(x, y)[k])
<1> DEFINE paths == Attack(x, y)
           lit == {i \in DOMAIN paths : paths[i] # {} /\ paths[i] \subseteq paths[k]}
<1>1. /\ \A i, j \in DOMAIN paths : paths[i] \subseteq paths[j] => i = j
      /\ paths \in Seq({paths[i] : i \in DOMAIN paths})
  BY AttackAssumption
<1>2. lit = IF paths[k] = {} THEN {} ELSE {k}
  BY <1>1
<1>3. CASE paths[k] = {}
  BY <1>2, <1>3 DEF PathShown
<1>4. CASE paths[k] # {}
  <2>1. k <= k
    BY <1>1
  <2>2. (CHOOSE i \in lit : \A j \in lit : i <= j) = k
    BY <1>2, <1>4, <2>1
  <2> QED BY <1>2, <1>4, <2>2 DEF PathShown
<1> QED BY <1>3, <1>4

-----------------------------------------------------------------------------
\* Types and the spinner, by kind of step: one that shows something else, one that
\* asks, one that comes back.
LEMMA ShowSound ==
    ASSUME TypeOK, IdleNotLoading, NEW ss \in SUBSET Id, NEW v \in Views, Show(ss, v)
    PROVE  TypeOK' /\ IdleNotLoading'
<1>1. Refresh(ss, v, pending) /\ seeds' = ss /\ view' = v /\ calm' = (calm /\ pending = {})
  BY DEF Show, UserActs
<1>2. calm' \in BOOLEAN
  BY <1>1
<1>3. TypeOK'
  BY <1>1, <1>2, RefreshSound DEF TypeOK, Views, Proper
<1>4. IdleNotLoading'
  BY <1>1, RefreshSound DEF IdleNotLoading
<1> QED BY <1>3, <1>4

LEMMA AskSound ==
    ASSUME TypeOK, IdleNotLoading, NEW kind \in {"path", "attack", "overview"},
           NEW ends \in (Id \X Id) \cup {<< >>}, kind # "overview" => ends \in Id \X Id,
           Ask(kind, ends)
    PROVE  TypeOK' /\ IdleNotLoading'
<1> DEFINE ss == {ends[i] : i \in DOMAIN ends}
<1>1. ss \in SUBSET Id
  OBVIOUS
<1>2. /\ Send(Request(kind, ss, ends, view), pending) /\ calm' = (calm /\ pending = {})
      /\ seeds' = seeds /\ view' = view /\ refreshed' = refreshed
  BY DEF Ask, UserActs
<1>3. calm' \in BOOLEAN
  BY <1>2
<1> HIDE DEF ss
<1>4. /\ issued' \in Nat /\ loading' \in BOOLEAN /\ error' \in BOOLEAN
      /\ pending' # {}
      /\ \A r \in pending' : Proper(r, issued')
  BY <1>1, <1>2, SendSound DEF TypeOK
<1> QED BY <1>2, <1>3, <1>4 DEF TypeOK, IdleNotLoading, Views, Proper

LEMMA SettleSound ==
    ASSUME TypeOK, IdleNotLoading, Settle
    PROVE  TypeOK' /\ IdleNotLoading'
<1>1. CASE \E r \in Requests("refresh") : RefreshAnswered(r)
  BY <1>1 DEF RefreshAnswered, Requests, TypeOK, IdleNotLoading, Views
<1>2. CASE \E r \in Requests("path") : PathAnswered(r)
  BY <1>2 DEF PathAnswered, Added, Requests, TypeOK, IdleNotLoading, Views
<1>3. CASE \E r \in Requests("attack") : AttackAnswered(r)
  BY <1>3 DEF AttackAnswered, Added, Requests, TypeOK, IdleNotLoading, Views
<1>4. CASE \E r \in Requests("overview") : NoTopRisk(r)
  BY <1>4 DEF NoTopRisk, Requests, TypeOK, IdleNotLoading, Views
<1>5. CASE \E r \in Requests("overview") : TopRiskAnswered(r)
  <2>1. PICK r \in Requests("overview") : TopRiskAnswered(r)
    BY <1>5
  <2>2. /\ Refresh(TopRisk, view, pending \ {r}) /\ TopRisk # {} /\ TopRisk \subseteq Id
        /\ seeds' = TopRisk /\ view' = view /\ calm' = calm
    BY <2>1, TopAssumption DEF TopRiskAnswered
  <2>3. view \in Views /\ pending \ {r} \in SUBSET pending
    BY DEF TypeOK
  <2> QED BY <2>2, <2>3, RefreshSound DEF TypeOK, IdleNotLoading, Views, Proper
<1>6. CASE \E r \in pending : Failed(r)
  <2>1. PICK r \in pending : Failed(r)
    BY <1>6
  <2>2. refreshed' \in BOOLEAN
    BY <2>1 DEF Failed
  <2> QED BY <2>1, <2>2 DEF Failed, TypeOK, IdleNotLoading, Views
<1> QED BY <1>1, <1>2, <1>3, <1>4, <1>5, <1>6 DEF Settle

LEMMA FlagsNext == TypeOK /\ IdleNotLoading /\ [Next]_vars => TypeOK' /\ IdleNotLoading'
<1> SUFFICES ASSUME TypeOK, IdleNotLoading, [Next]_vars
             PROVE  TypeOK' /\ IdleNotLoading'
  OBVIOUS
<1> DEFINE Shown == \E ss \in SUBSET Id, v \in Views : Show(ss, v)
<1>1. Shown => TypeOK' /\ IdleNotLoading'
  BY ShowSound
<1>2. ASSUME NEW id \in Id, PivotTo(id) \/ Expand(id) PROVE Shown
  BY <1>2 DEF PivotTo, Expand, TypeOK
<1>3. ASSUME NEW w \in Window \cup {AllTime}, SetWindow(w) PROVE Shown
  <2>1. [view EXCEPT !.window = w] \in Views
    BY DEF TypeOK, Views
  <2> QED BY <1>3, <2>1 DEF SetWindow, TypeOK
<1>4. ASSUME NEW n \in HopInput, SetHops(n) PROVE Shown
  <2>1. [view EXCEPT !.hops = Clamp(n)] \in Views
    BY ClampInRange DEF TypeOK, Views
  <2> QED BY <1>4, <2>1 DEF SetHops, TypeOK
<1>5. ASSUME NEW d \in Direction, SetDirection(d) PROVE Shown
  <2>1. [view EXCEPT !.dir = d] \in Views
    BY DEF TypeOK, Views
  <2> QED BY <1>5, <2>1 DEF SetDirection, TypeOK
<1>6. CASE \E src, dst \in Id : LoadPath(src, dst) \/ RunAttackPaths(src, dst)
  <2>1. PICK src \in Id, dst \in Id : Ask("path", <<src, dst>>) \/ Ask("attack", <<src, dst>>)
    BY <1>6 DEF LoadPath, RunAttackPaths
  <2> QED BY <2>1, AskSound
<1>7. CASE LoadOverview
  BY <1>7, AskSound DEF LoadOverview
<1>8. CASE Clear
  <2>1. calm' \in BOOLEAN /\ [view EXCEPT !.window = AllTime] \in Views
    BY <1>8 DEF Clear, UserActs, TypeOK, Views
  <2> QED BY <1>8, <2>1 DEF Clear, TypeOK, IdleNotLoading, Views
<1>9. CASE (\E rank \in 1 .. 5 : HighlightPath(rank)) \/ ClearAttackPaths
  BY <1>9 DEF HighlightPath, ClearAttackPaths, TypeOK, IdleNotLoading, Views
<1>10. CASE UNCHANGED vars
  BY <1>10 DEF vars, TypeOK, IdleNotLoading, Views
<1> HIDE DEF Shown
<1> QED BY <1>1, <1>2, <1>3, <1>4, <1>5, <1>6, <1>7, <1>8, <1>9, <1>10, SettleSound DEF Next

-----------------------------------------------------------------------------
\* A list that is offered and highlighted stays so, or becomes so.
LEMMA PathsNext ==
    ASSUME TypeOK, RankedIsAnswer, HighlightIsShown, [Next]_vars
    PROVE  RankedIsAnswer' /\ HighlightIsShown'
<1>1. CASE UNCHANGED <<ranked, highlight>>
  BY <1>1 DEF RankedIsAnswer, HighlightIsShown, PathShown
<1>2. CASE ranked' \in {Unasked, << >>}
  BY <1>2 DEF RankedIsAnswer, HighlightIsShown
<1>3. CASE \E rank \in 1 .. 5 : HighlightPath(rank)
  <2>1. PICK rank \in DOMAIN ranked : /\ ranked # Unasked /\ highlight' = ranked[rank]
                                     /\ ranked' = ranked
    BY <1>3 DEF HighlightPath
  <2>2. PICK x \in Id, y \in Id : ranked = Attack(x, y)
    <3>1. ranked # << >>
      BY <2>1
    <3> QED BY <2>1, <3>1 DEF RankedIsAnswer
  <2>3. 1 \in DOMAIN ranked
    BY <2>1, <2>2, AttackAssumption
  <2>4. rank = 1 \/ ranked[rank] # {}
    BY <2>1, <2>2, <2>3, AttackAssumption
  <2>5. highlight' = PathShown(ranked', highlight')
    BY <2>1, <2>2, <2>4, AttackAssumption, PickedIsShown
  <2> QED BY <2>1, <2>2, <2>5 DEF RankedIsAnswer, HighlightIsShown
<1>4. CASE \E r \in Requests("attack") : AttackAnswered(r)
  <2>1. PICK r \in Requests("attack") : AttackAnswered(r)
    BY <1>4
  <2>2. PICK x \in Id, y \in Id : r.ends = <<x, y>>
    BY DEF TypeOK, Requests
  <2>3. ranked' = Attack(x, y) /\ ranked' # << >> /\ highlight' = ranked'[1]
    BY <2>1, <2>2 DEF AttackAnswered
  <2>4. 1 \in DOMAIN (ranked')
    BY <2>3, AttackAssumption
  <2>5. highlight' = PathShown(ranked', highlight')
    BY <2>3, <2>4, PickedIsShown
  <2> QED BY <2>3, <2>5 DEF RankedIsAnswer, HighlightIsShown
<1>5. \/ UNCHANGED <<ranked, highlight>>
      \/ ranked' \in {Unasked, << >>}
      \/ \E rank \in 1 .. 5 : HighlightPath(rank)
      \/ \E r \in Requests("attack") : AttackAnswered(r)
  BY DEF Next, Settle, PivotTo, Expand, SetWindow, SetHops, SetDirection, Show, LoadPath,
     RunAttackPaths, LoadOverview, Ask, Clear, ClearAttackPaths, RefreshAnswered,
     PathAnswered, NoTopRisk, TopRiskAnswered, Failed, attack, vars
<1> QED BY <1>1, <1>2, <1>3, <1>4, <1>5

-----------------------------------------------------------------------------
\* While nothing overlapped, at most one request is in flight, a refresh in flight
\* was asked for what is wanted now, and a graph from a refresh with none in flight
\* is the one wanted.
Sequential ==
    calm =>
        /\ \A r, q \in pending : r = q
        /\ \A r \in Requests("refresh") : r.seeds = seeds /\ r.view = view
        /\ refreshed /\ Requests("refresh") = {} => graph = Union(seeds, view)

LEMMA SequentialNext == Sequential /\ [Next]_vars => Sequential'
<1> SUFFICES ASSUME Sequential, [Next]_vars PROVE Sequential'
  OBVIOUS
<1>1. ASSUME NEW ss, NEW v, Refresh(ss, v, {}), seeds' = ss, view' = v
      PROVE  Sequential'
  <2>1. CASE ss = {}
    <3>1. graph' = {} /\ pending' = {} /\ Union(ss, v) = {}
      BY <1>1, <2>1 DEF Refresh, Union
    <3>2. graph' = Union(seeds', view')
      BY <1>1, <3>1
    <3> QED BY <3>1, <3>2 DEF Sequential, Requests, Union
  <2>2. CASE ss # {}
    <3> DEFINE q == [id |-> issued, kind |-> "refresh", seeds |-> ss, ends |-> <<>>, view |-> v]
    <3>1. [Request("refresh", ss, <<>>, v) EXCEPT !.id = issued] = q
      BY DEF Request
    <3>2. pending' = {q}
      BY <1>1, <2>2, <3>1 DEF Refresh, Send
    <3>3. q.kind = "refresh" /\ q.seeds = ss /\ q.view = v
      OBVIOUS
    <3> HIDE DEF q
    <3> QED BY <1>1, <3>2, <3>3 DEF Sequential, Requests
  <2> QED BY <2>1, <2>2
<1>2. ASSUME NEW ss, NEW v, Show(ss, v) PROVE Sequential'
  <2>1. seeds' = ss /\ view' = v /\ Refresh(ss, v, pending) /\ (calm' => pending = {})
    BY <1>2 DEF Show, UserActs
  <2>2. CASE pending = {}
    BY <1>1, <2>1, <2>2
  <2> QED BY <2>1, <2>2 DEF Sequential
<1>3. ASSUME NEW kind \in {"path", "attack", "overview"}, NEW ends, Ask(kind, ends)
      PROVE  Sequential'
  <2> DEFINE ss == {ends[i] : i \in DOMAIN ends}
             q == [id |-> issued, kind |-> kind, seeds |-> ss, ends |-> ends, view |-> view]
  <2> HIDE DEF ss
  <2>1. [Request(kind, ss, ends, view) EXCEPT !.id = issued] = q
    BY DEF Request
  <2>2. pending' = pending \cup {q} /\ UNCHANGED <<seeds, view, graph, refreshed>>
    <3>1. Send(Request(kind, ss, ends, view), pending)
      BY <1>3 DEF Ask, ss
    <3>2. pending' = pending \cup {[Request(kind, ss, ends, view) EXCEPT !.id = issued]}
      BY <3>1 DEF Send
    <3> QED BY <1>3, <2>1, <3>2 DEF Ask
  <2>3. calm' => calm /\ pending = {}
    BY <1>3 DEF Ask, UserActs
  <2>4. q.kind # "refresh"
    OBVIOUS
  <2> HIDE DEF q
  <2> QED BY <2>2, <2>3, <2>4 DEF Sequential, Requests, Union
<1>4. CASE Settle
  <2>1. ASSUME NEW r \in Requests("refresh"), RefreshAnswered(r) PROVE Sequential'
    BY <2>1 DEF RefreshAnswered, Sequential, Requests
  <2>2. ASSUME NEW r \in pending, NEW items, Added(r, items) PROVE Sequential'
    BY <2>2 DEF Added, Sequential, Requests
  <2>3. ASSUME NEW r \in Requests("overview"), NoTopRisk(r) PROVE Sequential'
    BY <2>3 DEF NoTopRisk, Sequential, Requests, Union
  <2>4. ASSUME NEW r \in Requests("overview"), TopRiskAnswered(r) PROVE Sequential'
    <3>1. CASE calm
      BY <1>1, <2>4, <3>1 DEF TopRiskAnswered, Sequential, Requests
    <3> QED BY <2>4, <3>1 DEF TopRiskAnswered, Sequential
  <2>5. ASSUME NEW r \in pending, Failed(r) PROVE Sequential'
    BY <2>5 DEF Failed, Sequential, Requests, Union
  <2> QED BY <1>4, <2>1, <2>2, <2>3, <2>4, <2>5
         DEF Settle, PathAnswered, AttackAnswered, Requests
<1>5. CASE Clear
  <2>1. graph' = {} /\ seeds' = {} /\ pending' = pending /\ (calm' => pending = {})
    BY <1>5 DEF Clear, UserActs
  <2>2. Union({}, view') = {}
    BY DEF Union
  <2> QED BY <2>1, <2>2 DEF Sequential, Requests
<1>6. CASE (\E rank \in 1 .. 5 : HighlightPath(rank)) \/ ClearAttackPaths \/ UNCHANGED vars
  BY <1>6 DEF HighlightPath, ClearAttackPaths, vars, Sequential, Requests, Union
<1> QED BY <1>2, <1>3, <1>4, <1>5, <1>6
       DEF Next, PivotTo, Expand, SetWindow, SetHops, SetDirection, LoadPath,
           RunAttackPaths, LoadOverview

-----------------------------------------------------------------------------
\* However requests overlap, fail and are answered, the spinner is off when none is in
\* flight, every request is one the server accepts, and the attack view shows the
\* path that is highlighted.
THEOREM AlwaysSound == Spec => []Inv
<1>1. Init => Sound
  <2> SUFFICES ASSUME Init PROVE Sound
    OBVIOUS
  <2>1. view \in Views
    BY InitialAssumption DEF Init, Views
  <2> QED BY <2>1 DEF Init, Sound, TypeOK, IdleNotLoading, RankedIsAnswer, HighlightIsShown
<1>2. Sound /\ [Next]_vars => Sound'
  BY FlagsNext, PathsNext DEF Sound
<1>3. Sound => Inv
  BY DEF Sound, Inv
<1> QED BY <1>1, <1>2, <1>3, PTL DEF Spec

\* Used one action at a time, the client shows the graph of its seeds and its view,
\* however many requests failed before.
THEOREM AlwaysCoherent == Spec => []CoherentWhenSequential
<1>1. Init => Sequential
  BY DEF Init, Sequential, Requests, Union
<1>2. Sequential => CoherentWhenSequential
  BY DEF Sequential, CoherentWhenSequential, Requests
<1> QED BY <1>1, <1>2, SequentialNext, PTL DEF Spec

-----------------------------------------------------------------------------
(***************************************************************************)
(* The scrubber                                                            *)
(***************************************************************************)
TimeWindow == [from : Int, to : Int]

\* Items whose times are known.
Timed(g) == IsFiniteSet(g) /\ \A n \in g : Span(n) \in TimeWindow

\* What the server answers is a finite list, with times.
AnswersTimed == \A s \in Id : \A v : Timed(Near(s, v))

LEMMA LeastOf ==
    ASSUME NEW S, IsFiniteSet(S), S # {}, NEW f \in [S -> Int]
    PROVE  \E x \in S : \A y \in S : f[x] <= f[y]
<1> DEFINE T == {k \in Nat : \A U \in SUBSET S : Cardinality(U) = k + 1 =>
                                \E x \in U : \A y \in U : f[x] <= f[y]}
<1>1. \A U \in SUBSET S : IsFiniteSet(U) /\ Cardinality(U) \in Nat
  BY FS_Subset, FS_CardinalityType
<1>2. 0 \in T
  <2> SUFFICES ASSUME NEW U \in SUBSET S, Cardinality(U) = 1
               PROVE  \E x \in U : \A y \in U : f[x] <= f[y]
    OBVIOUS
  <2>1. PICK x : U = {x}
    BY <1>1, FS_Singleton
  <2> QED BY <2>1
<1>3. ASSUME NEW k \in T PROVE k + 1 \in T
  <2> SUFFICES ASSUME NEW U \in SUBSET S, Cardinality(U) = (k + 1) + 1
               PROVE  \E x \in U : \A y \in U : f[x] <= f[y]
    OBVIOUS
  <2>1. U # {}
    BY <1>1, FS_EmptySet
  <2>2. PICK z \in U : TRUE
    BY <2>1
  <2>3. Cardinality(U \ {z}) = k + 1 /\ U \ {z} \in SUBSET S
    <3>1. Cardinality(U \ {z}) = Cardinality(U) - 1
      BY <1>1, FS_RemoveElement
    <3> QED BY <3>1
  <2>4. PICK x \in U \ {z} : \A y \in U \ {z} : f[x] <= f[y]
    BY <2>3
  <2>5. CASE f[x] <= f[z]
    BY <2>4, <2>5
  <2>6. CASE ~(f[x] <= f[z])
    BY <2>4, <2>6
  <2> QED BY <2>5, <2>6
<1>4. T = Nat
  <2>1. T \in SUBSET Nat
    OBVIOUS
  <2> HIDE DEF T
  <2> QED BY <1>2, <1>3, <2>1, AllNat
<1>5. Cardinality(S) \in Nat /\ Cardinality(S) # 0
  BY FS_EmptySet, FS_CardinalityType
<1>6. Cardinality(S) - 1 \in T
  BY <1>4, <1>5
<1>7. PICK k \in T : k + 1 = Cardinality(S)
  BY <1>5, <1>6
<1>8. S \in SUBSET S /\ Cardinality(S) = k + 1
  BY <1>7
<1> QED BY <1>8

LEMMA ExtentIs ==
    ASSUME Timed(graph), graph # {} PROVE Extent \in TimeWindow
<1> DEFINE f == [n \in graph |-> Span(n).from]
           g == [n \in graph |-> - Span(n).to]
           lo == {Span(n).from : n \in graph}
           hi == {Span(n).to : n \in graph}
<1>1. \A n \in graph : Span(n).from \in Int /\ Span(n).to \in Int
  BY DEF Timed, TimeWindow
<1>2. f \in [graph -> Int] /\ g \in [graph -> Int]
  BY <1>1
<1>3. PICK x \in graph : \A y \in graph : f[x] <= f[y]
  <2> HIDE DEF f
  <2> QED BY <1>2, LeastOf DEF Timed
<1>4. PICK z \in graph : \A y \in graph : g[z] <= g[y]
  <2> HIDE DEF g
  <2> QED BY <1>2, LeastOf DEF Timed
<1>5. Span(x).from \in lo /\ \A y \in lo : Span(x).from <= y
  BY <1>3
<1>6. Span(z).to \in hi /\ \A y \in hi : Span(z).to >= y
  BY <1>1, <1>4
<1>7. lo \subseteq Int /\ hi \subseteq Int
  BY <1>1
<1> HIDE DEF lo, hi
<1>8. Min(lo) \in Int
  BY <1>5, <1>7 DEF Min
<1>9. Max(hi) \in Int
  BY <1>6, <1>7 DEF Max
<1> QED BY <1>8, <1>9 DEF Extent, TimeWindow, lo, hi

LEMMA UnionTimed ==
    ASSUME AnswersTimed, NEW ss \in SUBSET Id, IsFiniteSet(ss), NEW v
    PROVE  Timed(Union(ss, v))
<1> DEFINE f == [s \in ss |-> Near(s, v)]
           R == {Near(s, v) : s \in ss}
<1>1. f \in Surjection(ss, R)
  BY DEF Surjection
<1> HIDE DEF f
<1>2. IsFiniteSet(R)
  <2> HIDE DEF R
  <2> QED BY <1>1, FS_Surjection
<1>3. \A T \in R : IsFiniteSet(T)
  BY DEF AnswersTimed, Timed
<1>4. IsFiniteSet(UNION R)
  <2> HIDE DEF R
  <2> QED BY <1>2, <1>3, FS_UNION
<1>5. \A n \in UNION R : Span(n) \in TimeWindow
  BY DEF AnswersTimed, Timed
<1> QED BY <1>4, <1>5 DEF Union, Timed

-----------------------------------------------------------------------------
\* The range leaves room between its middle and its ends.
Ranged == range = AllTime \/ (range \in TimeWindow /\ range.from + 2 <= range.to)

\* The handles stay in it, in order.
Handled ==
    \/ handles = Unset
    \/ /\ range # AllTime /\ handles \in TimeWindow
       /\ range.from <= handles.from /\ handles.from < handles.to /\ handles.to <= range.to

Copied == debounced \in [from : Int \cup {AllTime}, to : Int \cup {AllTime}]

Windowed == view \in [hops : 1 .. 5, dir : Direction, window : TimeWindow \cup {AllTime}]

\* The handles are not set until the effect that sets them has run.
Before ==
    handles = Unset => /\ view.window = AllTime
                       /\ debounced = Unset
                       /\ range # AllTime => shown.range # range

\* A handle its copy lags behind has a timer, or is about to get one.
Lags(h) ==
    handles[h] # debounced[h] =>
        (\E k \in 1 .. Len(timers) : timers[k] = h) \/ shown.handles[h] # handles[h]
Lagging == timers \in Seq({"from", "to"}) /\ Lags("from") /\ Lags("to")

\* Unless the effect that commits the window is about to run, another commit would
\* change nothing.
Fixed ==
    (/\ range # AllTime /\ debounced.from # AllTime /\ debounced.to # AllTime
     /\ shown.debounced = debounced /\ shown.range = range /\ shown.window = view.window)
        => view.window = Committed

Answerable(r) == r.seeds \subseteq Id /\ IsFiniteSet(r.seeds)
Sourced == /\ Timed(graph) /\ issued \in Nat
           /\ seeds \subseteq Id /\ IsFiniteSet(seeds)
           /\ \A r \in pending : Answerable(r)

Shape == Ranged /\ Handled /\ Copied /\ Windowed
ScrInv == Shape /\ Before /\ Lagging /\ Fixed /\ Sourced

LEMMA ScrInvTells == ASSUME ScrInv PROVE ScrubberInv
<1>1. AtRest => shown = Rendered /\ timers = << >>
  BY DEF AtRest, Flushed
<1>2. shown = Rendered => /\ shown.handles = handles /\ shown.range = range
                          /\ shown.debounced = debounced /\ shown.window = view.window
  BY DEF Rendered
<1>3. ASSUME AtRest, range # AllTime
      PROVE  debounced = handles /\ handles # Unset /\ view.window = Committed
  <2>1. handles # Unset
    BY <1>1, <1>2, <1>3 DEF ScrInv, Before
  <2>2. handles \in TimeWindow
    BY <2>1 DEF ScrInv, Shape, Handled
  <2>3. handles["from"] = debounced["from"] /\ handles["to"] = debounced["to"]
    <3>1. Len(timers) = 0
      BY <1>1, <1>3
    <3> QED BY <1>1, <1>2, <1>3, <3>1 DEF ScrInv, Lagging, Lags
  <2>4. debounced = handles
    BY <2>2, <2>3 DEF ScrInv, Shape, Copied, TimeWindow
  <2>5. debounced.from # AllTime /\ debounced.to # AllTime
    BY <2>2, <2>4, AllTimeAssumption DEF TimeWindow
  <2>6. view.window = Committed
    BY <1>1, <1>2, <1>3, <2>5 DEF ScrInv, Fixed
  <2> QED BY <2>1, <2>4, <2>6
<1>4. ScrubberTypeOK
  BY <1>3 DEF ScrubberTypeOK, ScrInv, Shape, Ranged, Handled, Sourced, TimeWindow
<1>5. HandlesTellWindow
  <2> SUFFICES ASSUME AtRest, range # AllTime
               PROVE  IF view.window = AllTime THEN handles = range
                      ELSE /\ ~Apart(view.window.from, handles.from)
                           /\ ~Apart(view.window.to, handles.to)
    BY DEF HandlesTellWindow
  <2>1. /\ handles \in TimeWindow /\ range \in TimeWindow
        /\ range.from <= handles.from /\ handles.to <= range.to
    BY <1>3 DEF ScrInv, Shape, Ranged, Handled
  <2>2. /\ handles.from \in Int /\ handles.to \in Int /\ range.from \in Int /\ range.to \in Int
        /\ handles # AllTime
        /\ handles = [from |-> handles.from, to |-> handles.to]
        /\ range = [from |-> range.from, to |-> range.to]
    BY <2>1, AllTimeAssumption DEF TimeWindow
  <2>3. SpansAll => handles = range
    <3>1. SpansAll => handles.from = range.from /\ handles.to = range.to
      BY <1>3, <2>1, <2>2 DEF SpansAll
    <3> QED BY <2>2, <3>1
  <2>4. \A a \in Int : ~Apart(a, a)
    BY ToleranceAssumption DEF Apart
  <2> QED BY <1>3, <2>2, <2>3, <2>4 DEF Committed
<1> QED BY <1>4, <1>5 DEF ScrubberInv

LEMMA ScrubberBegins == ASSUME ScrubberInit PROVE ScrInv
<1>1. /\ range = AllTime /\ handles = Unset /\ debounced = Unset /\ timers = << >>
      /\ graph = {} /\ seeds = {} /\ pending = {} /\ issued = 0
      /\ view = [hops |-> 1, dir |-> Both, window |-> AllTime]
  BY DEF ScrubberInit, Init
<1>2. Shape
  BY <1>1, InitialAssumption DEF Shape, Ranged, Handled, Copied, Windowed, Unset
<1>3. Before /\ Lagging
  BY <1>1 DEF Before, Lagging, Lags
<1>4. Fixed
  BY <1>1 DEF Fixed
<1>5. Sourced
  BY <1>1, FS_EmptySet DEF Sourced, Timed
<1> QED BY <1>2, <1>3, <1>4, <1>5 DEF ScrInv

-----------------------------------------------------------------------------
\* The store, as the scrubber uses it.
LEMMA RefreshSourced ==
    ASSUME Sourced, NEW ss \in SUBSET Id, IsFiniteSet(ss), NEW v, seeds' = ss,
           Refresh(ss, v, pending)
    PROVE  Sourced'
<1>1. CASE ss = {}
  <2>1. graph' = {} /\ pending' = pending /\ issued' = issued
    BY <1>1 DEF Refresh
  <2> QED BY <2>1, FS_EmptySet DEF Sourced, Timed, Answerable
<1>2. CASE ss # {}
  <2> DEFINE q == [Request("refresh", ss, <<>>, v) EXCEPT !.id = issued]
  <2>1. /\ graph' = graph /\ pending' = pending \cup {q} /\ issued' = issued + 1
    BY <1>2 DEF Refresh, Send
  <2>2. q.seeds = ss
    BY DEF Request
  <2> HIDE DEF q
  <2> QED BY <2>1, <2>2 DEF Sourced, Timed, Answerable
<1> QED BY <1>1, <1>2

LEMMA AnswerSourced == ASSUME AnswersTimed, Sourced, Answer PROVE Sourced'
<1>1. CASE \E r \in Requests("refresh") : RefreshAnswered(r)
  <2>1. PICK r \in pending : RefreshAnswered(r)
    BY <1>1 DEF Requests
  <2>2. /\ graph' = Union(r.seeds, r.view) /\ pending' = pending \ {r}
        /\ seeds' = seeds /\ issued' = issued
    BY <2>1 DEF RefreshAnswered
  <2>3. Timed(Union(r.seeds, r.view))
    BY UnionTimed DEF Sourced, Answerable
  <2>4. PICK g : g = Union(r.seeds, r.view) /\ g = graph'
    BY <2>2
  <2>5. Timed(g)
    BY <2>3, <2>4
  <2> QED BY <2>2, <2>4, <2>5 DEF Sourced, Timed, Answerable
<1>2. CASE \E r \in pending : Failed(r)
  <2>1. /\ graph' = graph /\ pending' \subseteq pending
        /\ seeds' = seeds /\ issued' = issued
    BY <1>2 DEF Failed
  <2> QED BY <2>1 DEF Sourced, Timed, Answerable
<1> QED BY <1>1, <1>2 DEF Answer

\* Effects, debounced copies and answers.
LEMMA AnswerKeeps == ASSUME AnswersTimed, ScrInv, Answer PROVE ScrInv'
<1>1. UNCHANGED <<range, handles, debounced, timers, shown, view>>
  BY DEF Answer, scrubber, RefreshAnswered, Failed
<1>2. Sourced'
  BY AnswerSourced DEF ScrInv
<1>3. Shape' /\ Before' /\ Lagging'
  BY <1>1 DEF ScrInv, Shape, Ranged, Handled, Copied, Windowed, Before, Lagging, Lags, Unset
<1>4. Fixed'
  BY <1>1 DEF ScrInv, Fixed, Committed, SpansAll
<1> QED BY <1>2, <1>3, <1>4 DEF ScrInv

LEMMA SourcedSame ==
    ASSUME Sourced, UNCHANGED <<graph, seeds, pending, issued>> PROVE Sourced'
BY DEF Sourced, Timed, Answerable

LEMMA DebounceKeeps ==
    ASSUME ScrInv, NEW n \in 1 .. Len(timers), DebounceElapses(n) PROVE ScrInv'
<1>1. /\ shown = Rendered /\ UNCHANGED <<range, handles, shown, view, graph, seeds, pending, issued>>
      /\ debounced' = [h \in {"from", "to"} |->
                         IF \E k \in 1 .. n : timers[k] = h THEN handles[h] ELSE debounced[h]]
      /\ timers' = SubSeq(timers, n + 1, Len(timers))
  BY DEF DebounceElapses, Flushed, vars
<1>2. /\ shown.handles = handles /\ shown.range = range
      /\ shown.debounced = debounced /\ shown.window = view.window
  BY <1>1 DEF Rendered
<1>3. \A h \in {"from", "to"} :
         /\ handles[h] \in Int \cup {AllTime} /\ debounced[h] \in Int \cup {AllTime}
         /\ debounced'[h] \in {handles[h], debounced[h]}
         /\ (\E k \in 1 .. n : timers[k] = h) => debounced'[h] = handles[h]
         /\ ~(\E k \in 1 .. n : timers[k] = h) => debounced'[h] = debounced[h]
  BY <1>1 DEF ScrInv, Shape, Handled, Copied, TimeWindow, Unset
<1>4. Copied'
  <2>1. debounced' = [from |-> debounced'["from"], to |-> debounced'["to"]]
    BY <1>1
  <2> QED BY <1>3, <2>1 DEF Copied
<1>5. Shape'
  BY <1>1, <1>4 DEF ScrInv, Shape, Ranged, Handled, Windowed, Unset
<1>6. Before'
  <2> SUFFICES ASSUME handles = Unset
               PROVE  /\ view.window = AllTime /\ debounced' = Unset
                      /\ range # AllTime => shown.range # range
    BY <1>1 DEF Before, Unset
  <2>1. debounced = Unset
    BY DEF ScrInv, Before
  <2>2. debounced' = [h \in {"from", "to"} |-> AllTime]
    BY <1>1, <2>1 DEF Unset
  <2> QED BY <2>2 DEF ScrInv, Before, Unset
<1>7. Lagging'
  <2>1. /\ timers \in Seq({"from", "to"}) /\ n \in Nat /\ n <= Len(timers) /\ Len(timers) \in Nat
    BY DEF ScrInv, Lagging
  <2>2. /\ timers' \in Seq({"from", "to"}) /\ Len(timers') = Len(timers) - n
        /\ \A k \in 1 .. Len(timers) - n : timers'[k] = timers[n + k]
    <3>1. \A i \in n + 1 .. Len(timers) : timers[i] \in {"from", "to"}
      BY <2>1
    <3>2. /\ SubSeq(timers, n + 1, Len(timers)) \in Seq({"from", "to"})
          /\ Len(SubSeq(timers, n + 1, Len(timers))) =
                IF n + 1 <= Len(timers) THEN Len(timers) - (n + 1) + 1 ELSE 0
          /\ \A i \in 1 .. Len(timers) - (n + 1) + 1 :
                SubSeq(timers, n + 1, Len(timers))[i] = timers[n + 1 + i - 1]
      BY <2>1, <3>1, SubSeqProperties
    <3>3. PICK ts : ts = SubSeq(timers, n + 1, Len(timers)) /\ ts = timers'
      BY <1>1
    <3>4. Len(ts) = Len(timers) - n
      BY <2>1, <3>2, <3>3
    <3>5. ASSUME NEW k \in 1 .. Len(timers) - n PROVE ts[k] = timers[n + k]
      <4>1. k \in 1 .. Len(timers) - (n + 1) + 1 /\ n + 1 + k - 1 = n + k
        BY <2>1
      <4> QED BY <3>2, <3>3, <4>1
    <3> QED BY <3>2, <3>3, <3>4, <3>5
  <2>3. ASSUME NEW h \in {"from", "to"}, Lags(h), handles[h] # debounced'[h]
        PROVE  \E k \in 1 .. Len(timers') : timers'[k] = h
    <3>1. ~(\E k \in 1 .. n : timers[k] = h) /\ debounced'[h] = debounced[h]
      BY <1>3, <2>3
    <3>2. PICK k \in 1 .. Len(timers) : timers[k] = h
      BY <1>2, <2>3, <3>1 DEF Lags
    <3>3. k - n \in 1 .. Len(timers) - n /\ n + (k - n) = k
      BY <2>1, <3>1, <3>2
    <3>4. timers'[k - n] = h
      BY <2>2, <3>2, <3>3
    <3> QED BY <2>2, <3>3, <3>4
  <2>4. Lags("from")' /\ Lags("to")'
    BY <1>1, <2>3 DEF Lags, ScrInv, Lagging
  <2> QED BY <2>2, <2>4 DEF Lagging
<1>8. Fixed'
  <2>1. CASE debounced' = debounced
    BY <1>1, <2>1 DEF ScrInv, Fixed, Committed, SpansAll
  <2>2. CASE debounced' # debounced
    BY <1>1, <1>2, <2>2 DEF Fixed
  <2> QED BY <2>1, <2>2
<1>9. Sourced'
  BY <1>1, SourcedSame DEF ScrInv
<1> QED BY <1>5, <1>6, <1>7, <1>8, <1>9 DEF ScrInv

-----------------------------------------------------------------------------
\* What the user does to handles and window leaves the rest to the effects.
LEMMA ActedKeeps ==
    ASSUME ScrInv, Flushed, UNCHANGED <<range, debounced, timers, shown>>,
           Handled', Windowed', Sourced',
           handles' = Unset => handles = Unset /\ view'.window \in {view.window, AllTime}
    PROVE  ScrInv'
<1>1. /\ shown.handles = handles /\ shown.range = range
      /\ shown.debounced = debounced /\ shown.window = view.window
  BY DEF Flushed, Rendered
<1>2. Shape'
  BY DEF ScrInv, Shape, Ranged, Copied
<1>3. Before'
  BY DEF ScrInv, Before, Unset
<1>4. Lagging'
  <2>1. ASSUME NEW h \in {"from", "to"}, Lags(h) PROVE Lags(h)'
    BY <1>1, <2>1 DEF Lags
  <2> QED BY <2>1 DEF ScrInv, Lagging
<1>5. Fixed'
  <2>1. CASE view'.window = view.window
    BY <2>1 DEF ScrInv, Fixed, Committed, SpansAll
  <2>2. CASE view'.window # view.window
    BY <1>1, <2>2 DEF Fixed
  <2> QED BY <2>1, <2>2
<1> QED BY <1>2, <1>3, <1>4, <1>5 DEF ScrInv

LEMMA HandlesSet ==
    ASSUME ScrInv, Flushed, range # AllTime
    PROVE  /\ handles # Unset /\ handles \in TimeWindow /\ range \in TimeWindow
           /\ range.from <= handles.from /\ handles.from < handles.to
           /\ handles.to <= range.to /\ range.from + 2 <= range.to
BY DEF ScrInv, Shape, Ranged, Handled, Before, Flushed, Rendered

LEMMA TimeWindowSet == \A w \in TimeWindow : w # Unset
BY AllTimeAssumption DEF TimeWindow, Unset

LEMMA MinOfTwo ==
    ASSUME NEW a \in Int, NEW b \in Int PROVE Min({a, b}) = IF a <= b THEN a ELSE b
BY DEF Min

LEMMA MaxOfTwo ==
    ASSUME NEW a \in Int, NEW b \in Int PROVE Max({a, b}) = IF a >= b THEN a ELSE b
BY DEF Max

LEMMA ActKeeps == ASSUME ScrInv, Act PROVE ScrInv'
<1>1. CASE (\E id \in Id : Pivot(id)) \/ ClearView
  <2>1. /\ Flushed /\ UNCHANGED <<handles, range, debounced, timers, shown>>
        /\ view' \in {view, [view EXCEPT !.window = AllTime]}
    BY <1>1 DEF Pivot, ClearView, Acts, PivotTo, Show, Clear
  <2>2. Handled' /\ Windowed'
    BY <2>1 DEF ScrInv, Shape, Handled, Windowed, Unset
  <2>3. view'.window \in {view.window, AllTime}
    BY <2>1 DEF ScrInv, Shape, Windowed
  <2>4. Sourced'
    <3>1. CASE \E id \in Id : Pivot(id)
      <4>1. PICK id \in Id : Pivot(id)
        BY <3>1
      <4>2. Refresh({id}, view, pending) /\ seeds' = {id}
        BY <4>1 DEF Pivot, PivotTo, Show
      <4>3. IsFiniteSet({id})
        BY FS_Singleton
      <4> QED BY <4>2, <4>3, RefreshSourced DEF ScrInv
    <3>2. CASE ClearView
      <4>1. seeds' = {} /\ graph' = {} /\ pending' = pending /\ issued' = issued
        BY <3>2 DEF ClearView, Clear
      <4> QED BY <4>1, FS_EmptySet DEF ScrInv, Sourced, Timed, Answerable
    <3> QED BY <1>1, <3>1, <3>2
  <2> QED BY <2>1, <2>2, <2>3, <2>4, ActedKeeps
<1>2. CASE \/ \E v \in Stops : DragFrom(v) \/ DragTo(v)
           \/ \E half \in {"first", "second"} : Preset(half)
  <2>1. /\ Flushed /\ range # AllTime /\ UNCHANGED <<range, debounced, timers, shown>>
        /\ UNCHANGED <<graph, seeds, pending, issued, view>>
    BY <1>2 DEF DragFrom, DragTo, Preset, Acts, vars
  <2>2. /\ handles \in TimeWindow /\ range \in TimeWindow
        /\ range.from <= handles.from /\ handles.from < handles.to
        /\ handles.to <= range.to /\ range.from + 2 <= range.to
    BY <2>1, HandlesSet
  <2>3. /\ handles.from \in Int /\ handles.to \in Int
        /\ range.from \in Int /\ range.to \in Int
    BY <2>2 DEF TimeWindow
  <2>4. /\ handles' \in TimeWindow /\ range.from <= handles'.from
        /\ handles'.from < handles'.to /\ handles'.to <= range.to
    <3>1. CASE \E v \in Stops : DragFrom(v)
      <4>1. PICK v \in Stops : /\ v \in range.from .. range.to
                               /\ handles' = [handles EXCEPT !.from = Min({v, handles.to - 1})]
        BY <3>1 DEF DragFrom
      <4>2. Min({v, handles.to - 1}) = IF v <= handles.to - 1 THEN v ELSE handles.to - 1
        BY <2>3, <4>1, MinOfTwo
      <4>3. /\ handles'.from = Min({v, handles.to - 1}) /\ handles'.to = handles.to
            /\ handles' = [from |-> handles'.from, to |-> handles'.to]
        BY <2>2, <4>1 DEF TimeWindow
      <4> QED BY <2>2, <2>3, <4>1, <4>2, <4>3 DEF TimeWindow
    <3>2. CASE \E v \in Stops : DragTo(v)
      <4>1. PICK v \in Stops : /\ v \in range.from .. range.to
                               /\ handles' = [handles EXCEPT !.to = Max({v, handles.from + 1})]
        BY <3>2 DEF DragTo
      <4>2. Max({v, handles.from + 1}) = IF v >= handles.from + 1 THEN v ELSE handles.from + 1
        BY <2>3, <4>1, MaxOfTwo
      <4>3. /\ handles'.to = Max({v, handles.from + 1}) /\ handles'.from = handles.from
            /\ handles' = [from |-> handles'.from, to |-> handles'.to]
        BY <2>2, <4>1 DEF TimeWindow
      <4> QED BY <2>2, <2>3, <4>1, <4>2, <4>3 DEF TimeWindow
    <3>3. CASE \E half \in {"first", "second"} : Preset(half)
      <4>1. handles' \in {[range EXCEPT !.to = Middle], [range EXCEPT !.from = Middle]}
        BY <3>3 DEF Preset
      <4>2. Middle \in Int /\ range.from < Middle /\ Middle < range.to
        BY <2>2, <2>3 DEF Middle
      <4>3. \/ handles' = [from |-> range.from, to |-> Middle]
            \/ handles' = [from |-> Middle, to |-> range.to]
        BY <2>2, <4>1 DEF TimeWindow
      <4> QED BY <2>2, <2>3, <4>2, <4>3 DEF TimeWindow
    <3> QED BY <1>2, <3>1, <3>2, <3>3
  <2>5. Handled' /\ Windowed' /\ handles' # Unset
    BY <2>1, <2>4, TimeWindowSet DEF ScrInv, Shape, Handled, Windowed
  <2>6. Sourced'
    BY <2>1, SourcedSame DEF ScrInv
  <2> QED BY <2>1, <2>5, <2>6, ActedKeeps
<1>3. CASE PresetAll
  <2>1. /\ Flushed /\ range # AllTime /\ UNCHANGED <<range, debounced, timers, shown>>
        /\ handles' = range /\ view' = [view EXCEPT !.window = AllTime]
        /\ seeds' = seeds /\ Refresh(seeds, [view EXCEPT !.window = AllTime], pending)
    BY <1>3 DEF PresetAll, Acts, SetWindow, Show
  <2>2. range \in TimeWindow /\ range.from + 2 <= range.to /\ range.from \in Int /\ range.to \in Int
    BY <2>1, HandlesSet DEF TimeWindow
  <2>3. Windowed'
    BY <2>1 DEF ScrInv, Shape, Windowed
  <2>4. Handled' /\ handles' # Unset
    BY <2>1, <2>2, TimeWindowSet DEF Handled
  <2>5. Sourced'
    BY <2>1, RefreshSourced DEF ScrInv, Sourced
  <2> QED BY <2>1, <2>3, <2>4, <2>5, ActedKeeps
<1> QED BY <1>1, <1>2, <1>3 DEF Act

-----------------------------------------------------------------------------
LEMMA RangeGrows ==
    ASSUME ScrInv
    PROVE  /\ Ranged /\ (RangeAfter = AllTime \/ (RangeAfter \in TimeWindow
                                                  /\ RangeAfter.from + 2 <= RangeAfter.to))
           /\ range # AllTime => /\ RangeAfter # AllTime
                                 /\ RangeAfter.from <= range.from /\ RangeAfter.to >= range.to
<1>1. CASE RangeAfter = range
  <2>1. range # AllTime => range.from \in Int /\ range.to \in Int
    BY DEF ScrInv, Shape, Ranged, TimeWindow
  <2> QED BY <1>1, <2>1 DEF ScrInv, Shape, Ranged
<1>2. CASE graph # {} /\ Extent.from < Extent.to /\ RangeAfter = Widened
  <2>1. Extent.from \in Int /\ Extent.to \in Int /\ Extent.from < Extent.to /\ Pad \in Nat /\ Pad > 0
    BY <1>2, ExtentIs, PadAssumption DEF ScrInv, Sourced, TimeWindow
  <2>2. /\ Padded = [from |-> Padded.from, to |-> Padded.to]
        /\ Padded.from \in Int /\ Padded.to \in Int /\ Padded.from + 2 <= Padded.to
    BY <2>1 DEF Padded
  <2>3. CASE range = AllTime
    <3>1. RangeAfter = Padded
      BY <1>2, <2>3 DEF Widened
    <3>2. Padded \in TimeWindow
      BY <2>2 DEF TimeWindow
    <3> QED BY <2>2, <2>3, <3>1, <3>2 DEF Ranged
  <2>4. CASE range # AllTime
    <3> DEFINE lo == Min({range.from, Padded.from})
               hi == Max({range.to, Padded.to})
    <3>1. range \in TimeWindow /\ range.from \in Int /\ range.to \in Int /\ range.from + 2 <= range.to
      BY <2>4 DEF ScrInv, Shape, Ranged, TimeWindow
    <3>2. RangeAfter = [from |-> lo, to |-> hi]
      BY <1>2, <2>4 DEF Widened
    <3>3. lo = IF range.from <= Padded.from THEN range.from ELSE Padded.from
      BY <2>2, <3>1, MinOfTwo
    <3>4. hi = IF range.to >= Padded.to THEN range.to ELSE Padded.to
      BY <2>2, <3>1, MaxOfTwo
    <3> HIDE DEF lo, hi
    <3>5. lo \in Int /\ hi \in Int /\ lo <= range.from /\ hi >= range.to /\ lo + 2 <= hi
      BY <2>2, <3>1, <3>3, <3>4
    <3>6. RangeAfter \in TimeWindow /\ RangeAfter.from = lo /\ RangeAfter.to = hi
      BY <3>2, <3>5 DEF TimeWindow
    <3>7. RangeAfter # AllTime
      BY <3>6, AllTimeAssumption DEF TimeWindow
    <3> QED BY <3>1, <3>5, <3>6, <3>7 DEF Ranged
  <2> QED BY <2>3, <2>4
<1> QED BY <1>1, <1>2 DEF RangeAfter

LEMMA RestartedHas ==
    ASSUME NEW ts \in Seq({"from", "to"}), NEW h \in {"from", "to"}, NEW g \in {"from", "to"},
           h # g
    PROVE  /\ Restarted(ts, h, g) \in Seq({"from", "to"})
           /\ (\E k \in 1 .. Len(ts) : ts[k] = g) =>
                 \E k \in 1 .. Len(Restarted(ts, h, g)) : Restarted(ts, h, g)[k] = g
           /\ (\E k \in 1 .. Len(ts) : ts[k] = h) \/ handles[h] # shown.handles[h] =>
                 \E k \in 1 .. Len(Restarted(ts, h, g)) : Restarted(ts, h, g)[k] = h
<1>1. CASE handles[h] = shown.handles[h]
  BY <1>1 DEF Restarted
<1>2. CASE handles[h] # shown.handles[h] /\ \E k \in 1 .. Len(ts) : ts[k] = g
  <2>1. Restarted(ts, h, g) = <<g, h>>
    BY <1>2 DEF Restarted
  <2>2. /\ <<g, h>> \in Seq({"from", "to"}) /\ Len(<<g, h>>) = 2
        /\ <<g, h>>[1] = g /\ <<g, h>>[2] = h /\ 1 \in 1 .. 2 /\ 2 \in 1 .. 2
    OBVIOUS
  <2> QED BY <2>1, <2>2
<1>3. CASE handles[h] # shown.handles[h] /\ ~\E k \in 1 .. Len(ts) : ts[k] = g
  <2>1. Restarted(ts, h, g) = <<h>>
    BY <1>3 DEF Restarted
  <2>2. <<h>> \in Seq({"from", "to"}) /\ Len(<<h>>) = 1 /\ <<h>>[1] = h /\ 1 \in 1 .. 1
    OBVIOUS
  <2> QED BY <1>3, <2>1, <2>2
<1> QED BY <1>1, <1>2, <1>3

LEMMA TimersStarted ==
    ASSUME timers \in Seq({"from", "to"}), NEW h \in {"from", "to"}
    PROVE  /\ TimersAfter \in Seq({"from", "to"})
           /\ (\E k \in 1 .. Len(timers) : timers[k] = h) \/ handles[h] # shown.handles[h] =>
                 \E k \in 1 .. Len(TimersAfter) : TimersAfter[k] = h
<1>1. PICK ts : ts = Restarted(timers, "from", "to")
  OBVIOUS
<1>2. /\ ts \in Seq({"from", "to"})
      /\ (\E k \in 1 .. Len(timers) : timers[k] = "to") => \E k \in 1 .. Len(ts) : ts[k] = "to"
      /\ (\E k \in 1 .. Len(timers) : timers[k] = "from")
            \/ handles["from"] # shown.handles["from"] => \E k \in 1 .. Len(ts) : ts[k] = "from"
  BY <1>1, RestartedHas
<1>3. PICK us : us = Restarted(ts, "to", "from")
  OBVIOUS
<1>4. TimersAfter = us
  BY <1>1, <1>3 DEF TimersAfter
<1>5. /\ us \in Seq({"from", "to"})
      /\ (\E k \in 1 .. Len(ts) : ts[k] = "from") => \E k \in 1 .. Len(us) : us[k] = "from"
      /\ (\E k \in 1 .. Len(ts) : ts[k] = "to")
            \/ handles["to"] # shown.handles["to"] => \E k \in 1 .. Len(us) : us[k] = "to"
  BY <1>2, <1>3, RestartedHas
<1>6. CASE h = "from"
  BY <1>2, <1>4, <1>5, <1>6
<1>7. CASE h = "to"
  BY <1>2, <1>4, <1>5, <1>7
<1> QED BY <1>6, <1>7

LEMMA EffectsKeep == ASSUME ScrInv, RunEffects PROVE ScrInv'
<1>1. /\ shown' = Rendered /\ debounced' = debounced /\ seeds' = seeds
      /\ range' \in {range, RangeAfter} /\ handles' = HandlesAfter /\ timers' = TimersAfter
      /\ view' = [view EXCEPT !.window = WindowAfter]
  BY DEF RunEffects
<1>2. /\ shown'.handles = handles /\ shown'.range = range
      /\ shown'.debounced = debounced /\ shown'.window = view.window
  BY <1>1 DEF Rendered
<1>3. /\ Changed({"range", "window"}) <=> shown.range # range \/ shown.window # view.window
      /\ Changed({"debounced", "range", "window"}) <=>
            shown.debounced # debounced \/ shown.range # range \/ shown.window # view.window
  BY DEF Changed, Rendered
<1>4. /\ Ranged'
      /\ range # AllTime => /\ range' # AllTime /\ range \in TimeWindow
                            /\ range'.from <= range.from /\ range'.to >= range.to
                            /\ range.from + 2 <= range.to
  <2>1. CASE range' = range
    <3>1. range # AllTime => range.from \in Int /\ range.to \in Int
      BY DEF ScrInv, Shape, Ranged, TimeWindow
    <3> QED BY <2>1, <3>1 DEF ScrInv, Shape, Ranged
  <2>2. CASE range' = RangeAfter
    BY <2>2, RangeGrows DEF Ranged
  <2> QED BY <1>1, <2>1, <2>2
<1>5. handles' \in {handles, Unset, range} /\ (range # AllTime => handles' \in TimeWindow)
      /\ (range = AllTime => handles' = Unset)
  <2>1. CASE range = AllTime
    <3>1. handles = Unset
      BY <2>1 DEF ScrInv, Shape, Handled
    <3> QED BY <1>1, <2>1, <3>1 DEF HandlesAfter
  <2>2. CASE range # AllTime /\ handles = Unset
    <3>1. Changed({"range", "window"}) /\ view.window = AllTime
      BY <1>3, <2>2 DEF ScrInv, Before
    <3> QED BY <1>1, <1>4, <2>2, <3>1 DEF HandlesAfter
  <2>3. CASE range # AllTime /\ handles # Unset
    <3>1. handles \in TimeWindow
      BY <2>3 DEF ScrInv, Shape, Handled
    <3>2. handles' \in {handles, range}
      BY <1>1, <2>3 DEF HandlesAfter
    <3> QED BY <1>4, <2>3, <3>1, <3>2
  <2> QED BY <2>1, <2>2, <2>3
<1>6. WindowAfter \in TimeWindow \cup {AllTime}
  <2>1. view.window \in TimeWindow \cup {AllTime}
    BY DEF ScrInv, Shape, Windowed
  <2>2. debounced.from # AllTime /\ debounced.to # AllTime => debounced \in TimeWindow
    BY DEF ScrInv, Shape, Copied, TimeWindow
  <2> QED BY <2>1, <2>2 DEF WindowAfter, Committed
<1>7. Windowed' /\ view'.window = WindowAfter
  BY <1>1, <1>6 DEF ScrInv, Shape, Windowed
<1>8. Handled'
  <2>1. CASE range = AllTime
    BY <1>5, <2>1 DEF Handled, Unset
  <2>2. CASE range # AllTime
    <3>1. handles' \in {handles, range} /\ handles' \in TimeWindow
      BY <1>5, <2>2, TimeWindowSet
    <3>2. /\ range.from \in Int /\ range.to \in Int /\ handles'.from \in Int /\ handles'.to \in Int
      BY <1>4, <2>2, <3>1 DEF TimeWindow
    <3>3. range'.from \in Int /\ range'.to \in Int
      BY <1>4, <2>2 DEF Ranged, TimeWindow
    <3>4. /\ range.from <= handles'.from /\ handles'.from < handles'.to
          /\ handles'.to <= range.to
      <4>1. CASE handles' = range
        BY <1>4, <2>2, <3>2, <4>1
      <4>2. CASE handles' = handles
        BY <3>1, <4>2, TimeWindowSet DEF ScrInv, Shape, Handled
      <4> QED BY <3>1, <4>1, <4>2
    <3>5. range'.from <= handles'.from /\ handles'.to <= range'.to
      BY <1>4, <2>2, <3>2, <3>3, <3>4
    <3> QED BY <1>4, <2>2, <3>1, <3>4, <3>5 DEF Handled
  <2> QED BY <2>1, <2>2
<1>9. Shape'
  BY <1>1, <1>4, <1>7, <1>8 DEF ScrInv, Shape, Copied
<1>10. Before'
  <2>1. ASSUME handles' = Unset
        PROVE  range = AllTime /\ view.window = AllTime /\ debounced = Unset
    <3>1. range = AllTime
      BY <1>5, <2>1, TimeWindowSet
    <3>2. handles = Unset
      BY <3>1 DEF ScrInv, Shape, Handled
    <3> QED BY <3>1, <3>2 DEF ScrInv, Before
  <2>2. range = AllTime => WindowAfter = view.window
    BY DEF WindowAfter
  <2> QED BY <1>1, <1>2, <1>7, <2>1, <2>2 DEF Before, Unset
<1>11. Lagging'
  <2>1. ASSUME NEW h \in {"from", "to"}, Lags(h) PROVE Lags(h)'
    <3>1. timers \in Seq({"from", "to"})
      BY DEF ScrInv, Lagging
    <3>2. CASE handles'[h] # handles[h]
      BY <1>2, <3>2 DEF Lags
    <3>3. CASE handles'[h] = handles[h]
      <4>1. handles[h] # debounced[h] =>
               (\E k \in 1 .. Len(timers) : timers[k] = h) \/ handles[h] # shown.handles[h]
        BY <2>1 DEF Lags
      <4>2. handles[h] # debounced[h] => \E k \in 1 .. Len(TimersAfter) : TimersAfter[k] = h
        BY <3>1, <4>1, TimersStarted
      <4> QED BY <1>1, <3>3, <4>2 DEF Lags
    <3> QED BY <3>2, <3>3
  <2>2. timers' \in Seq({"from", "to"})
    <3>1. "from" \in {"from", "to"}
      OBVIOUS
    <3> QED BY <1>1, <3>1, TimersStarted DEF ScrInv, Lagging
  <2> QED BY <2>1, <2>2 DEF ScrInv, Lagging
<1>12. Fixed'
  <2> SUFFICES ASSUME range' # AllTime, debounced'.from # AllTime, debounced'.to # AllTime,
                      shown'.range = range', shown'.window = view'.window
               PROVE  view'.window = Committed'
    BY DEF Fixed
  <2>1. range' = range /\ view'.window = view.window /\ WindowAfter = view.window
    BY <1>2, <1>7
  <2>2. Committed' = Committed
    BY <1>1, <2>1 DEF Committed, SpansAll
  <2>3. CASE Changed({"debounced", "range", "window"})
    <3>1. WindowAfter = Committed
      BY <1>1, <2>1, <2>3 DEF WindowAfter
    <3> QED BY <2>1, <2>2, <3>1
  <2>4. CASE ~Changed({"debounced", "range", "window"})
    <3>1. view.window = Committed
      BY <1>1, <1>3, <2>1, <2>4 DEF ScrInv, Fixed
    <3> QED BY <2>1, <2>2, <3>1
  <2> QED BY <2>3, <2>4
<1>13. Sourced'
  <2>1. CASE WindowAfter # view.window
    <3>1. PICK v : v = view'
      OBVIOUS
    <3>2. Refresh(seeds, v, pending)
      BY <2>1, <3>1 DEF RunEffects
    <3> QED BY <1>1, <3>2, RefreshSourced DEF ScrInv, Sourced
  <2>2. CASE WindowAfter = view.window
    <3>1. UNCHANGED <<graph, pending, issued>>
      BY <2>2 DEF RunEffects
    <3> QED BY <1>1, <3>1, SourcedSame DEF ScrInv
  <2> QED BY <2>1, <2>2
<1> QED BY <1>9, <1>10, <1>11, <1>12, <1>13 DEF ScrInv

LEMMA ScrubberSteps == ASSUME AnswersTimed, ScrInv, [ScrubberNext]_all PROVE ScrInv'
<1>1. CASE UNCHANGED all
  <2>1. UNCHANGED <<range, handles, debounced, timers, shown, view, graph, seeds, pending, issued>>
    BY <1>1 DEF all, vars, scrubber
  <2>2. Shape' /\ Before' /\ Lagging'
    BY <2>1 DEF ScrInv, Shape, Ranged, Handled, Copied, Windowed, Before, Lagging, Lags, Unset
  <2>3. Fixed'
    BY <2>1 DEF ScrInv, Fixed, Committed, SpansAll
  <2>4. Sourced'
    BY <2>1, SourcedSame DEF ScrInv
  <2> QED BY <2>2, <2>3, <2>4 DEF ScrInv
<1> QED BY <1>1, ActKeeps, EffectsKeep, DebounceKeeps, AnswerKeeps DEF ScrubberNext, Run

\* In whatever order effects, timers, answers and the user's acts come: when the
\* scrubber has come to rest its handles show the window of the store, and no window
\* means that they are at the ends of the range (TimeScrubber.tsx:42, 58).
THEOREM HandlesAlwaysTell == ASSUME AnswersTimed PROVE ScrubberSpec => []ScrubberInv
<1>1. ScrubberInit => ScrInv
  BY ScrubberBegins
<1>2. ScrInv /\ [ScrubberNext]_all => ScrInv'
  BY ScrubberSteps
<1>3. ScrInv => ScrubberInv
  BY ScrInvTells
<1> QED BY <1>1, <1>2, <1>3, PTL DEF ScrubberSpec

\* A rewind never shortens the track: whatever is loaded and whichever window is set,
\* the range only widens (TimeScrubber.tsx:20).
THEOREM RangeAlwaysWidens == ASSUME AnswersTimed PROVE ScrubberSpec => RangeNeverNarrows
<1>1. ScrubberInit => ScrInv
  BY ScrubberBegins
<1>2. ScrInv /\ [ScrubberNext]_all => ScrInv'
  BY ScrubberSteps
<1>3. ASSUME ScrInv, [ScrubberNext]_all
      PROVE  [range # AllTime => range'.from <= range.from /\ range'.to >= range.to]_range
  <2>1. CASE RunEffects
    <3>1. range' \in {range, RangeAfter}
      BY <2>1 DEF RunEffects
    <3> QED BY <1>3, <3>1, RangeGrows
  <2>2. CASE ~RunEffects
    <3>1. range' = range
      BY <1>3, <2>2 DEF ScrubberNext, Run, Act, Pivot, ClearView, DragFrom, DragTo, Preset,
         PresetAll, Acts, DebounceElapses, Answer, all, scrubber
    <3> QED BY <3>1
  <2> QED BY <2>1, <2>2
<1> QED BY <1>1, <1>2, <1>3, PTL DEF ScrubberSpec, RangeNeverNarrows
=============================================================================
