------------------------------ MODULE AppStore ------------------------------
(***************************************************************************)
(* The investigation state of the web client                               *)
(* (frontend/src/store/useAppStore.ts).  An action of the user sets some   *)
(* state, starts a request and returns; the answer runs later, with the    *)
(* arguments the request was started with.  Nothing cancels a request and  *)
(* nothing orders the answers, so any of those in flight may be next.      *)
(*                                                                         *)
(* The graph shown is a set of items (nodes and edges by id), an attack    *)
(* path the set of its edges.  The filters, the selected node and the      *)
(* active view are left out: no handler here reads them.                   *)
(***************************************************************************)
EXTENDS Integers, Sequences, FiniteSets

CONSTANTS
    Id,                 \* node ids the user can pick
    Window,             \* rewind windows
    AllTime,            \* no window
    HopInput,           \* values the hop control sends
    Direction, Both,    \* directions, and the initial one
    Near(_, _),         \* api.neighbors: items around a seed in a view
    OnPath(_, _, _),    \* api.path: items between two nodes in a window
    Attack(_, _),       \* api.attackPaths: the ranked paths, best first
    TopRisk,            \* seeds loadOverview takes from api.topRisk
    MaxRequests         \* bound: requests the user starts

ASSUME InitialAssumption == Both \in Direction
ASSUME HopAssumption == HopInput \subseteq Int
ASSUME TopAssumption == TopRisk \subseteq Id
\* Paths offered together have the same ends and no cycle, and no two are equal, so
\* none lies within another (AttackPath!PathsSound).
ASSUME AttackAssumption ==
    \A x, y \in Id : LET paths == Attack(x, y) IN
        /\ paths \in Seq({paths[i] : i \in DOMAIN paths})
        /\ \A i, j \in DOMAIN paths : paths[i] \subseteq paths[j] => i = j
ASSUME MaxRequestsAssumption == MaxRequests \in Nat

VARIABLES
    seeds, view,        \* what the investigator asked for
    graph,              \* the items shown
    ranked,             \* the attack paths offered; Unasked before any were
    highlight,          \* the edges of the one picked
    loading, error,     \* status flags
    pending,            \* requests in flight
    issued,             \* how many were issued, which numbers them
    calm,               \* history: nothing was started with a request in flight
    refreshed           \* history: the graph was last set by a refresh

attack == <<ranked, highlight>>
vars == <<seeds, view, graph, attack, loading, error, pending, issued, calm, refreshed>>

Unasked == <<"unasked">>
Views == [hops : 1 .. 5, dir : Direction, window : Window \cup {AllTime}]
Clamp(n) == IF n < 1 THEN 1 ELSE IF n > 5 THEN 5 ELSE n

\* The neighbourhoods of a set of seeds, merged by id.
Union(ss, v) == UNION {Near(s, v) : s \in ss}

Init ==
    /\ seeds = {}
    /\ view = [hops |-> 1, dir |-> Both, window |-> AllTime]
    /\ graph = {}
    /\ ranked = Unasked
    /\ highlight = {}
    /\ loading = FALSE
    /\ error = FALSE
    /\ pending = {}
    /\ issued = 0
    /\ calm = TRUE
    /\ refreshed = TRUE

UserActs == calm' = (calm /\ pending = {})

\* The user starts no request past the bound; an overview may still refresh.
Bounded == issued < MaxRequests

\* A request leaves: the status flags say so.
Send(request, inFlight) ==
    /\ issued' = issued + 1
    /\ pending' = inFlight \cup {[request EXCEPT !.id = issued]}
    /\ loading' = TRUE
    /\ error' = FALSE

\* What a request was started with: seeds or two ends, and the view at the time.
Request(kind, ss, ends, v) ==
    [id |-> 0, kind |-> kind, seeds |-> ss, ends |-> ends, view |-> v]

\* refresh, from the seeds and the view as they are after the caller's set.
RefreshBefore(ss, v, inFlight) ==
    IF ss = {}
    THEN graph' = {} /\ refreshed' = TRUE /\ pending' = inFlight
         /\ UNCHANGED <<loading, error, issued>>
    ELSE Send(Request("refresh", ss, <<>>, view), inFlight) /\ UNCHANGED <<graph, refreshed>>
Refresh(ss, v, inFlight) ==
    IF ss = {}
    THEN graph' = {} /\ refreshed' = TRUE /\ pending' = inFlight
         /\ UNCHANGED <<loading, error, issued>>
    ELSE Send(Request("refresh", ss, <<>>, v), inFlight) /\ UNCHANGED <<graph, refreshed>>

Show(ss, v) ==
    /\ ss # {} => Bounded
    /\ UserActs
    /\ seeds' = ss
    /\ view' = v
    /\ Refresh(ss, v, pending)
    /\ UNCHANGED attack

PivotTo(id)     == Show({id}, view)
Expand(id)      == Show(seeds \cup {id}, view)
SetWindow(w)    == Show(seeds, [view EXCEPT !.window = w])
SetHops(n)      == Show(seeds, [view EXCEPT !.hops = Clamp(n)])
SetDirection(d) == Show(seeds, [view EXCEPT !.dir = d])

Ask(kind, ends) ==
    /\ Bounded
    /\ UserActs
    /\ Send(Request(kind, {ends[i] : i \in DOMAIN ends}, ends, view), pending)
    /\ UNCHANGED <<seeds, view, graph, attack, refreshed>>

LoadPath(src, dst)       == Ask("path", <<src, dst>>)
RunAttackPaths(src, dst) == Ask("attack", <<src, dst>>)
LoadOverview             == Ask("overview", <<>>)

Clear ==
    /\ UserActs
    /\ seeds' = {}
    /\ view' = [view EXCEPT !.window = AllTime]
    /\ graph' = {}
    /\ ranked' = Unasked
    /\ highlight' = {}
    /\ error' = FALSE
    /\ refreshed' = TRUE
    /\ UNCHANGED <<loading, pending, issued>>

\* highlightPath: another of the paths offered; an unknown rank changes nothing.
HighlightPath(rank) ==
    /\ ranked # Unasked /\ rank \in DOMAIN ranked
    /\ highlight' = ranked[rank]
    /\ UNCHANGED <<seeds, view, graph, ranked, loading, error, pending, issued, calm,
                   refreshed>>

ClearAttackPaths ==
    /\ ranked' = Unasked
    /\ highlight' = {}
    /\ UNCHANGED <<seeds, view, graph, loading, error, pending, issued, calm, refreshed>>

Requests(kind) == {r \in pending : r.kind = kind}

\* The answer of a refresh replaces the graph, whatever changed meanwhile.
RefreshAnswered(r) ==
    /\ graph' = Union(r.seeds, r.view)
    /\ refreshed' = TRUE
    /\ loading' = FALSE
    /\ pending' = pending \ {r}
    /\ UNCHANGED <<seeds, view, attack, error, issued, calm>>

\* The answers of loadPath and runAttackPaths add to it, and to the seeds.
Added(r, items) ==
    /\ graph' = graph \cup items
    /\ seeds' = seeds \cup r.seeds
    /\ refreshed' = FALSE
    /\ loading' = FALSE
    /\ pending' = pending \ {r}
    /\ UNCHANGED <<view, error, issued, calm>>

PathAnswered(r) ==
    /\ Added(r, OnPath(r.ends[1], r.ends[2], r.view.window))
    /\ UNCHANGED attack

\* All paths are shown and the best is highlighted. The server answers an empty
\* list with an error (lib.rs:464).
AttackKeepingHighlight(r) ==
    LET paths == Attack(r.ends[1], r.ends[2]) IN
    /\ paths # << >>
    /\ Added(r, UNION {paths[i] : i \in DOMAIN paths})
    /\ ranked' = paths
    /\ highlight' = IF ranked = Unasked THEN paths[1] ELSE highlight
AttackAnswered(r) ==
    LET paths == Attack(r.ends[1], r.ends[2]) IN
    /\ paths # << >>
    /\ Added(r, UNION {paths[i] : i \in DOMAIN paths})
    /\ ranked' = paths
    /\ highlight' = paths[1]

\* loadOverview pivots to the riskiest nodes there are, and refreshes.
NoTopRisk(r) ==
    /\ loading' = FALSE
    /\ pending' = pending \ {r}
    /\ UNCHANGED <<seeds, view, graph, attack, error, issued, calm, refreshed>>
TopRiskAnswered(r) ==
    /\ TopRisk # {}
    /\ seeds' = TopRisk
    /\ Refresh(TopRisk, view, pending \ {r})
    /\ UNCHANGED <<view, attack, calm>>

\* Any request may fail instead; what is shown stays. Paths that could not be had
\* are none, which leaves a highlight of earlier ones.
FailedSpinning(r) ==
    /\ error' = TRUE
    /\ refreshed' = (refreshed /\ r.kind # "refresh")
    /\ pending' = pending \ {r}
    /\ ranked' = IF r.kind = "attack" THEN << >> ELSE ranked
    /\ UNCHANGED <<seeds, view, graph, highlight, loading, issued, calm>>
Failed(r) ==
    /\ error' = TRUE
    /\ loading' = FALSE
    /\ refreshed' = (refreshed /\ r.kind # "refresh")
    /\ pending' = pending \ {r}
    /\ ranked' = IF r.kind = "attack" THEN << >> ELSE ranked
    /\ UNCHANGED <<seeds, view, graph, highlight, issued, calm>>

Settle ==
    \/ \E r \in Requests("refresh") : RefreshAnswered(r)
    \/ \E r \in Requests("path") : PathAnswered(r)
    \/ \E r \in Requests("attack") : AttackAnswered(r)
    \/ \E r \in Requests("overview") : NoTopRisk(r)
    \/ \E r \in Requests("overview") : TopRiskAnswered(r)
    \/ \E r \in pending : Failed(r)

Next ==
    \/ \E id \in Id : PivotTo(id)
    \/ \E id \in Id : Expand(id)
    \/ \E w \in Window \cup {AllTime} : SetWindow(w)
    \/ \E n \in HopInput : SetHops(n)
    \/ \E d \in Direction : SetDirection(d)
    \/ \E src, dst \in Id : LoadPath(src, dst)
    \/ \E src, dst \in Id : RunAttackPaths(src, dst)
    \/ LoadOverview
    \/ \E rank \in 1 .. 5 : HighlightPath(rank)
    \/ ClearAttackPaths
    \/ Clear
    \/ Settle

\* A fetch is answered or fails in the end; the user need not do anything.
Spec == Init /\ [][Next]_vars /\ WF_vars(Settle)

-----------------------------------------------------------------------------
(***************************************************************************)
(* Properties                                                              *)
(***************************************************************************)

\* Type invariant; the hop count stays within what the server accepts.
TypeOK ==
    /\ seeds \subseteq Id
    /\ view \in Views
    /\ loading \in BOOLEAN
    /\ error \in BOOLEAN
    /\ issued \in Nat
    /\ \A r \in pending : /\ r.kind \in {"refresh", "path", "attack", "overview"}
                          /\ r.id \in 0 .. issued - 1
                          /\ r.seeds \subseteq Id
                          /\ r.view \in Views
                          /\ r.kind \in {"path", "attack"} => r.ends \in Id \X Id
    /\ calm \in BOOLEAN
    /\ refreshed \in BOOLEAN

\* With nothing in flight the spinner is off, in whatever order overlapping
\* requests, each of which sets and clears the one flag, were answered.
IdleNotLoading == pending = {} => ~loading

\* AttackPathView: the first path offered all of whose edges are highlighted, or
\* else the first.
PathShown(paths, picked) ==
    LET lit == {i \in DOMAIN paths : paths[i] # {} /\ paths[i] \subseteq picked}
    IN IF lit = {} THEN paths[1] ELSE paths[CHOOSE i \in lit : \A j \in lit : i <= j]

\* The attack view shows the path that is highlighted in the graph, whichever of
\* several searches, lists and picks came last (AttackPathView.tsx:18).
HighlightIsShown ==
    (ranked # Unasked /\ ranked # << >>) => highlight = PathShown(ranked, highlight)

\* What holds of the store at any time, whichever requests overlap.
Inv == TypeOK /\ IdleNotLoading /\ HighlightIsShown

\* Used one action at a time the client keeps its promise: when everything is
\* answered or has failed and the graph comes from a refresh, it is the union of the
\* neighbourhoods of the current seeds in the current view.
CoherentWhenSequential ==
    (calm /\ pending = {} /\ refreshed) => graph = Union(seeds, view)

\* The spinner always stops in the end, whether requests succeed or fail.
SpinnerEnds == loading ~> ~loading
=============================================================================
