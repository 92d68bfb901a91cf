---------------------------- MODULE ProcessTree ----------------------------
(***************************************************************************)
(* The process-tree view of the web client (ProcessTreeView.tsx and        *)
(* treeLayout of lib/layout.ts): what it asks GET /graph/neighbors for the *)
(* selected node, and where it draws each node of the answer.  A row is a  *)
(* depth; places in a row are counted in units of 1 / Slot of a leaf's, so *)
(* that a parent's place, half way between its first and last child, is a  *)
(* whole number.                                                           *)
(***************************************************************************)
EXTENDS Traversal

VARIABLES
    layout,     \* what treeLayout has so far: [visited, depth, x, leaf]
    calls       \* the calls of `place` under way, each [id, kids, xs], the outermost first

treeVars == <<vars, layout, calls>>

TreeTypes == {"Started", "Spawned", "RanAs"}
TreeHops == 6

\* The handler serves fewer levels than the view asks for.
OpenTree(selected, time) ==
    Neighbors(selected, TreeHops, time, TreeTypes, "out")

TreeShown == /\ pc = "done" /\ query.seed \in Node /\ query.target = Missing
             /\ query.opts.types = TreeTypes \cap Type /\ query.opts.dir = "out"

-----------------------------------------------------------------------------
Slot == LET Power[n \in Nat] == IF n = 0 THEN 1 ELSE 2 * Power[n - 1]
        IN Power[Cardinality(Node)]

Put(map, id, v) == [n \in DOMAIN map \cup {id} |-> IF n = id THEN v ELSE map[n]]

Nowhere == [visited |-> {}, depth |-> [n \in {} |-> 0], x |-> [n \in {} |-> 0], leaf |-> 0]

\* The edges of the answer, by place, that lead to children not seen before. They are
\* listed when a node is entered, so that one may be placed by the time its turn comes.
Kids(id, seen) == {i \in DOMAIN found : found[i].src = id /\ found[i].dst \notin seen}

Least(S) == CHOOSE i \in S : \A j \in S : i <= j
Greatest(S) == CHOOSE i \in S : \A j \in S : j <= i
Centre(xs) == (Least(xs) + Greatest(xs)) \div 2

NextLeafSame(n) == n
NextLeaf(n) == n + 1

\* place(id): its depth is the number of calls it is made from.
Enter(id, under) ==
    LET seen == layout.visited \cup {id}
    IN /\ layout' = [layout EXCEPT !.visited = seen, !.depth = Put(@, id, Len(under))]
       /\ calls' = Append(under, [id |-> id, kids |-> Kids(id, seen), xs |-> {}])

Current == calls[Len(calls)]

PlaceRoot ==
    /\ TreeShown
    /\ layout = Nowhere
    /\ Enter(query.seed, << >>)
    /\ UNCHANGED vars

PlaceKid ==
    /\ calls # << >>
    /\ Current.kids # {}
    /\ LET kid == Least(Current.kids)
       IN Enter(found[kid].dst, [calls EXCEPT ![Len(calls)].kids = @ \ {kid}])
    /\ UNCHANGED vars

\* A node without children takes the next place, another one is put above its children.
\* The caller is told where it is.
Return ==
    /\ calls # << >>
    /\ Current.kids = {}
    /\ LET leaf == Current.xs = {}
           x    == IF leaf THEN Slot * layout.leaf ELSE Centre(Current.xs)
       IN /\ layout' = [layout EXCEPT !.x = Put(@, Current.id, x),
                                      !.leaf = IF leaf THEN NextLeaf(@) ELSE @]
          /\ calls' = [k \in 1 .. Len(calls) - 1 |->
                         IF k = Len(calls) - 1 THEN [calls[k] EXCEPT !.xs = @ \cup {x}]
                                               ELSE calls[k]]
    /\ UNCHANGED vars

TreeInit == Init /\ layout = Nowhere /\ calls = << >>

TreeNext ==
    \/ Next /\ UNCHANGED <<layout, calls>>
    \/ \E selected \in Asked, time \in TimeInput :
          OpenTree(selected, time) /\ UNCHANGED <<layout, calls>>
    \/ PlaceRoot
    \/ PlaceKid
    \/ Return

TreeSpec == TreeInit /\ [][TreeNext]_treeVars /\ WF_vars(SearchStep)

-----------------------------------------------------------------------------
(***************************************************************************)
(* Properties                                                              *)
(***************************************************************************)
\* The recursion never comes to a node while it is below it, on graphs with cycles
\* and loops, although a node is marked when it is entered and its children are
\* picked then (layout.ts:79): so it is no deeper than there are nodes.
NeverBelowItself ==
    \A i, j \in DOMAIN calls : calls[i].id = calls[j].id => i = j

Drawn == TreeShown /\ calls = << >> /\ layout # Nowhere

\* The tree shows every node of the answer, each in a place of its own
\* (layout.ts:84), on graphs with cycles and nodes that have several parents: the
\* fallback for nodes not reached from the root has nothing to do, no node hides
\* another, and none is higher than it is near.
EveryNodeDrawn ==
    Drawn =>
        /\ layout.visited = visited
        /\ \A n \in visited : n \in DOMAIN layout.depth /\ n \in DOMAIN layout.x
        /\ \A m, n \in visited :
              m # n => layout.depth[m] # layout.depth[n] \/ layout.x[m] # layout.x[n]
        /\ ~Turned => \A n \in visited : layout.depth[n] >= Distance(n)

\* While it is drawn and when it is (layout.ts:79), the tree is one.
TreeSound == NeverBelowItself /\ EveryNodeDrawn
=============================================================================
