------------------------------ MODULE Validity ------------------------------
(***************************************************************************)
(* The temporal validity interval every node and edge carries, and the     *)
(* in-memory fold of repeated observations into one record per entity      *)
(* (crates/loghound-core/src/time.rs, loghound-correlate/src/builder.rs).  *)
(* Timestamps are integers (epoch milliseconds).                           *)
(***************************************************************************)
EXTENDS Integers

Interval == [first : Int, last : Int, count : Nat]

Earlier(s, t) == IF s <= t THEN s ELSE t
Later(s, t)   == IF s >= t THEN s ELSE t

\* Validity::at: a single observation.
ValidityAt(ts) == [first |-> ts, last |-> ts, count |-> 1]

\* Validity::observe, n times at ts: widen to include ts and count.
ObserveInOrder(v, ts, n) == [first |-> v.first, last |-> ts, count |-> v.count + n]
Observe(v, ts, n) == [first |-> Earlier(v.first, ts),
                      last  |-> Later(v.last, ts),
                      count |-> v.count + n]

\* v covers the interval of w.
Covers(v, w) == v.first <= w.first /\ w.last <= v.last

-----------------------------------------------------------------------------
(***************************************************************************)
(* GraphBuilder: maps from node key, and from edge key, to a Validity.     *)
(* A node key stands for NodeId::of(kind, identity_key) and an edge key,   *)
(* a triple <<src, dst, type>>, for EdgeId::of: both are content hashes,   *)
(* so equal keys are one entity.                                           *)
(***************************************************************************)

\* Fold the observations of one event, a bag of keys all seen at ts, into a map.
Folded(map, seen, ts) ==
    [k \in DOMAIN map \cup DOMAIN seen |->
        CASE k \notin DOMAIN seen -> map[k]
          [] k \in DOMAIN seen \cap DOMAIN map -> Observe(map[k], ts, seen[k])
          [] OTHER -> Observe(ValidityAt(ts), ts, seen[k] - 1)]

NoObservations == [k \in {} |-> ValidityAt(0)]
EmptyGraph == [nodes |-> NoObservations, edges |-> NoObservations]

\* Observe a bag of nodes and a bag of edges at ts.
EmitInsertOnly(g, ns, es, ts) ==
    [g EXCEPT !.nodes = Folded(@, [k \in DOMAIN ns \ DOMAIN @ |-> ns[k]], ts),
              !.edges = Folded(@, es, ts)]
Emit(g, ns, es, ts) == [g EXCEPT !.nodes = Folded(@, ns, ts),
                                 !.edges = Folded(@, es, ts)]

\* No edge of the graph points at a node it does not hold.
Closed(g) == \A e \in DOMAIN g.edges :
                e[1] \in DOMAIN g.nodes /\ e[2] \in DOMAIN g.nodes

=============================================================================
