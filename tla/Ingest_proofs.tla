--------------------------- MODULE Ingest_proofs ---------------------------
(***************************************************************************)
(* Proofs about module Ingest, for every set of log files, every behaviour *)
(* of correlation, detection and scoring allowed by the assumptions, and   *)
(* any number of ingests and crashes: its invariants; that it implements   *)
(* module Ledger, each step, read through the mapping of Ingest, being a   *)
(* step of the ledger or changing nothing it sees; and what the handlers   *)
(* of module Api show an analyst.                                          *)
(***************************************************************************)
EXTENDS Api, Correlation_proofs, FiniteSetTheorems, SequenceTheorems

\* The process holds a file the operator gave it.
FileKnown == pc \in Running => file \in Files

\* Ids 1..n are used, and a running ingest has used exactly those up to the
\* line it has reached.
IdsUsed ==
    /\ \E n \in Nat : DOMAIN events = 1 .. n
    /\ pc \in Running => DOMAIN events = 1 .. (base + pos - 1)
    /\ pc = "raw" => pos > 0

\* Nodes of the graph being applied that are no longer to do are in the table.
NodesApplied ==
    pc = "apply" => DOMAIN batch.nodes \subseteq DOMAIN nodes \cup todo.nodes

\* The parity check compares the tables with a snapshot of themselves.
IndexFresh == pc = "check" => index = Snapshot(nodes, edges)

IInv == /\ TypeOK
        /\ FileKnown
        /\ IdsUsed
        /\ NodesApplied
        /\ IndexFresh
        /\ NoDanglingEdges
        /\ NeverFails

-----------------------------------------------------------------------------
\* 1..n has n elements: counting the events gives the last id.
LEMMA CountIsLastId ==
    ASSUME NEW n \in Nat
    PROVE  Cardinality(1 .. n) = n
BY FS_Interval

\* A snapshot of tables without dangling edges holds every node and every edge.
LEMMA SnapshotIsWhole ==
    ASSUME NoDanglingEdges
    PROVE  /\ DOMAIN Snapshot(nodes, edges).nodes = DOMAIN nodes
           /\ Snapshot(nodes, edges).edges = DOMAIN edges
BY DEF NoDanglingEdges, Snapshot

\* The row an upsert stores is an interval again.
LEMMA UpsertTyped ==
    ASSUME NEW table, NEW key, NEW v \in Interval,
           key \in DOMAIN table => /\ table[key].first \in Int
                                   /\ table[key].last \in Int
    PROVE  Upserted(table, key, v) \in Interval
BY DEF Upserted, Refolded, Earlier, Later, Interval

\* ... that covers both the stored interval and the new one.
LEMMA UpsertCovers ==
    ASSUME NEW table, NEW key, NEW v \in Interval,
           key \in DOMAIN table => /\ table[key].first \in Int
                                   /\ table[key].last \in Int
    PROVE  /\ Covers(Upserted(table, key, v), v)
           /\ key \in DOMAIN table =>
                Covers(Upserted(table, key, v), table[key])
BY DEF Upserted, Refolded, Earlier, Later, Interval, Covers

LEMMA EmptyGraphTyped == IsGraph(EmptyGraph)
BY DEF IsGraph, EmptyGraph, NoObservations, Closed

LEMMA InitInv == Init => IInv
<1> SUFFICES ASSUME Init PROVE IInv
  OBVIOUS
<1>1. TypeOK
  BY EmptyGraphTyped, BoundsAssumption
  DEF Init, TypeOK, Resting, Nothing, EmptyGraph, NoObservations
<1>2. IdsUsed
  <2>1. DOMAIN events = 1 .. 0
    BY DEF Init
  <2> QED BY <2>1 DEF Init, IdsUsed, Running
<1> QED
  BY <1>1, <1>2 DEF Init, IInv, FileKnown, NodesApplied, IndexFresh,
                    NoDanglingEdges, NeverFails, Running

-----------------------------------------------------------------------------
(***************************************************************************)
(* One lemma per group of actions that touch the same state.               *)
(***************************************************************************)

\* Opening the store: counting the rows gives the first unused id.
LEMMA StartInv ==
    ASSUME IInv, NEW f \in Files, Start(f)
    PROVE  IInv'
<1> PICK n \in Nat : DOMAIN events = 1 .. n
  BY DEF IInv, IdsUsed
<1>1. base' = n + 1
  BY CountIsLastId DEF Start, NextId
<1>2. TypeOK'
  BY <1>1, FilesAssumption, BoundsAssumption
  DEF IInv, TypeOK, Start, tables, Resting, Running
<1>3. IdsUsed'
  BY <1>1 DEF IInv, IdsUsed, Start, tables
<1> QED
  BY <1>2, <1>3 DEF IInv, FileKnown, NodesApplied, IndexFresh, NoDanglingEdges,
                    NeverFails, Start, tables

\* Appending a line uses the next id, which no earlier event has.
LEMMA AppendEventInv ==
    ASSUME IInv, AppendEvent
    PROVE  IInv'
<1> DEFINE id == base + pos
<1>1. pc = "read" /\ pos < Len(file) /\ pos \in Nat /\ base \in Nat \ {0}
      /\ file \in Seq(Line)
  BY DEF IInv, AppendEvent, TypeOK
<1>2. DOMAIN events = 1 .. (id - 1)
  BY <1>1 DEF IInv, IdsUsed, Running
<1>3. id \notin DOMAIN events
  BY <1>1, <1>2
<1>4. /\ events' = [i \in DOMAIN events \cup {id} |->
                       IF i = id THEN file[pos + 1] ELSE events[i]]
      /\ pos' = pos + 1
      /\ pc' = "raw"
  BY <1>3 DEF AppendEvent
<1>5. DOMAIN events' = 1 .. id
  BY <1>1, <1>2, <1>4
<1>6. TypeOK'
  <2>1. file[pos + 1] \in Line
    BY <1>1
  <2>2. \A i \in DOMAIN events' : events'[i] \in Line
    BY <1>4, <2>1 DEF IInv, TypeOK
  <2> QED
    BY <1>1, <1>4, <1>5, <2>2 DEF IInv, TypeOK, AppendEvent, counters, Running
<1>7. IdsUsed'
  BY <1>1, <1>4, <1>5 DEF IdsUsed, AppendEvent
<1> QED
  BY <1>1, <1>4, <1>6, <1>7
  DEF IInv, FileKnown, NodesApplied, IndexFresh, NoDanglingEdges, NeverFails,
      AppendEvent, Running

LEMMA AppendRawInv ==
    ASSUME IInv, AppendRaw
    PROVE  IInv'
<1>1. base + pos - 1 \in Nat \ {0}
  BY DEF IInv, IdsUsed, TypeOK, AppendRaw
<1>2. TypeOK'
  BY <1>1 DEF IInv, TypeOK, AppendRaw, counters, Running
<1> QED
  BY <1>2 DEF IInv, FileKnown, IdsUsed, NodesApplied, IndexFresh, NoDanglingEdges,
              NeverFails, AppendRaw, Running

\* Starting to apply a closed graph: all of it is still to do.
LEMMA ApplyInv ==
    ASSUME IInv, NEW g, NEW s \in {"correlation", "alerts"},
           IsGraph(g), Apply(g, s), pc \in Running,
           UNCHANGED <<tables, file, base, pos, index, completed, counters>>
    PROVE  IInv'
<1>1. TypeOK'
  BY DEF IInv, TypeOK, Apply, IsGraph, tables, counters, Running
<1> QED
  BY <1>1 DEF IInv, FileKnown, IdsUsed, NodesApplied, IndexFresh, NoDanglingEdges,
              NeverFails, Apply, Running, tables

LEMMA CorrelateBatchInv ==
    ASSUME IInv, CorrelateBatch
    PROVE  IInv'
<1>1. pc \in Running /\ file \in Files
  BY DEF IInv, FileKnown, CorrelateBatch, Running
<1> QED
  BY <1>1, GraphAssumption, ApplyInv DEF CorrelateBatch

LEMMA RunDetectionInv ==
    ASSUME IInv, RunDetection
    PROVE  IInv'
<1>1. pc \in Running /\ file \in Files
  BY DEF IInv, FileKnown, RunDetection, Running
<1> QED
  BY <1>1, GraphAssumption, ApplyInv DEF RunDetection

\* A node is never removed, so no edge loses an endpoint.
LEMMA UpsertNodeInv ==
    ASSUME IInv, NEW k \in todo.nodes, UpsertNode(k)
    PROVE  IInv'
<1>1. k \in DOMAIN batch.nodes /\ batch.nodes[k] \in Interval
  BY DEF IInv, TypeOK, IsGraph
<1>2. Upserted(nodes, k, batch.nodes[k]) \in Interval
  BY <1>1, UpsertTyped DEF IInv, TypeOK
<1>3. DOMAIN nodes' = DOMAIN nodes \cup {k}
  BY DEF UpsertNode
<1>4. \A x \in DOMAIN nodes' : /\ nodes'[x].first \in Int
                               /\ nodes'[x].last \in Int
                               /\ nodes'[x].count \in Nat
  BY <1>2 DEF UpsertNode, Scored, Interval, IInv, TypeOK
<1>5. todo' \in [nodes : SUBSET DOMAIN batch.nodes, edges : SUBSET DOMAIN batch.edges]
      /\ todo'.nodes = todo.nodes \ {k}
  BY DEF UpsertNode, IInv, TypeOK
<1>6. TypeOK'
  BY <1>4, <1>5 DEF UpsertNode, IInv, TypeOK, counters, IsGraph, Closed
<1>7. NodesApplied' /\ NoDanglingEdges'
  BY <1>3, <1>5 DEF UpsertNode, IInv, NodesApplied, NoDanglingEdges
<1> QED
  BY <1>6, <1>7 DEF UpsertNode, IInv, FileKnown, IdsUsed, IndexFresh, NeverFails

\* An edge goes in when all nodes of its graph are in, both endpoints among them.
LEMMA UpsertEdgeInv ==
    ASSUME IInv, NEW e \in todo.edges, UpsertEdge(e)
    PROVE  IInv'
<1>1. e \in DOMAIN batch.edges /\ batch.edges[e] \in Interval
  BY DEF IInv, TypeOK, IsGraph
<1>2. e[1] \in DOMAIN nodes /\ e[2] \in DOMAIN nodes
  <2>1. e[1] \in DOMAIN batch.nodes /\ e[2] \in DOMAIN batch.nodes
    BY <1>1 DEF IInv, TypeOK, IsGraph, Closed
  <2> QED BY <2>1 DEF IInv, NodesApplied, UpsertEdge, NodesIn
<1>3. Upserted(edges, e, batch.edges[e]) \in Interval
  BY <1>1, UpsertTyped DEF IInv, TypeOK, Interval
<1>4. DOMAIN edges' = DOMAIN edges \cup {e} /\ \A x \in DOMAIN edges' : edges'[x] \in Interval
  BY <1>3 DEF UpsertEdge, IInv, TypeOK
<1>5. todo' \in [nodes : SUBSET DOMAIN batch.nodes, edges : SUBSET DOMAIN batch.edges]
      /\ todo'.nodes = todo.nodes
  BY DEF UpsertEdge, IInv, TypeOK
<1>6. TypeOK'
  BY <1>4, <1>5 DEF UpsertEdge, IInv, TypeOK, counters, IsGraph, Closed
<1>7. NodesApplied' /\ NoDanglingEdges'
  BY <1>2, <1>4, <1>5 DEF UpsertEdge, IInv, NodesApplied, NoDanglingEdges
<1> QED
  BY <1>6, <1>7 DEF UpsertEdge, IInv, FileKnown, IdsUsed, IndexFresh, NeverFails

\* Steps that move the process on and leave the tables alone.
LEMMA ControlInv ==
    ASSUME IInv,
           RefreshIndex \/ SkipDetection \/ AlertsPersisted \/ PublishRisk
    PROVE  IInv'
<1>1. /\ pc \in Running \ {"raw"} /\ pc' \in Running \ {"raw", "apply"}
      /\ pc' = "check" => index' = Snapshot(nodes, edges)
      /\ UNCHANGED <<tables, file, base, pos, stage, batch, todo, completed, counters>>
  BY DEF RefreshIndex, SkipDetection, AlertsPersisted, PublishRisk, Running
<1>2. TypeOK'
  BY <1>1 DEF IInv, TypeOK, tables, counters, IsGraph, Closed
<1> QED
  BY <1>1, <1>2 DEF IInv, FileKnown, IdsUsed, NodesApplied, IndexFresh, Snapshot,
                    NoDanglingEdges, NeverFails, Running, tables

LEMMA InsertAlertInv ==
    ASSUME IInv, InsertAlert
    PROVE  IInv'
<1>1. TypeOK'
  BY DEF InsertAlert, IInv, TypeOK, counters, IsGraph, Closed
<1> QED
  BY <1>1 DEF InsertAlert, IInv, FileKnown, IdsUsed, NodesApplied, IndexFresh,
              NoDanglingEdges, NeverFails, Running

\* Scoring changes no interval and no key.
LEMMA RecomputeRiskInv ==
    ASSUME IInv, RecomputeRisk
    PROVE  IInv'
<1>1. DOMAIN nodes' = DOMAIN nodes
  BY DEF RecomputeRisk
<1>2. \A k \in DOMAIN nodes' : /\ nodes'[k].first = nodes[k].first
                               /\ nodes'[k].last = nodes[k].last
                               /\ nodes'[k].count = nodes[k].count
  BY DEF RecomputeRisk, Scored
<1>3. TypeOK'
  BY <1>1, <1>2 DEF RecomputeRisk, IInv, TypeOK, counters, IsGraph, Closed, Running
<1> QED
  BY <1>1, <1>3 DEF RecomputeRisk, IInv, FileKnown, IdsUsed, NodesApplied, IndexFresh,
              NoDanglingEdges, NeverFails, Running

\* The parity check holds: nothing was dropped from the snapshot.
LEMMA CheckInvariantsInv ==
    ASSUME IInv, CheckInvariants
    PROVE  IInv' /\ pc' = "done"
<1>1. index = Snapshot(nodes, edges)
  BY DEF IInv, IndexFresh, CheckInvariants
<1>2. CountsAgree
  BY <1>1, SnapshotIsWhole DEF IInv, CountsAgree
<1>3. TypeOK'
  BY <1>2 DEF CheckInvariants, IInv, TypeOK, tables, counters, IsGraph, Closed, Resting
<1> QED
  BY <1>2, <1>3 DEF CheckInvariants, IInv, FileKnown, IdsUsed, NodesApplied, IndexFresh,
              NoDanglingEdges, NeverFails, Running, tables

\* A crash leaves the tables as they are.
LEMMA CrashInv ==
    ASSUME IInv, Crash
    PROVE  IInv'
<1>1. TypeOK'
  BY EmptyGraphTyped, BoundsAssumption
  DEF Crash, IInv, TypeOK, tables, Nothing, Resting, EmptyGraph, NoObservations
<1> QED
  BY <1>1 DEF Crash, IInv, FileKnown, IdsUsed, NodesApplied, IndexFresh,
              NoDanglingEdges, NeverFails, Running, tables

LEMMA ServeInv ==
    ASSUME IInv, Serve \/ StopServing
    PROVE  IInv'
<1>1. /\ pc' \in {"serve", "idle"}
      /\ UNCHANGED <<tables, file, base, pos, stage, batch, todo, completed, counters>>
  BY DEF Serve, StopServing
<1>2. TypeOK'
  BY <1>1 DEF IInv, TypeOK, tables, counters, IsGraph, Closed, Resting
<1> QED
  BY <1>1, <1>2 DEF IInv, FileKnown, IdsUsed, NodesApplied, IndexFresh,
                    NoDanglingEdges, NeverFails, Running, tables

LEMMA NextInv == IInv /\ [Next]_vars => IInv'
<1> SUFFICES ASSUME IInv, [Next]_vars PROVE IInv'
  OBVIOUS
<1>1. CASE \E f \in Files : Start(f)
  BY <1>1, StartInv
<1>2. CASE IngestStep
  BY <1>2, AppendEventInv, AppendRawInv, CorrelateBatchInv, UpsertNodeInv, UpsertEdgeInv,
     ControlInv, RunDetectionInv, InsertAlertInv, RecomputeRiskInv, CheckInvariantsInv
  DEF IngestStep
<1>3. CASE Crash
  BY <1>3, CrashInv
<1>4. CASE Serve \/ StopServing
  BY <1>4, ServeInv
<1>5. CASE UNCHANGED vars
  <2>1. TypeOK'
    BY <1>5 DEF IInv, TypeOK, vars, tables, process, counters, IsGraph, Closed
  <2> QED
    BY <1>5, <2>1 DEF IInv, FileKnown, IdsUsed, NodesApplied, IndexFresh, Snapshot,
       NoDanglingEdges, NeverFails, vars, tables, process
<1> QED
  BY <1>1, <1>2, <1>3, <1>4, <1>5 DEF Next

\* The inductive invariant holds in every reachable state.
THEOREM Invariance == Spec => []IInv
BY InitInv, NextInv, PTL DEF Spec

-----------------------------------------------------------------------------
(***************************************************************************)
(* What follows from it.                                                   *)
(***************************************************************************)

\* Tables and process state are well-typed in every reachable state.
THEOREM TypeCorrect == Spec => []TypeOK
<1>1. IInv => TypeOK
  BY DEF IInv
<1> QED BY <1>1, Invariance, PTL

\* No crash between two statements ever leaves an edge without its endpoints.
THEOREM NoDangling == Spec => []NoDanglingEdges
<1>1. IInv => NoDanglingEdges
  BY DEF IInv
<1> QED BY <1>1, Invariance, PTL

\* Event ids stay 1..n, so counting the rows always gives a fresh id.
THEOREM IdsContiguous == Spec => []EventIdsContiguous
<1>1. IInv => EventIdsContiguous
  BY CountIsLastId DEF IInv, IdsUsed, EventIdsContiguous
<1> QED BY <1>1, Invariance, PTL

\* No ingest fails on a clash of ids or on the parity of index and tables.
THEOREM NeverFailing == Spec => []NeverFails
<1>1. IInv => NeverFails
  BY DEF IInv
<1> QED BY <1>1, Invariance, PTL

\* Every step keeps every row and covers the interval it had.
LEMMA StepWidens ==
    ASSUME IInv, [Next]_vars
    PROVE  /\ \A k \in DOMAIN nodes : k \in DOMAIN nodes' /\ Covers(nodes'[k], nodes[k])
           /\ \A e \in DOMAIN edges : e \in DOMAIN edges' /\ Covers(edges'[e], edges[e])
<1> DEFINE NodesKept == \A k \in DOMAIN nodes :
                          k \in DOMAIN nodes' /\ Covers(nodes'[k], nodes[k])
           EdgesKept == \A e \in DOMAIN edges :
                          e \in DOMAIN edges' /\ Covers(edges'[e], edges[e])
<1> SUFFICES NodesKept /\ EdgesKept
  OBVIOUS
<1>1. UNCHANGED nodes => NodesKept
  BY DEF IInv, TypeOK, Covers
<1>2. UNCHANGED edges => EdgesKept
  BY DEF IInv, TypeOK, Interval, Covers
<1>3. ASSUME NEW k \in todo.nodes, UpsertNode(k)
      PROVE  NodesKept
  <2>1. batch.nodes[k] \in Interval
    BY DEF IInv, TypeOK, IsGraph
  <2>2. k \in DOMAIN nodes => Covers(Upserted(nodes, k, batch.nodes[k]), nodes[k])
    BY <2>1, UpsertCovers DEF IInv, TypeOK
  <2> QED
    BY <1>3, <2>2 DEF UpsertNode, Scored, Covers, IInv, TypeOK
<1>4. ASSUME NEW e \in todo.edges, UpsertEdge(e)
      PROVE  EdgesKept
  <2>1. batch.edges[e] \in Interval
    BY DEF IInv, TypeOK, IsGraph
  <2>2. e \in DOMAIN edges => Covers(Upserted(edges, e, batch.edges[e]), edges[e])
    BY <2>1, UpsertCovers DEF IInv, TypeOK, Interval
  <2> QED
    BY <1>4, <2>2 DEF UpsertEdge, Covers, IInv, TypeOK, Interval
<1>5. RecomputeRisk => NodesKept
  BY DEF RecomputeRisk, Scored, Covers, IInv, TypeOK
<1>6. CASE \E f \in Files : Start(f)
  BY <1>1, <1>2, <1>6 DEF Start, tables
<1>7. CASE IngestStep
  <2>1. CASE \E k \in todo.nodes : UpsertNode(k)
    BY <1>2, <1>3, <2>1 DEF UpsertNode
  <2>2. CASE \E e \in todo.edges : UpsertEdge(e)
    BY <1>1, <1>4, <2>2 DEF UpsertEdge
  <2>3. CASE RecomputeRisk
    BY <1>2, <1>5, <2>3 DEF RecomputeRisk
  <2>4. CASE AppendEvent \/ AppendRaw \/ InsertAlert
    BY <1>1, <1>2, <2>4 DEF AppendEvent, AppendRaw, InsertAlert
  <2>5. CASE \/ CorrelateBatch \/ RefreshIndex \/ SkipDetection \/ RunDetection
             \/ AlertsPersisted \/ PublishRisk \/ CheckInvariants
    BY <1>1, <1>2, <2>5
    DEF CorrelateBatch, RefreshIndex, SkipDetection, RunDetection, AlertsPersisted,
        PublishRisk, CheckInvariants, tables
  <2> QED BY <1>7, <2>1, <2>2, <2>3, <2>4, <2>5 DEF IngestStep
<1>8. CASE Crash \/ Serve \/ StopServing
  BY <1>1, <1>2, <1>8 DEF Crash, Serve, StopServing, tables
<1>9. CASE UNCHANGED vars
  BY <1>1, <1>2, <1>9 DEF vars, tables
<1> QED BY <1>6, <1>7, <1>8, <1>9 DEF Next

\* No step of any ingest, crash or server narrows an interval or drops a row.
THEOREM Widening == Spec => IntervalsOnlyWiden
<1>1. IInv /\ [Next]_vars =>
        [/\ \A k \in DOMAIN nodes : k \in DOMAIN nodes' /\ Covers(nodes'[k], nodes[k])
         /\ \A e \in DOMAIN edges : e \in DOMAIN edges' /\ Covers(edges'[e], edges[e])
        ]_<<nodes, edges>>
  BY StepWidens
<1> QED BY <1>1, Invariance, PTL DEF Spec, IntervalsOnlyWiden

-----------------------------------------------------------------------------
(***************************************************************************)
(* What is stored: risks, alerts, and the graphs of the ingests that       *)
(* succeeded.  This builds on the inductive invariant above.               *)
(***************************************************************************)
Scoring == {"publish", "check", "done"}
Finishing == {"risk", "publish", "check"}

\* An index with the keys of the tables is published before the alerts and the
\* risk are computed, with their risks before the parity check.
Indexed ==
    /\ pc \in {"detect", "records", "risk"} =>
          DOMAIN index.nodes = DOMAIN nodes /\ index.edges = DOMAIN edges
    /\ pc \in {"check", "done", "serve"} => index = Snapshot(nodes, edges)

\* From the scoring on, every node has the score of the whole graph.
RiskWritten ==
    pc \in Scoring =>
        \A k \in DOMAIN nodes : nodes[k].risk = Score(DOMAIN nodes, DOMAIN edges)[k]

RiskInv == Indexed /\ RiskWritten

\* The alerts of a file, and those still to be inserted.
AlertsOf(f) == {Detect(f)[i] : i \in 1 .. Len(Detect(f))}

Inserting == pc = "records" \/ (pc = "apply" /\ stage = "alerts")

\* The whole file is read before anything is applied; alert records wait for
\* the alert graph, which holds their nodes.
AlertsPending ==
    /\ pc \in Running \ {"read", "raw"} => pos = Len(file)
    /\ pc = "apply" => batch = IF stage = "correlation" THEN Correlate(file)
                                                       ELSE AlertGraph(file)
    /\ Inserting => records \in Seq(AlertsOf(file))
    /\ pc = "records" => DOMAIN AlertGraph(file).nodes \subseteq DOMAIN nodes

AlertInv == AlertsPending /\ AlertsBacked

\* Tables ns and es hold graph g, with intervals that cover those of g.
Holds(ns, es, g) ==
    /\ \A k \in DOMAIN g.nodes : k \in DOMAIN ns /\ Covers(ns[k], g.nodes[k])
    /\ \A e \in DOMAIN g.edges : e \in DOMAIN es /\ Covers(es[e], g.edges[e])

Kept(g) == Holds(nodes, edges, g)

AlertsIn(f) == \A a \in AlertsOf(f) : a.id \in DOMAIN alerts

\* A running ingest has stored what it has written so far.
WrittenSoFar ==
    /\ pc = "apply" =>
          /\ \A k \in DOMAIN batch.nodes \ todo.nodes :
                k \in DOMAIN nodes /\ Covers(nodes[k], batch.nodes[k])
          /\ \A e \in DOMAIN batch.edges \ todo.edges :
                e \in DOMAIN edges /\ Covers(edges[e], batch.edges[e])
    /\ (pc \in {"detect"} \cup Finishing \/ Inserting) => Kept(Correlate(file))
    /\ pc = "detect" => stage = "correlation"
    /\ pc = "records" => stage = "alerts"
    /\ (stage = "alerts" /\ pc \in {"records"} \cup Finishing) => Kept(AlertGraph(file))
    /\ Inserting => \A a \in AlertsOf(file) :
                       a.id \in DOMAIN alerts \/ \E j \in 1 .. Len(records) : records[j] = a
    /\ (stage = "alerts" /\ pc \in Finishing) => AlertsIn(file)

CompletedKept ==
    \A c \in completed : /\ c[1] \in Files
                         /\ Kept(Correlate(c[1]))
                         /\ c[2] => Kept(AlertGraph(c[1])) /\ AlertsIn(c[1])

KeepInv == WrittenSoFar /\ CompletedKept

-----------------------------------------------------------------------------
(***************************************************************************)
(* Risks and the index.                                                    *)
(***************************************************************************)

\* Steps before an index is needed again.
LEMMA UnindexedRisk ==
    ASSUME RiskInv,
           \/ \E f \in Files : Start(f)
           \/ AppendEvent \/ AppendRaw \/ CorrelateBatch \/ RunDetection
           \/ \E k \in todo.nodes : UpsertNode(k)
           \/ \E e \in todo.edges : UpsertEdge(e)
           \/ Crash \/ StopServing
    PROVE  RiskInv'
<1>1. pc' \in {"read", "raw", "apply", "idle", "failed"}
  BY DEF Start, AppendEvent, AppendRaw, CorrelateBatch, RunDetection, Apply, UpsertNode,
         UpsertEdge, Crash, StopServing
<1> QED BY <1>1 DEF RiskInv, Indexed, RiskWritten, Scoring

\* The snapshot published at the end of apply is whole.
LEMMA RefreshRisk ==
    ASSUME IInv, RefreshIndex
    PROVE  RiskInv'
<1>1. pc' \in {"detect", "records"} /\ index' = Snapshot(nodes, edges)
      /\ UNCHANGED <<nodes, edges>>
  BY DEF RefreshIndex, tables
<1>2. DOMAIN index'.nodes = DOMAIN nodes /\ index'.edges = DOMAIN edges
  BY <1>1, SnapshotIsWhole DEF IInv
<1> QED BY <1>1, <1>2 DEF RiskInv, Indexed, RiskWritten, Scoring

LEMMA PassedOnRisk ==
    ASSUME RiskInv, SkipDetection \/ InsertAlert \/ AlertsPersisted
    PROVE  RiskInv'
<1>1. /\ pc \in {"detect", "records"} /\ pc' \in {"records", "risk"}
      /\ UNCHANGED <<nodes, edges, index>>
  BY DEF SkipDetection, InsertAlert, AlertsPersisted, tables
<1> QED BY <1>1 DEF RiskInv, Indexed, RiskWritten, Scoring

\* All nodes are scored, since the index has all of them, and all edges count.
LEMMA RecomputedRisk ==
    ASSUME RiskInv, RecomputeRisk
    PROVE  RiskInv'
<1>1. DOMAIN index.nodes = DOMAIN nodes /\ index.edges = DOMAIN edges
  BY DEF RiskInv, Indexed, RecomputeRisk
<1>2. pc' = "publish" /\ UNCHANGED edges /\ DOMAIN nodes' = DOMAIN nodes
  BY DEF RecomputeRisk
<1>3. \A k \in DOMAIN nodes' : nodes'[k].risk = Score(DOMAIN nodes, DOMAIN edges)[k]
  BY <1>1 DEF RecomputeRisk, Scored
<1> QED BY <1>2, <1>3 DEF RiskInv, Indexed, RiskWritten, Scoring

\* From there on the tables stay as they are.
LEMMA PublishedRisk ==
    ASSUME RiskInv, IInv,
           PublishRisk \/ CheckInvariants \/ Serve \/ UNCHANGED vars
    PROVE  RiskInv'
<1>1. UNCHANGED <<nodes, edges>>
  BY DEF PublishRisk, CheckInvariants, Serve, vars, tables
<1>2. CASE PublishRisk
  BY <1>1, <1>2 DEF PublishRisk, RiskInv, Indexed, RiskWritten, Scoring, Snapshot
<1>3. CASE CheckInvariants
  BY <1>1, <1>3 DEF CheckInvariants, RiskInv, Indexed, RiskWritten, Scoring, Snapshot
<1>4. CASE Serve
  BY <1>1, <1>4 DEF Serve, RiskInv, Indexed, RiskWritten, Scoring, Snapshot
<1>5. CASE UNCHANGED vars
  BY <1>1, <1>5 DEF vars, process, RiskInv, Indexed, RiskWritten, Scoring, Snapshot
<1> QED BY <1>2, <1>3, <1>4, <1>5

LEMMA RiskNext == IInv /\ RiskInv /\ [Next]_vars => RiskInv'
BY UnindexedRisk, RefreshRisk, PassedOnRisk, RecomputedRisk, PublishedRisk
DEF Next, IngestStep

LEMMA RiskAlways == Spec => []RiskInv
<1>1. Init => RiskInv
  BY DEF Init, RiskInv, Indexed, RiskWritten, Scoring
<1> QED BY <1>1, RiskNext, Invariance, PTL DEF Spec

\* When an ingest reports success, table and index have the scores of the final
\* graph, whichever ingest wrote a node.
THEOREM RiskCurrent == Spec => []RiskCurrentWhenDone
<1>1. RiskInv => RiskCurrentWhenDone
  BY DEF RiskInv, Indexed, RiskWritten, Scoring, RiskCurrentWhenDone
<1> QED BY <1>1, RiskAlways, PTL

\* The server's index holds every stored node with its risk, and every edge.
THEOREM Served == Spec => []ServedIsStored
<1>1. IInv /\ RiskInv => ServedIsStored
  <2> SUFFICES ASSUME IInv, RiskInv, pc = "serve"
               PROVE  /\ DOMAIN index.nodes = DOMAIN nodes
                      /\ \A k \in DOMAIN nodes : index.nodes[k] = nodes[k].risk
                      /\ index.edges = DOMAIN edges
    BY DEF ServedIsStored
  <2>1. index = Snapshot(nodes, edges)
    BY DEF RiskInv, Indexed
  <2> QED BY <2>1, SnapshotIsWhole DEF IInv, Snapshot
<1> QED BY <1>1, RiskAlways, Invariance, PTL

-----------------------------------------------------------------------------
(***************************************************************************)
(* Alerts and what they refer to.                                          *)
(***************************************************************************)

LEMMA AlertsOfFile ==
    ASSUME NEW f \in Files
    PROVE  /\ Detect(f) \in Seq(AlertsOf(f))
           /\ \A a \in AlertsOf(f) : /\ a.evidence \subseteq 1 .. Len(f)
                                     /\ AlertNode(a.id) \in DOMAIN AlertGraph(f).nodes
<1> DEFINE S == [id : {Detect(f)[i].id : i \in 1 .. Len(Detect(f))},
                 evidence : SUBSET (1 .. Len(f))]
<1>1. Detect(f) \in Seq(S)
  BY DetectAssumption
<1> HIDE DEF S
<1>2. \A i \in 1 .. Len(Detect(f)) : Detect(f)[i] \in S
  BY <1>1
<1>3. Detect(f) \in Seq(AlertsOf(f))
  <2>1. Len(Detect(f)) \in Nat /\ Detect(f) = [i \in 1 .. Len(Detect(f)) |-> Detect(f)[i]]
    BY <1>1
  <2>2. \A i \in 1 .. Len(Detect(f)) : Detect(f)[i] \in AlertsOf(f)
    BY DEF AlertsOf
  <2> QED BY <2>1, <2>2, SeqDef
<1>4. \A i \in 1 .. Len(Detect(f)) : Detect(f)[i].evidence \subseteq 1 .. Len(f)
  BY <1>2 DEF S
<1> QED BY <1>3, <1>4, DetectAssumption DEF AlertsOf

\* Nothing an alert refers to goes away.
LEMMA RowsStay ==
    ASSUME IInv, [Next]_vars
    PROVE  /\ DOMAIN events \subseteq DOMAIN events'
           /\ DOMAIN nodes \subseteq DOMAIN nodes'
           /\ InsertAlert \/ UNCHANGED alerts
<1>1. DOMAIN nodes \subseteq DOMAIN nodes'
  BY StepWidens
<1>2. DOMAIN events \subseteq DOMAIN events'
  <2>1. CASE AppendEvent
    BY <2>1 DEF AppendEvent
  <2>2. AppendEvent \/ UNCHANGED events
    BY DEF Next, IngestStep, Start, AppendRaw, CorrelateBatch, RunDetection, RefreshIndex,
       UpsertNode, UpsertEdge, SkipDetection, InsertAlert, AlertsPersisted, RecomputeRisk,
       PublishRisk, CheckInvariants, Crash, Serve, StopServing, vars, tables
  <2> QED BY <2>1, <2>2
<1>3. InsertAlert \/ UNCHANGED alerts
  BY DEF Next, IngestStep, Start, AppendEvent, AppendRaw, CorrelateBatch, RunDetection,
     RefreshIndex, UpsertNode, UpsertEdge, SkipDetection, AlertsPersisted, RecomputeRisk,
     PublishRisk, CheckInvariants, Crash, Serve, StopServing, vars, tables
<1> QED BY <1>1, <1>2, <1>3

LEMMA StillBacked ==
    ASSUME IInv, AlertsBacked, [Next]_vars, UNCHANGED alerts
    PROVE  AlertsBacked'
BY RowsStay DEF AlertsBacked

\* The record inserted next has its node, and the whole file is in the table.
LEMMA InsertAlertBacked ==
    ASSUME IInv, AlertInv, InsertAlert
    PROVE  AlertInv'
<1> DEFINE a == Head(records)
<1>1. file \in Files /\ pos = Len(file) /\ records \in Seq(AlertsOf(file))
      /\ DOMAIN AlertGraph(file).nodes \subseteq DOMAIN nodes
  BY DEF InsertAlert, AlertInv, AlertsPending, Inserting, IInv, FileKnown, Running
<1>2. a \in AlertsOf(file) /\ Tail(records) \in Seq(AlertsOf(file))
  BY <1>1 DEF InsertAlert
<1>3. AlertNode(a.id) \in DOMAIN nodes
  BY <1>1, <1>2, AlertsOfFile
<1>4. {EventId(i) : i \in a.evidence} \subseteq DOMAIN events
  <2>1. DOMAIN events = 1 .. (base + pos - 1) /\ base \in Nat \ {0} /\ Len(file) \in Nat
    BY DEF InsertAlert, IInv, IdsUsed, TypeOK, Running
  <2>2. a.evidence \subseteq 1 .. Len(file)
    BY <1>1, <1>2, AlertsOfFile
  <2> QED BY <1>1, <2>1, <2>2 DEF EventId
<1>5. AlertsBacked'
  BY <1>3, <1>4 DEF InsertAlert, AlertInv, AlertsBacked
<1>6. AlertsPending'
  BY <1>1, <1>2 DEF InsertAlert, AlertInv, AlertsPending, Inserting
<1> QED BY <1>5, <1>6 DEF AlertInv

LEMMA RunDetectionPending ==
    ASSUME IInv, AlertInv, RunDetection
    PROVE  AlertsPending'
<1>1. file \in Files
  BY DEF RunDetection, IInv, FileKnown, Running
<1>2. pos = Len(file)
  BY DEF RunDetection, AlertInv, AlertsPending, Running
<1> QED BY <1>1, <1>2, AlertsOfFile DEF RunDetection, Apply, AlertsPending, Inserting, Running

\* The alert graph is in the tables when apply is over.
LEMMA RefreshPending ==
    ASSUME IInv, AlertInv, RefreshIndex
    PROVE  AlertsPending'
<1>1. pc = "apply" /\ todo = Nothing /\ UNCHANGED <<nodes, file, pos, stage, batch, records>>
  BY DEF RefreshIndex, tables
<1>2. pos = Len(file) /\ stage \in {"correlation", "alerts"}
  BY <1>1 DEF AlertInv, AlertsPending, Running, IInv, TypeOK
<1>3. DOMAIN batch.nodes \subseteq DOMAIN nodes
  BY <1>1 DEF IInv, NodesApplied, Nothing
<1>4. stage = "alerts" => /\ batch = AlertGraph(file)
                          /\ records \in Seq(AlertsOf(file))
  BY <1>1 DEF AlertInv, AlertsPending, Inserting
<1>5. pc' = IF stage = "correlation" THEN "detect" ELSE "records"
  BY DEF RefreshIndex
<1> QED BY <1>1, <1>2, <1>3, <1>4, <1>5 DEF AlertsPending, Inserting

LEMMA PendingNext ==
    ASSUME IInv, AlertInv, [Next]_vars, UNCHANGED alerts
    PROVE  AlertsPending'
<1>1. CASE (\E f \in Files : Start(f)) \/ Crash \/ Serve \/ StopServing
           \/ AppendEvent \/ AppendRaw
  <2>1. pc' \in {"read", "raw", "idle", "serve", "failed"}
    BY <1>1 DEF Start, Crash, Serve, StopServing, AppendEvent, AppendRaw
  <2> QED BY <2>1 DEF AlertsPending, Inserting, Running
<1>2. CASE CorrelateBatch
  BY <1>2 DEF CorrelateBatch, Apply, AlertsPending, Inserting
<1>3. CASE \/ \E k \in todo.nodes : UpsertNode(k)
           \/ \E e \in todo.edges : UpsertEdge(e)
  <2>1. pc = "apply" /\ UNCHANGED <<pc, file, pos, stage, batch, records>>
    BY <1>3 DEF UpsertNode, UpsertEdge
  <2> QED BY <2>1 DEF AlertInv, AlertsPending, Inserting
<1>4. CASE RefreshIndex
  BY <1>4, RefreshPending
<1>5. CASE RunDetection
  BY <1>5, RunDetectionPending
<1>6. CASE \/ SkipDetection \/ AlertsPersisted \/ RecomputeRisk \/ PublishRisk
           \/ CheckInvariants
  <2>1. /\ pc \in Running \ {"read", "raw"}
        /\ pc' \notin {"apply", "records"}
        /\ UNCHANGED <<file, pos>>
    BY <1>6 DEF SkipDetection, AlertsPersisted, RecomputeRisk, PublishRisk, CheckInvariants,
       Running
  <2> QED BY <2>1 DEF AlertInv, AlertsPending, Inserting
<1>7. CASE InsertAlert
  BY <1>7, InsertAlertBacked DEF AlertInv
<1>8. CASE UNCHANGED vars
  BY <1>8 DEF vars, tables, process, AlertInv, AlertsPending, Inserting
<1> QED BY <1>1, <1>2, <1>3, <1>4, <1>5, <1>6, <1>7, <1>8 DEF Next, IngestStep

LEMMA AlertNext == IInv /\ AlertInv /\ [Next]_vars => AlertInv'
BY RowsStay, InsertAlertBacked, StillBacked, PendingNext DEF AlertInv

LEMMA AlertAlways == Spec => []AlertInv
<1>1. Init => AlertInv
  BY DEF Init, AlertInv, AlertsPending, AlertsBacked, Inserting, Running
<1> QED BY <1>1, AlertNext, Invariance, PTL DEF Spec

\* An alert record never refers to a missing node or event, at any instant.
THEOREM AlertsAlwaysBacked == Spec => []AlertsBacked
<1>1. AlertInv => AlertsBacked
  BY DEF AlertInv
<1> QED BY <1>1, AlertAlways, PTL

-----------------------------------------------------------------------------
(***************************************************************************)
(* What ingests stored stays.                                              *)
(***************************************************************************)

LEMMA CoversTransitive ==
    ASSUME NEW u, NEW v, NEW w,
           u.first \in Int, u.last \in Int, v.first \in Int, v.last \in Int,
           w.first \in Int, w.last \in Int, Covers(u, v), Covers(v, w)
    PROVE  Covers(u, w)
BY DEF Covers

\* A graph the tables hold is held after every step.
LEMMA StepHolds ==
    ASSUME IInv, [Next]_vars
    PROVE  \A g : IsGraph(g) /\ Holds(nodes, edges, g) => Holds(nodes', edges', g)
<1>1. IInv'
  BY NextInv
<1> SUFFICES ASSUME NEW g, IsGraph(g), Holds(nodes, edges, g)
             PROVE  Holds(nodes', edges', g)
  OBVIOUS
<1>2. ASSUME NEW k \in DOMAIN g.nodes
      PROVE  k \in DOMAIN nodes' /\ Covers(nodes'[k], g.nodes[k])
  <2>1. k \in DOMAIN nodes /\ Covers(nodes[k], g.nodes[k])
    BY DEF Holds
  <2>2. k \in DOMAIN nodes' /\ Covers(nodes'[k], nodes[k])
    BY <2>1, StepWidens
  <2>3. g.nodes[k].first \in Int /\ g.nodes[k].last \in Int
    BY DEF IsGraph, Interval
  <2>4. nodes[k].first \in Int /\ nodes[k].last \in Int
    BY <2>1 DEF IInv, TypeOK
  <2>5. nodes'[k].first \in Int /\ nodes'[k].last \in Int
    BY <1>1, <2>2 DEF IInv, TypeOK
  <2> QED BY <2>1, <2>2, <2>3, <2>4, <2>5, CoversTransitive
<1>3. ASSUME NEW e \in DOMAIN g.edges
      PROVE  e \in DOMAIN edges' /\ Covers(edges'[e], g.edges[e])
  <2>1. e \in DOMAIN edges /\ Covers(edges[e], g.edges[e])
    BY DEF Holds
  <2>2. e \in DOMAIN edges' /\ Covers(edges'[e], edges[e])
    BY <2>1, StepWidens
  <2>3. g.edges[e].first \in Int /\ g.edges[e].last \in Int
    BY DEF IsGraph, Interval
  <2>4. edges[e] \in Interval /\ edges'[e] \in Interval
    BY <1>1, <2>1, <2>2 DEF IInv, TypeOK
  <2> QED BY <2>1, <2>2, <2>3, <2>4, CoversTransitive DEF Interval
<1> QED BY <1>2, <1>3 DEF Holds

\* No step removes an alert.
LEMMA AlertsStay ==
    ASSUME IInv, [Next]_vars
    PROVE  DOMAIN alerts \subseteq DOMAIN alerts'
<1>1. InsertAlert => DOMAIN alerts \subseteq DOMAIN alerts'
  BY DEF InsertAlert
<1> QED BY <1>1, RowsStay

\* What a running ingest is about to write it computed from one of the files.
LEMMA FileGraphs ==
    ASSUME IInv, pc \in Running
    PROVE  file \in Files /\ IsGraph(Correlate(file)) /\ IsGraph(AlertGraph(file))
BY GraphAssumption DEF IInv, FileKnown

\* Steps within one ingest that touch neither its place in apply nor its alerts
\* keep what it has written.
LEMMA PartsStay ==
    ASSUME IInv, [Next]_vars, pc \in Running, UNCHANGED file
    PROVE  /\ Kept(Correlate(file)) => Kept(Correlate(file))'
           /\ Kept(AlertGraph(file)) => Kept(AlertGraph(file))'
           /\ AlertsIn(file) => AlertsIn(file)'
<1>1. AlertsIn(file) => AlertsIn(file)'
  BY AlertsStay DEF AlertsIn, AlertsOf
<1>2. Holds(nodes, edges, Correlate(file)) => Holds(nodes', edges', Correlate(file))
  BY StepHolds, FileGraphs
<1>3. Holds(nodes, edges, AlertGraph(file)) => Holds(nodes', edges', AlertGraph(file))
  BY StepHolds, FileGraphs
<1> QED BY <1>1, <1>2, <1>3 DEF Kept

LEMMA UpsertNodeWritten ==
    ASSUME IInv, WrittenSoFar, NEW k \in todo.nodes, UpsertNode(k)
    PROVE  WrittenSoFar'
<1>0. [Next]_vars /\ pc \in Running
  BY DEF Next, IngestStep, UpsertNode, Running
<1>1. /\ pc = "apply"
      /\ UNCHANGED <<pc, file, stage, batch, records, edges, alerts>>
      /\ todo'.nodes = todo.nodes \ {k} /\ todo'.edges = todo.edges
  BY DEF UpsertNode, IInv, TypeOK
<1>2. k \in DOMAIN nodes' /\ Covers(nodes'[k], batch.nodes[k])
  <2>1. batch.nodes[k] \in Interval
    BY DEF IInv, TypeOK, IsGraph
  <2>2. Covers(Upserted(nodes, k, batch.nodes[k]), batch.nodes[k])
    BY <2>1, UpsertCovers DEF IInv, TypeOK
  <2>3. nodes'[k] = Scored(Upserted(nodes, k, batch.nodes[k]), 0) /\ k \in DOMAIN nodes'
    BY DEF UpsertNode
  <2> QED BY <2>2, <2>3 DEF Scored, Covers
<1>3. \A x \in DOMAIN nodes : x # k => nodes'[x] = nodes[x] /\ x \in DOMAIN nodes'
  BY DEF UpsertNode
<1>4. \A x \in DOMAIN batch'.nodes \ todo'.nodes :
        x \in DOMAIN nodes' /\ Covers(nodes'[x], batch'.nodes[x])
  BY <1>1, <1>2, <1>3 DEF WrittenSoFar
<1>5. \A e \in DOMAIN batch'.edges \ todo'.edges :
        e \in DOMAIN edges' /\ Covers(edges'[e], batch'.edges[e])
  BY <1>1 DEF WrittenSoFar
<1>6. Inserting' => Kept(Correlate(file))'
  BY <1>0, <1>1, PartsStay DEF WrittenSoFar, Inserting
<1>7. Inserting' => \A a \in AlertsOf(file') :
         a.id \in DOMAIN alerts' \/ \E j \in 1 .. Len(records') : records'[j] = a
  BY <1>1 DEF WrittenSoFar, Inserting
<1> QED BY <1>1, <1>4, <1>5, <1>6, <1>7 DEF WrittenSoFar, Finishing

LEMMA UpsertEdgeWritten ==
    ASSUME IInv, WrittenSoFar, NEW e \in todo.edges, UpsertEdge(e)
    PROVE  WrittenSoFar'
<1>0. [Next]_vars /\ pc \in Running
  BY DEF Next, IngestStep, UpsertEdge, Running
<1>1. /\ pc = "apply"
      /\ UNCHANGED <<pc, file, stage, batch, records, nodes, alerts>>
      /\ todo'.edges = todo.edges \ {e} /\ todo'.nodes = todo.nodes
  BY DEF UpsertEdge, IInv, TypeOK
<1>2. e \in DOMAIN edges' /\ Covers(edges'[e], batch.edges[e])
  <2>1. batch.edges[e] \in Interval
    BY DEF IInv, TypeOK, IsGraph
  <2>2. Covers(Upserted(edges, e, batch.edges[e]), batch.edges[e])
    BY <2>1, UpsertCovers DEF IInv, TypeOK, Interval
  <2> QED BY <2>2 DEF UpsertEdge
<1>3. \A x \in DOMAIN edges : x # e => edges'[x] = edges[x] /\ x \in DOMAIN edges'
  BY DEF UpsertEdge
<1>4. \A x \in DOMAIN batch'.edges \ todo'.edges :
        x \in DOMAIN edges' /\ Covers(edges'[x], batch'.edges[x])
  BY <1>1, <1>2, <1>3 DEF WrittenSoFar
<1>5. \A k \in DOMAIN batch'.nodes \ todo'.nodes :
        k \in DOMAIN nodes' /\ Covers(nodes'[k], batch'.nodes[k])
  BY <1>1 DEF WrittenSoFar
<1>6. Inserting' => Kept(Correlate(file))'
  BY <1>0, <1>1, PartsStay DEF WrittenSoFar, Inserting
<1>7. Inserting' => \A a \in AlertsOf(file') :
         a.id \in DOMAIN alerts' \/ \E j \in 1 .. Len(records') : records'[j] = a
  BY <1>1 DEF WrittenSoFar, Inserting
<1> QED BY <1>1, <1>4, <1>5, <1>6, <1>7 DEF WrittenSoFar, Finishing

\* Nothing is left to do at the end of apply, so the whole graph is stored.
LEMMA RefreshWritten ==
    ASSUME IInv, AlertInv, WrittenSoFar, RefreshIndex
    PROVE  WrittenSoFar'
<1>1. /\ pc = "apply" /\ todo = Nothing /\ stage \in {"correlation", "alerts"}
      /\ UNCHANGED <<nodes, edges, alerts, file, stage, batch, records>>
      /\ pc' = IF stage = "correlation" THEN "detect" ELSE "records"
  BY DEF RefreshIndex, tables, IInv, TypeOK
<1>2. Kept(batch)
  BY <1>1 DEF WrittenSoFar, Nothing, Kept, Holds
<1>3. batch = IF stage = "correlation" THEN Correlate(file) ELSE AlertGraph(file)
  BY <1>1 DEF AlertInv, AlertsPending
<1>4. CASE stage = "correlation"
  BY <1>1, <1>2, <1>3, <1>4 DEF WrittenSoFar, Inserting, Finishing, Kept
<1>5. CASE stage = "alerts"
  BY <1>1, <1>2, <1>3, <1>5 DEF WrittenSoFar, Inserting, Finishing, Kept
<1> QED BY <1>1, <1>4, <1>5

LEMMA RunDetectionWritten ==
    ASSUME IInv, WrittenSoFar, RunDetection
    PROVE  WrittenSoFar'
<1>1. /\ pc = "detect" /\ pc' = "apply" /\ stage' = "alerts"
      /\ UNCHANGED <<nodes, edges, alerts, file>>
      /\ todo' = [nodes |-> DOMAIN batch'.nodes, edges |-> DOMAIN batch'.edges]
      /\ records' = Detect(file)
  BY DEF RunDetection, Apply, tables
<1>2. \A a \in AlertsOf(file) : \E j \in 1 .. Len(records') : records'[j] = a
  BY <1>1 DEF AlertsOf
<1> QED BY <1>1, <1>2 DEF WrittenSoFar, Inserting, Finishing, Kept

\* The first record moves from the list to the table.
LEMMA InsertAlertWritten ==
    ASSUME IInv, AlertInv, WrittenSoFar, InsertAlert
    PROVE  WrittenSoFar'
<1>1. /\ pc = "records" /\ records # << >> /\ records' = Tail(records)
      /\ UNCHANGED <<nodes, edges, pc, file, stage>>
      /\ DOMAIN alerts' = DOMAIN alerts \cup {Head(records).id}
  BY DEF InsertAlert
<1>2. records \in Seq(AlertsOf(file))
  BY <1>1 DEF AlertInv, AlertsPending, Inserting
<1>3. \A j \in 1 .. Len(records) :
        \/ records[j] = Head(records)
        \/ \E i \in 1 .. Len(Tail(records)) : Tail(records)[i] = records[j]
  <2>0. records[1] = Head(records)
    BY <1>1, <1>2
  <2> SUFFICES ASSUME NEW j \in 1 .. Len(records), j # 1
               PROVE  \E i \in 1 .. Len(Tail(records)) : Tail(records)[i] = records[j]
    BY <2>0
  <2>1. /\ Len(Tail(records)) = Len(records) - 1 /\ Len(records) \in Nat
        /\ \A i \in 1 .. Len(Tail(records)) : Tail(records)[i] = records[i + 1]
    BY <1>1, <1>2, HeadTailProperties
  <2>2. PICK i \in Nat : j = i + 1
    BY <2>1
  <2>3. i \in 1 .. Len(Tail(records))
    BY <2>1, <2>2
  <2> QED BY <2>1, <2>2, <2>3
<1>4. \A a \in AlertsOf(file) :
        a.id \in DOMAIN alerts' \/ \E j \in 1 .. Len(records') : records'[j] = a
  BY <1>1, <1>3 DEF WrittenSoFar, Inserting
<1> QED BY <1>1, <1>4 DEF WrittenSoFar, Inserting, Finishing, Kept

\* An ingest goes on to the risk with its graphs and, if it ran detection, its
\* alerts stored.
LEMMA FinishWritten ==
    ASSUME IInv, WrittenSoFar,
           SkipDetection \/ AlertsPersisted \/ RecomputeRisk \/ PublishRisk
    PROVE  WrittenSoFar'
<1>0. [Next]_vars /\ pc \in Running /\ UNCHANGED <<file, stage>>
  BY DEF Next, IngestStep, SkipDetection, AlertsPersisted, RecomputeRisk, PublishRisk, Running
<1>1. pc' \in Finishing /\ pc' \notin {"apply", "detect", "records"}
  BY DEF SkipDetection, AlertsPersisted, RecomputeRisk, PublishRisk, Finishing
<1>2. Kept(Correlate(file))
  BY DEF SkipDetection, AlertsPersisted, RecomputeRisk, PublishRisk, WrittenSoFar, Finishing,
     Inserting
<1>3. stage = "alerts" => Kept(AlertGraph(file)) /\ AlertsIn(file)
  BY DEF SkipDetection, AlertsPersisted, RecomputeRisk, PublishRisk, WrittenSoFar, Finishing,
     Inserting, AlertsIn
<1>4. Kept(Correlate(file))' /\ (stage = "alerts" => Kept(AlertGraph(file))' /\ AlertsIn(file)')
  BY <1>0, <1>2, <1>3, PartsStay
<1> QED BY <1>0, <1>1, <1>4 DEF WrittenSoFar, Inserting

LEMMA WrittenNext ==
    ASSUME IInv, AlertInv, WrittenSoFar, [Next]_vars
    PROVE  WrittenSoFar'
<1>1. CASE \/ \E f \in Files : Start(f)
           \/ Crash \/ Serve \/ StopServing \/ AppendEvent \/ AppendRaw \/ CheckInvariants
  <2>1. pc' \in {"read", "raw", "idle", "serve", "failed", "done"}
    BY <1>1 DEF Start, Crash, Serve, StopServing, AppendEvent, AppendRaw, CheckInvariants
  <2> QED BY <2>1 DEF WrittenSoFar, Inserting, Finishing
<1>2. CASE CorrelateBatch
  BY <1>2 DEF CorrelateBatch, Apply, WrittenSoFar, Inserting, Finishing
<1>3. CASE UNCHANGED vars
  BY <1>3 DEF vars, tables, process, WrittenSoFar, Inserting, Finishing, Kept, AlertsIn
<1> QED BY <1>1, <1>2, <1>3, UpsertNodeWritten, UpsertEdgeWritten, RefreshWritten,
           RunDetectionWritten, InsertAlertWritten, FinishWritten DEF Next, IngestStep

\* Completed ingests stay complete, and the check adds one that is.
LEMMA CompletedNext ==
    ASSUME IInv, KeepInv, [Next]_vars
    PROVE  CompletedKept'
<1>1. ASSUME NEW c \in completed
      PROVE  /\ c[1] \in Files
             /\ Kept(Correlate(c[1]))'
             /\ c[2] => Kept(AlertGraph(c[1]))' /\ AlertsIn(c[1])'
  <2>1. c[1] \in Files /\ Kept(Correlate(c[1]))
        /\ (c[2] => Kept(AlertGraph(c[1])) /\ AlertsIn(c[1]))
    BY DEF KeepInv, CompletedKept
  <2>2. IsGraph(Correlate(c[1])) /\ IsGraph(AlertGraph(c[1]))
    BY <2>1, GraphAssumption
  <2>3. Kept(Correlate(c[1]))' /\ (Kept(AlertGraph(c[1])) => Kept(AlertGraph(c[1]))')
    BY <2>1, <2>2, StepHolds DEF Kept
  <2>4. AlertsIn(c[1]) => AlertsIn(c[1])'
    BY AlertsStay DEF AlertsIn
  <2> QED BY <2>1, <2>3, <2>4
<1>2. CASE UNCHANGED completed
  BY <1>1, <1>2 DEF CompletedKept
<1>3. CASE CheckInvariants
  <2>1. /\ completed' \subseteq completed \cup {<<file, stage = "alerts">>}
        /\ UNCHANGED <<nodes, edges, alerts>> /\ pc = "check"
    BY <1>3 DEF CheckInvariants, tables
  <2>2. file \in Files
    BY <2>1, FileGraphs DEF Running
  <2>3. Kept(Correlate(file)) /\ (stage = "alerts" => Kept(AlertGraph(file)) /\ AlertsIn(file))
    BY <2>1 DEF KeepInv, WrittenSoFar, Finishing
  <2>4. CASE completed' = completed
    BY <1>2, <2>4
  <2>5. ASSUME NEW c \in completed'
        PROVE  /\ c[1] \in Files
               /\ Kept(Correlate(c[1]))'
               /\ c[2] => Kept(AlertGraph(c[1]))' /\ AlertsIn(c[1])'
    <3>1. CASE c \in completed
      BY <1>1, <3>1
    <3>2. CASE c = <<file, stage = "alerts">>
      BY <2>1, <2>2, <2>3, <3>2 DEF Kept, AlertsIn
    <3> QED BY <2>1, <3>1, <3>2
  <2> QED BY <2>5 DEF CompletedKept
<1>4. CheckInvariants \/ UNCHANGED completed
  BY DEF Next, IngestStep, Start, AppendEvent, AppendRaw, CorrelateBatch, RunDetection,
     RefreshIndex, UpsertNode, UpsertEdge, SkipDetection, InsertAlert, AlertsPersisted,
     RecomputeRisk, PublishRisk, Crash, Serve, StopServing, vars
<1> QED BY <1>2, <1>3, <1>4

LEMMA KeepAlways == Spec => []KeepInv
<1>1. Init => KeepInv
  BY DEF Init, KeepInv, WrittenSoFar, CompletedKept, Inserting, Finishing
<1>2. IInv /\ AlertInv /\ KeepInv /\ [Next]_vars => KeepInv'
  BY WrittenNext, CompletedNext DEF KeepInv
<1> QED BY <1>1, <1>2, AlertAlways, Invariance, PTL DEF Spec

\* Whatever a successful ingest stored is still there, with intervals that cover
\* its observations, after any later ingests and kills.
THEOREM CompletedAlwaysKept == Spec => []CompletedIngestKept
<1>1. KeepInv => CompletedIngestKept
  BY DEF KeepInv, CompletedKept, CompletedIngestKept, Kept, Holds, AlertsIn, AlertsOf
<1> QED BY <1>1, KeepAlways, PTL

-----------------------------------------------------------------------------
(***************************************************************************)
(* The ledger.  The invariants above say what an ingest has in its hands   *)
(* at each stage; one more is needed, about the lines behind the ids.      *)
(***************************************************************************)
\* The rows a running ingest has appended hold the lines of its file.
LinesRead ==
    pc \in Running => \A i \in 1 .. pos : events[base + i - 1] = file[i]

Abstract == <<Spans(nodes), Spans(edges), ShownLines, completed, Client, View>>

-----------------------------------------------------------------------------
\* A row, once appended, is not written again.
LEMMA RowsUnchanged ==
    ASSUME IInv, [Next]_vars
    PROVE  \A i \in DOMAIN events : i \in DOMAIN events' /\ events'[i] = events[i]
<1>1. AppendEvent => \A i \in DOMAIN events : i \in DOMAIN events' /\ events'[i] = events[i]
  BY DEF AppendEvent
<1>2. AppendEvent \/ UNCHANGED events
  BY DEF Next, IngestStep, Start, AppendEvent, AppendRaw, CorrelateBatch, RunDetection,
     RefreshIndex, UpsertNode, UpsertEdge, SkipDetection, InsertAlert, AlertsPersisted,
     RecomputeRisk, PublishRisk, CheckInvariants, Crash, Serve, StopServing, vars, tables
<1> QED BY <1>1, <1>2

LEMMA LinesNext == IInv /\ LinesRead /\ [Next]_vars => LinesRead'
<1> SUFFICES ASSUME IInv, LinesRead, [Next]_vars PROVE LinesRead'
  OBVIOUS
<1>1. CASE \/ \E f \in Files : Start(f)
           \/ Crash \/ Serve \/ StopServing \/ CheckInvariants
  BY <1>1 DEF Start, Crash, Serve, StopServing, CheckInvariants, LinesRead, Running
<1>2. CASE AppendEvent
  <2>1. pc = "read" /\ pos \in Nat /\ base \in Nat \ {0} /\ UNCHANGED <<file, base>>
    BY <1>2 DEF AppendEvent, IInv, TypeOK
  <2>2. CASE UNCHANGED <<events, pos>>
    BY <2>1, <2>2 DEF LinesRead, Running
  <2>3. CASE base + pos \notin DOMAIN events
    <3>1. /\ pos' = pos + 1
          /\ events' = [i \in DOMAIN events \cup {base + pos} |->
                          IF i = base + pos THEN file[pos + 1] ELSE events[i]]
      BY <1>2, <2>3 DEF AppendEvent
    <3>2. DOMAIN events = 1 .. (base + pos - 1)
      BY <2>1 DEF IInv, IdsUsed, Running
    <3>3. ASSUME NEW i \in 1 .. pos PROVE events'[base + i - 1] = file[i]
      BY <2>1, <3>1, <3>2, <3>3 DEF LinesRead, Running
    <3>4. events'[base + (pos + 1) - 1] = file[pos + 1]
      BY <2>1, <3>1
    <3>5. \A i \in 1 .. pos + 1 : i \in 1 .. pos \/ i = pos + 1
      BY <2>1
    <3>6. \A i \in 1 .. pos' : events'[base' + i - 1] = file'[i]
      BY <2>1, <3>1, <3>3, <3>4, <3>5
    <3> QED BY <3>6 DEF LinesRead
  <2> QED BY <1>2, <2>2, <2>3 DEF AppendEvent
<1>3. CASE UNCHANGED <<events, pos, file, base>> /\ (pc' \in Running => pc \in Running)
  BY <1>3 DEF LinesRead
<1> QED BY <1>1, <1>2, <1>3
    DEF Next, IngestStep, AppendRaw, CorrelateBatch, RunDetection, Apply, RefreshIndex,
    UpsertNode, UpsertEdge, SkipDetection, InsertAlert, AlertsPersisted, RecomputeRisk,
    PublishRisk, Running, vars, tables, process

LEMMA LinesAlways == Spec => []LinesRead
<1>1. Init => LinesRead
  BY DEF Init, LinesRead, Running
<1> QED BY <1>1, LinesNext, Invariance, PTL DEF Spec

-----------------------------------------------------------------------------
\* The lines of the alerts on record stay what they are.
LEMMA ShownStay ==
    ASSUME IInv, AlertsBacked, [Next]_vars, UNCHANGED alerts
    PROVE  UNCHANGED ShownLines
<1>1. \A a \in DOMAIN alerts : {events'[i] : i \in alerts[a]} = {events[i] : i \in alerts[a]}
  BY RowsUnchanged DEF AlertsBacked
<1> QED BY <1>1 DEF ShownLines

\* Steps the ledger does not see.
LEMMA Unseen ==
    ASSUME IInv, AlertsBacked, [Next]_vars,
           \/ AppendEvent \/ AppendRaw \/ CorrelateBatch \/ RefreshIndex \/ SkipDetection
           \/ RunDetection \/ AlertsPersisted \/ RecomputeRisk \/ PublishRisk
    PROVE  UNCHANGED Abstract
<1>1. /\ pc \in Running /\ UNCHANGED <<edges, alerts, completed, file>>
      /\ pc' \in Running \cup {"failed"}
  BY DEF AppendEvent, AppendRaw, CorrelateBatch, RefreshIndex, SkipDetection, RunDetection,
     Apply, AlertsPersisted, RecomputeRisk, PublishRisk, Running, tables
<1>2. pc' \in Running
  <2>1. NeverFails'
    BY NextInv DEF IInv
  <2> QED BY <1>1, <2>1 DEF NeverFails
<1>3. UNCHANGED Spans(nodes)
  <2>1. CASE UNCHANGED nodes
    BY <2>1 DEF Spans
  <2>2. CASE RecomputeRisk
    <3>1. DOMAIN nodes' = DOMAIN nodes
      BY <2>2 DEF RecomputeRisk
    <3>2. \A k \in DOMAIN nodes : nodes'[k].first = nodes[k].first
                                  /\ nodes'[k].last = nodes[k].last
      BY <2>2 DEF RecomputeRisk, Scored
    <3> QED BY <3>1, <3>2 DEF Spans
  <2> QED BY <2>1, <2>2 DEF AppendEvent, AppendRaw, CorrelateBatch, RefreshIndex,
          SkipDetection, RunDetection, AlertsPersisted, PublishRisk, tables
<1>4. UNCHANGED <<Spans(edges), Client, View>>
  BY <1>1, <1>2 DEF Spans, Client, View, Running
<1> QED BY <1>1, <1>3, <1>4, ShownStay DEF Abstract

-----------------------------------------------------------------------------
\* Folding a row widens the span seen of it.
LEMMA UpsertedSpan ==
    ASSUME NEW table, NEW key, NEW v, NEW row,
           row.first = Upserted(table, key, v).first,
           row.last = Upserted(table, key, v).last
    PROVE  [first |-> row.first, last |-> row.last]
             = Promised!Entered(Spans(table), key, v)
<1>1. CASE key \in DOMAIN table
  <2>1. key \in DOMAIN Spans(table)
        /\ Spans(table)[key].first = table[key].first
        /\ Spans(table)[key].last = table[key].last
    BY <1>1 DEF Spans
  <2>2. row.first = Earlier(table[key].first, v.first)
        /\ row.last = Later(table[key].last, v.last)
    BY <1>1 DEF Upserted, Refolded
  <2> QED BY <2>1, <2>2
      DEF Promised!Entered, Promised!Joined, Promised!Earlier, Promised!Later, Earlier, Later
<1>2. CASE key \notin DOMAIN table
  <2>1. key \notin DOMAIN Spans(table)
    BY <1>2 DEF Spans
  <2>2. row.first = v.first /\ row.last = v.last
    BY <1>2 DEF Upserted
  <2> QED BY <2>1, <2>2 DEF Promised!Entered, Promised!Span
<1> QED BY <1>1, <1>2

LEMMA StartBegins ==
    ASSUME NEW f \in Files, Start(f)
    PROVE  Promised!Begin(f)
<1>1. /\ pc \notin Running /\ pc # "serve" /\ pc' = "read" /\ file' = f
      /\ UNCHANGED <<events, nodes, edges, alerts, completed>>
  BY DEF Start, Resting, Running, tables
<1>2. Client = << >> /\ Client' = <<"ingest", f>>
  BY <1>1 DEF Client, Running
<1>3. UNCHANGED <<Spans(nodes), Spans(edges), ShownLines, completed, View>>
  BY <1>1 DEF Spans, ShownLines, View
<1> QED BY <1>2, <1>3 DEF Promised!Begin, Promised!Nobody, Promised!Ingesting

\* In apply, the batch is one of the graphs of the file.
LEMMA BatchSaid ==
    ASSUME IInv, AlertInv, pc = "apply"
    PROVE  file \in Files /\ batch \in {Correlate(file), AlertGraph(file)}
BY DEF IInv, FileKnown, AlertInv, AlertsPending, Running

LEMMA UpsertNodeNotes ==
    ASSUME IInv, AlertInv, NEW k \in todo.nodes, UpsertNode(k)
    PROVE  file \in Files /\ \E g \in {Correlate(file), AlertGraph(file)} :
                                 Promised!NoteNode(file, g)
<1>1. /\ pc = "apply" /\ UNCHANGED <<events, edges, alerts, pc, file, completed, index>>
      /\ k \in DOMAIN batch.nodes
  BY DEF UpsertNode, IInv, TypeOK
<1>2. Spans(nodes') = Promised!Noted(Spans(nodes), k, batch.nodes[k])
  <2>1. /\ DOMAIN nodes' = DOMAIN nodes \cup {k}
        /\ nodes'[k] = Scored(Upserted(nodes, k, batch.nodes[k]), 0)
        /\ \A x \in DOMAIN nodes : x # k => nodes'[x] = nodes[x]
    BY DEF UpsertNode
  <2>2. [first |-> nodes'[k].first, last |-> nodes'[k].last]
          = Promised!Entered(Spans(nodes), k, batch.nodes[k])
    BY <2>1, UpsertedSpan DEF Scored
  <2> QED BY <2>1, <2>2 DEF Spans, Promised!Noted
<1>3. Client = <<"ingest", file>> /\ UNCHANGED <<Spans(edges), ShownLines, Client, View>>
  BY <1>1 DEF Client, Running, Spans, ShownLines, View
<1>4. Promised!NoteNode(file, batch)
  BY <1>1, <1>2, <1>3 DEF Promised!NoteNode, Promised!Ingesting, Spans
<1> QED BY <1>1, <1>4, BatchSaid

LEMMA UpsertEdgeNotes ==
    ASSUME IInv, AlertInv, NEW e \in todo.edges, UpsertEdge(e)
    PROVE  file \in Files /\ \E g \in {Correlate(file), AlertGraph(file)} :
                                 Promised!NoteEdge(file, g)
<1>1. /\ pc = "apply" /\ UNCHANGED <<events, nodes, alerts, pc, file, completed, index>>
      /\ e \in DOMAIN batch.edges /\ todo.nodes = {}
  BY DEF UpsertEdge, NodesIn, IInv, TypeOK
<1>2. {e[1], e[2]} \subseteq DOMAIN Spans(nodes)
  BY <1>1 DEF IInv, TypeOK, IsGraph, Closed, NodesApplied, Spans
<1>3. Spans(edges') = Promised!Noted(Spans(edges), e, batch.edges[e])
  <2>1. /\ DOMAIN edges' = DOMAIN edges \cup {e}
        /\ edges'[e] = Upserted(edges, e, batch.edges[e])
        /\ \A x \in DOMAIN edges : x # e => edges'[x] = edges[x]
    BY DEF UpsertEdge
  <2>2. [first |-> edges'[e].first, last |-> edges'[e].last]
          = Promised!Entered(Spans(edges), e, batch.edges[e])
    BY <2>1, UpsertedSpan
  <2> QED BY <2>1, <2>2 DEF Spans, Promised!Noted
<1>4. Client = <<"ingest", file>> /\ UNCHANGED <<Spans(nodes), ShownLines, Client, View>>
  BY <1>1 DEF Client, Running, Spans, ShownLines, View
<1>5. Promised!NoteEdge(file, batch)
  BY <1>1, <1>2, <1>3, <1>4 DEF Promised!NoteEdge, Promised!Ingesting, Spans
<1> QED BY <1>1, <1>5, BatchSaid

\* The lines at the ids of an alert's record are its evidence.
LEMMA InsertAlertRaises ==
    ASSUME IInv, AlertInv, LinesRead, InsertAlert
    PROVE  file \in Files /\ \E a \in RaisedOn(file) : Promised!Raise(file, a)
<1> DEFINE r == Head(records)
           a == [id |-> r.id, lines |-> {file[i] : i \in r.evidence}]
<1>1. /\ pc = "records" /\ UNCHANGED <<events, nodes, edges, pc, file, completed, index>>
      /\ alerts' = [x \in DOMAIN alerts \cup {r.id} |->
                       IF x = r.id THEN {EventId(i) : i \in r.evidence} ELSE alerts[x]]
  BY DEF InsertAlert
<1>2. file \in Files /\ pos = Len(file)
  BY <1>1 DEF IInv, FileKnown, AlertInv, AlertsPending, Running
<1>3. r \in AlertsOf(file)
  <2>1. records \in Seq(AlertsOf(file)) /\ records # << >>
    BY <1>1 DEF AlertInv, AlertsPending, Inserting, InsertAlert
  <2> QED BY <2>1
<1>4. r.evidence \subseteq 1 .. pos /\ AlertNode(r.id) \in DOMAIN nodes
  BY <1>1, <1>2, <1>3, AlertsOfFile DEF AlertInv, AlertsPending
<1>5. {events[i] : i \in {EventId(i) : i \in r.evidence}} = {file[i] : i \in r.evidence}
  <2>1. \A i \in r.evidence : events[EventId(i)] = file[i]
    BY <1>1, <1>4 DEF LinesRead, EventId, Running
  <2> QED BY <2>1
<1>6. a \in RaisedOn(file)
  <2>1. Detect(file) \in Seq(AlertsOf(file))
    BY <1>2, AlertsOfFile
  <2>2. r \in {Detect(file)[d] : d \in DOMAIN Detect(file)}
    BY <1>3, <2>1 DEF AlertsOf
  <2> QED BY <2>2 DEF RaisedOn
<1>7. ShownLines' = [x \in DOMAIN ShownLines \cup {a.id} |->
                       IF x = a.id THEN a.lines ELSE ShownLines[x]]
  <2> DEFINE new == [x \in DOMAIN ShownLines \cup {a.id} |->
                       IF x = a.id THEN a.lines ELSE ShownLines[x]]
  <2>1. DOMAIN ShownLines' = DOMAIN alerts \cup {r.id}
    BY <1>1 DEF ShownLines
  <2>2. \A x \in DOMAIN alerts' : x # r.id => x \in DOMAIN alerts /\ alerts'[x] = alerts[x]
    BY <1>1
  <2>3. \A x \in DOMAIN alerts' : x # r.id => ShownLines'[x] = ShownLines[x]
    <3> SUFFICES ASSUME NEW x \in DOMAIN alerts', x # r.id
                 PROVE  ShownLines'[x] = ShownLines[x]
      OBVIOUS
    <3>1. x \in DOMAIN alerts /\ alerts'[x] = alerts[x] /\ events' = events
      BY <1>1, <2>2
    <3>2. ShownLines'[x] = {events'[i] : i \in alerts'[x]}
      BY DEF ShownLines
    <3>3. ShownLines[x] = {events[i] : i \in alerts[x]}
      BY <3>1 DEF ShownLines
    <3> QED BY <3>1, <3>2, <3>3
  <2>4. ShownLines'[r.id] = {file[i] : i \in r.evidence}
    <3>1. alerts'[r.id] = {EventId(i) : i \in r.evidence} /\ r.id \in DOMAIN alerts'
      BY <1>1
    <3>2. ShownLines'[r.id] = {events[i] : i \in alerts'[r.id]}
      BY <1>1, <3>1 DEF ShownLines
    <3> QED BY <1>5, <3>1, <3>2
  <2>5. \A x \in DOMAIN alerts' : ShownLines'[x] = new[x]
    BY <1>1, <2>3, <2>4 DEF ShownLines
  <2>6. DOMAIN new = DOMAIN alerts \cup {r.id}
    BY DEF ShownLines
  <2>7. ShownLines' = [x \in DOMAIN alerts' |-> ShownLines'[x]]
    BY DEF ShownLines
  <2>8. DOMAIN alerts' = DOMAIN alerts \cup {r.id}
    BY <1>1
  <2> QED BY <2>1, <2>5, <2>6, <2>7, <2>8
<1>8. Client = <<"ingest", file>> /\ UNCHANGED <<Spans(nodes), Spans(edges), Client, View>>
  BY <1>1 DEF Client, Running, Spans, View
<1>9. AlertNode(a.id) \in DOMAIN Spans(nodes)
  BY <1>4 DEF Spans
<1> HIDE DEF a
<1>10. Promised!Raise(file, a)
  BY <1>1, <1>7, <1>8, <1>9 DEF Promised!Raise, Promised!Ingesting
<1> QED BY <1>2, <1>6, <1>10

\* What is held in the tables is held in the ledger.
LEMMA KeptIsHeld ==
    ASSUME NEW g, Kept(g)
    PROVE  Promised!Holds(g)
<1>1. ASSUME NEW k \in DOMAIN g.nodes
      PROVE  k \in DOMAIN Spans(nodes) /\ Covers(Spans(nodes)[k], g.nodes[k])
  BY DEF Kept, Holds, Spans, Covers
<1>2. ASSUME NEW e \in DOMAIN g.edges
      PROVE  e \in DOMAIN Spans(edges) /\ Covers(Spans(edges)[e], g.edges[e])
  BY DEF Kept, Holds, Spans, Covers
<1> QED BY <1>1, <1>2 DEF Promised!Holds, Promised!Covers, Covers

LEMMA CheckFinishes ==
    ASSUME IInv, KeepInv, CheckInvariants
    PROVE  file \in Files /\ \E alerted \in BOOLEAN : Promised!Finish(file, alerted)
<1>1. /\ pc = "check" /\ pc' = "done"
      /\ completed' = completed \cup {<<file, stage = "alerts">>}
      /\ UNCHANGED <<events, nodes, edges, alerts, file, index>>
  BY CheckInvariantsInv DEF CheckInvariants, tables
<1>2. file \in Files
  BY <1>1, FileGraphs DEF Running
<1>3. /\ Promised!Holds(Correlate(file))
      /\ stage = "alerts" => Promised!Holds(AlertGraph(file))
  BY <1>1, KeptIsHeld DEF KeepInv, WrittenSoFar, Finishing
<1>4. stage = "alerts" => \A a \in RaisedOn(file) : a.id \in DOMAIN ShownLines
  <2>1. stage = "alerts" => AlertsIn(file)
    BY <1>1 DEF KeepInv, WrittenSoFar, Finishing
  <2>2. DOMAIN Detect(file) = 1 .. Len(Detect(file))
    BY <1>2, AlertsOfFile
  <2>3. \A a \in RaisedOn(file) : \E b \in AlertsOf(file) : a.id = b.id
    BY <2>2 DEF RaisedOn, AlertsOf
  <2> QED BY <2>1, <2>3 DEF AlertsIn, ShownLines
<1>5. /\ Client = <<"ingest", file>> /\ Client' = << >>
      /\ UNCHANGED <<Spans(nodes), Spans(edges), ShownLines, View>>
  BY <1>1 DEF Client, Running, Spans, ShownLines, View
<1>6. Promised!Finish(file, stage = "alerts")
  BY <1>1, <1>3, <1>4, <1>5 DEF Promised!Finish, Promised!Ingesting, Promised!Nobody
<1> QED BY <1>2, <1>6

LEMMA CrashAborts ==
    ASSUME IInv, Crash
    PROVE  (\E f \in Files : Promised!Abort(f)) \/ Promised!Close
<1>1. pc' = "idle" /\ UNCHANGED <<events, nodes, edges, alerts, completed>>
  BY DEF Crash, tables
<1>2. Client' = << >> /\ UNCHANGED <<Spans(nodes), Spans(edges), ShownLines>>
      /\ View' = [nodes |-> {}, edges |-> {}]
  BY <1>1 DEF Client, Running, Spans, ShownLines, View
<1>3. CASE pc \in Running
  <2>1. file \in Files /\ pc # "serve"
    BY <1>3 DEF IInv, FileKnown, Running
  <2>2. Client = <<"ingest", file>> /\ UNCHANGED View
    BY <1>2, <1>3, <2>1 DEF Client, View
  <2>3. Promised!Abort(file)
    BY <1>1, <1>2, <2>2 DEF Promised!Abort, Promised!Ingesting, Promised!Nobody
  <2> QED BY <2>1, <2>3
<1>4. CASE pc = "serve"
  <2>1. Client = <<"reader">>
    BY <1>4 DEF Client, Running
  <2> QED BY <1>1, <1>2, <2>1
      DEF Promised!Close, Promised!Reader, Promised!Nobody, Promised!Nowhere
<1> QED BY <1>3, <1>4 DEF Crash

\* Every node and edge in the tables is served.
LEMMA ServeOpens ==
    ASSUME IInv, Serve
    PROVE  Promised!Open
<1>1. /\ pc \notin Running /\ pc # "serve" /\ pc' = "serve"
      /\ index' = Snapshot(nodes, edges)
      /\ UNCHANGED <<events, nodes, edges, alerts, completed>>
  BY DEF Serve, Resting, Running, tables
<1>2. DOMAIN index'.nodes = DOMAIN nodes /\ index'.edges = DOMAIN edges
  BY <1>1, SnapshotIsWhole DEF IInv
<1>3. Client = << >> /\ Client' = <<"reader">>
      /\ View' = [nodes |-> DOMAIN nodes, edges |-> DOMAIN edges]
  BY <1>1, <1>2 DEF Client, View, Running
<1>4. UNCHANGED <<Spans(nodes), Spans(edges), ShownLines>>
  BY <1>1 DEF Spans, ShownLines
<1>5. DOMAIN Spans(nodes) = DOMAIN nodes /\ DOMAIN Spans(edges) = DOMAIN edges
  BY DEF Spans
<1> QED BY <1>1, <1>3, <1>4, <1>5 DEF Promised!Open, Promised!Nobody, Promised!Reader

LEMMA StopCloses ==
    ASSUME StopServing
    PROVE  Promised!Close
<1>1. pc = "serve" /\ pc' = "idle" /\ UNCHANGED <<events, nodes, edges, alerts, completed>>
  BY DEF StopServing, tables
<1>2. Client = <<"reader">> /\ Client' = << >> /\ View' = [nodes |-> {}, edges |-> {}]
  BY <1>1 DEF Client, View, Running
<1>3. UNCHANGED <<Spans(nodes), Spans(edges), ShownLines>>
  BY <1>1 DEF Spans, ShownLines
<1> QED BY <1>1, <1>2, <1>3 DEF Promised!Close, Promised!Reader, Promised!Nobody, Promised!Nowhere

-----------------------------------------------------------------------------
LEMMA InitRefines == Init => Promised!Init
BY DEF Init, Promised!Init, Promised!Nobody, Promised!Nowhere, Spans, ShownLines, Client,
   View, Running

LEMMA NextRefines ==
    IInv /\ AlertInv /\ KeepInv /\ LinesRead /\ [Next]_vars
      => [Promised!Next]_Promised!vars
<1> SUFFICES ASSUME IInv, AlertInv, KeepInv, LinesRead, [Next]_vars
             PROVE  Promised!Next \/ UNCHANGED Abstract
  BY DEF Promised!vars, Abstract
<1>1. CASE \E f \in Files : Start(f)
  BY <1>1, StartBegins DEF Promised!Next
<1>2. CASE \/ AppendEvent \/ AppendRaw \/ CorrelateBatch \/ RefreshIndex \/ SkipDetection
           \/ RunDetection \/ AlertsPersisted \/ RecomputeRisk \/ PublishRisk
  BY <1>2, Unseen DEF AlertInv
<1>3. CASE \E k \in todo.nodes : UpsertNode(k)
  BY <1>3, UpsertNodeNotes DEF Promised!Next
<1>4. CASE \E e \in todo.edges : UpsertEdge(e)
  BY <1>4, UpsertEdgeNotes DEF Promised!Next
<1>5. CASE InsertAlert
  BY <1>5, InsertAlertRaises DEF Promised!Next
<1>6. CASE CheckInvariants
  BY <1>6, CheckFinishes DEF Promised!Next
<1>7. CASE Crash
  BY <1>7, CrashAborts DEF Promised!Next
<1>8. CASE Serve
  BY <1>8, ServeOpens DEF Promised!Next
<1>9. CASE StopServing
  BY <1>9, StopCloses DEF Promised!Next
<1>10. CASE UNCHANGED vars
  BY <1>10 DEF vars, tables, process, Abstract, Spans, ShownLines, Client, View
<1> QED BY <1>1, <1>2, <1>3, <1>4, <1>5, <1>6, <1>7, <1>8, <1>9, <1>10 DEF Next, IngestStep

\* The store implements the ledger.
THEOREM Refinement == Spec => KeepsPromises
BY InitRefines, NextRefines, Invariance, AlertAlways, KeepAlways, LinesAlways, PTL
DEF Spec, KeepsPromises, Promised!Spec

-----------------------------------------------------------------------------
\* Every alert on record is one of a file, with that file's lines.
ShownRaised ==
    \A a \in DOMAIN ShownLines : \E f \in Files : \E r \in RaisedOn(f) :
        r.id = a /\ r.lines = ShownLines[a]

LEMMA ShownNext ==
    IInv /\ AlertInv /\ LinesRead /\ ShownRaised /\ [Next]_vars => ShownRaised'
<1> SUFFICES ASSUME IInv, AlertInv, LinesRead, ShownRaised, [Next]_vars
             PROVE  ShownRaised'
  OBVIOUS
<1>1. \A f : UNCHANGED RaisedOn(f)
  BY DEF RaisedOn
<1>2. CASE UNCHANGED alerts
  BY <1>1, <1>2, ShownStay DEF ShownRaised, AlertInv
<1>3. CASE InsertAlert
  <2>1. PICK a \in RaisedOn(file) : Promised!Raise(file, a)
    BY <1>3, InsertAlertRaises
  <2>2. file \in Files
    BY <1>3, InsertAlertRaises
  <2>3. ShownLines' = [x \in DOMAIN ShownLines \cup {a.id} |->
                         IF x = a.id THEN a.lines ELSE ShownLines[x]]
    BY <2>1 DEF Promised!Raise
  <2> QED BY <1>1, <2>1, <2>2, <2>3 DEF ShownRaised
<1> QED BY <1>2, <1>3, RowsStay

\* The detail of an alert is exactly the lines of its file that raised it, in a
\* store that any number of ingests, killed ones too, have written to.
THEOREM AlertsShown == Spec => []AlertShowsItsLines
<1>1. Init => ShownRaised
  BY DEF Init, ShownRaised, ShownLines
<1>2. Spec => []ShownRaised
  BY <1>1, ShownNext, Invariance, AlertAlways, LinesAlways, PTL DEF Spec
<1>3. AlertsBacked /\ ShownRaised => AlertShowsItsLines
  <2> SUFFICES ASSUME AlertsBacked, ShownRaised, NEW a \in DOMAIN alerts
               PROVE  \E f \in Files : \E d \in DOMAIN Detect(f) :
                         /\ Detect(f)[d].id = a
                         /\ AlertDetail(a) = {f[i] : i \in Detect(f)[d].evidence}
    BY DEF AlertShowsItsLines
  <2>1. AlertDetail(a) = ShownLines[a] /\ a \in DOMAIN ShownLines
    <3>1. alerts[a] \cap DOMAIN events = alerts[a]
      BY DEF AlertsBacked
    <3> QED BY <3>1 DEF AlertDetail, ShownLines
  <2>2. PICK f \in Files : \E r \in RaisedOn(f) : r.id = a /\ r.lines = ShownLines[a]
    BY <2>1 DEF ShownRaised
  <2>3. PICK d \in DOMAIN Detect(f) :
           /\ Detect(f)[d].id = a
           /\ {f[i] : i \in Detect(f)[d].evidence} = ShownLines[a]
    BY <2>2 DEF RaisedOn
  <2> QED BY <2>1, <2>3
<1> QED BY <1>2, <1>3, AlertsAlwaysBacked, PTL

-----------------------------------------------------------------------------
(***************************************************************************)
(* The scores of alerts                                                    *)
(***************************************************************************)
\* The store is scored by compute_risk, and how central a node is, is a number.
ScoredByRisk ==
    /\ \A ns, es : Score(ns, es) = ComputeRisk(ns, es)
    /\ \A ns, es : \A k \in ns : Centrality(ns, es)[k] \in Int

IsHops(W, ns, es) ==
    W = [d \in 0 .. MaxDepth |->
           IF d = 0 THEN {k \in ns : k[1] = "Alert"}
           ELSE W[d - 1] \cup UNION {Neighbors(k, es) : k \in W[d - 1]}]
Hops(ns, es) == CHOOSE W : IsHops(W, ns, es)

LEMMA HopsAre ==
    ASSUME NEW ns, NEW es
    PROVE  /\ WithinHops(ns, es) = Hops(ns, es)
           /\ Hops(ns, es)[0] = {k \in ns : k[1] = "Alert"}
           /\ \A d \in 0 .. 2 : Hops(ns, es)[d + 1] =
                 Hops(ns, es)[d] \cup UNION {Neighbors(k, es) : k \in Hops(ns, es)[d]}
<1> DEFINE N == MaxDepth
           S == SUBSET (ns \cup {e[1] : e \in es} \cup {e[2] : e \in es})
           alerted == {k \in ns : k[1] = "Alert"}
           turn(R) == R \cup UNION {Neighbors(k, es) : k \in R}
           step == [p \in Nat \X S |-> turn(p[2])]
           level(W, d) == IF d = 0 THEN {k \in ns : k[1] = "Alert"}
                          ELSE W[d - 1] \cup UNION {Neighbors(k, es) : k \in W[d - 1]}
<1>1. N \in Nat /\ N = 3
  BY DEF MaxDepth
<1>2. alerted \in S
  OBVIOUS
<1>3. \A R \in S : turn(R) \in S
  <2> TAKE R \in S
  <2>1. \A k : Neighbors(k, es) \subseteq {e[1] : e \in es} \cup {e[2] : e \in es}
    BY DEF Neighbors
  <2>2. ASSUME NEW x \in turn(R) PROVE x \in R \/ \E k : x \in Neighbors(k, es)
    OBVIOUS
  <2> HIDE DEF turn
  <2> QED BY <2>1, <2>2
<1>4. /\ \A W : level(W, 0) = alerted
      /\ \A W, d : d # 0 => level(W, d) = turn(W[d - 1])
  OBVIOUS
<1>5. \A R : turn(R) = R \cup UNION {Neighbors(k, es) : k \in R}
  OBVIOUS
<1> HIDE DEF turn, S
<1>6. step \in [Nat \X S -> S] /\ \A d \in Nat, R \in S : step[<<d, R>>] = turn(R)
  BY <1>3
<1> HIDE DEF step, alerted, N
<1>7. PICK f : UpTo(N, f, S, alerted, step)
  BY <1>1, <1>2, <1>6, UpToExists
<1> DEFINE Is(W) == W = [d \in 0 .. N |-> level(W, d)]
<1>8. Is(f)
  <2>1. ASSUME NEW d \in 0 .. N PROVE f[d] = level(f, d)
    <3>1. CASE d = 0
      BY <1>4, <1>7, <3>1 DEF UpTo
    <3>2. CASE d # 0
      <4>1. d - 1 \in 0 .. N - 1 /\ d - 1 \in 0 .. N /\ d - 1 \in Nat /\ (d - 1) + 1 = d
        BY <1>1, <3>2
      <4>2. f[(d - 1) + 1] = step[<<d - 1, f[d - 1]>>] /\ f[d - 1] \in S
        BY <1>7, <4>1 DEF UpTo
      <4> HIDE DEF level
      <4> QED BY <1>4, <1>6, <3>2, <4>1, <4>2
    <3> QED BY <3>1, <3>2
  <2> HIDE DEF level
  <2> QED BY <1>7, <2>1 DEF UpTo
<1>9. \A W : IsHops(W, ns, es) <=> Is(W)
  BY DEF IsHops, N
<1>10. PICK W : W = Hops(ns, es)
  OBVIOUS
<1>11. Is(W)
  <2> HIDE DEF Is, level
  <2>1. IsHops(f, ns, es)
    BY <1>8, <1>9
  <2>2. IsHops(Hops(ns, es), ns, es)
    BY <2>1 DEF Hops
  <2> QED BY <1>9, <1>10, <2>2
<1>12. \A d \in 0 .. N : W[d] = level(W, d)
  <2> HIDE DEF level
  <2> DEFINE g == [d \in 0 .. N |-> level(W, d)]
  <2>1. W = g
    BY <1>11
  <2>2. \A d \in 0 .. N : g[d] = level(W, d)
    OBVIOUS
  <2> HIDE DEF g
  <2> QED BY <2>1, <2>2
<1>13. WithinHops(ns, es) = Hops(ns, es)
  BY DEF WithinHops, Hops, IsHops
<1> HIDE DEF level, Is
<1>14. W[0] = alerted
  <2>1. 0 \in 0 .. N
    BY <1>1
  <2> QED BY <1>4, <1>12, <2>1
<1>15. \A d \in 0 .. 2 : W[d + 1] = turn(W[d])
  <2> TAKE d \in 0 .. 2
  <2>1. d + 1 \in 0 .. N /\ d + 1 # 0 /\ (d + 1) - 1 = d
    BY <1>1
  <2> QED BY <1>4, <1>12, <2>1
<1> QED BY <1>5, <1>10, <1>13, <1>14, <1>15 DEF alerted

\* An alert is scored as one, and what is next to one as such.
LEMMA NearAlerts ==
    ASSUME NEW ns, NEW es, NEW e \in es, e[1] \in ns, e[2] \in ns, e[2][1] = "Alert"
    PROVE  /\ Proximity(WithinHops(ns, es), e[1]) \in {4000, 2000}
           /\ Proximity(WithinHops(ns, es), e[2]) = 4000
           /\ KindWeight(e[1][1]) \in Nat /\ KindWeight(e[2][1]) = 1500
<1> DEFINE W == WithinHops(ns, es)
<1>1. /\ W[0] = {k \in ns : k[1] = "Alert"}
      /\ \A d \in 0 .. 2 : W[d + 1] = W[d] \cup UNION {Neighbors(k, es) : k \in W[d]}
  BY HopsAre
<1> HIDE DEF W
<1>2. /\ 0 \in 0 .. 2 /\ 1 \in 0 .. 2 /\ 2 \in 0 .. 2 /\ 0 + 1 = 1 /\ 1 + 1 = 2 /\ 2 + 1 = 3
      /\ MaxDepth = 3
  BY DEF MaxDepth
<1>3. W[0] \subseteq W[1] /\ W[1] \subseteq W[2] /\ W[2] \subseteq W[3]
  BY <1>1, <1>2
<1>4. e[2] \in W[0]
  BY <1>1
<1>5. e[1] \in W[1]
  <2>1. e[1] \in Neighbors(e[2], es)
    BY DEF Neighbors
  <2>2. W[1] = W[0] \cup UNION {Neighbors(k, es) : k \in W[0]}
    BY <1>1, <1>2
  <2> QED BY <1>4, <2>1, <2>2
<1>6. KindWeight(e[2][1]) = 1500
  BY DEF KindWeight
<1>7. \A kind : KindWeight(kind) \in Nat
  BY DEF KindWeight
<1>8. Proximity(W, e[2]) = 4000
  <2> DEFINE depth == CHOOSE d \in 0 .. MaxDepth :
                        e[2] \in W[d] /\ \A c \in 0 .. d - 1 : e[2] \notin W[c]
  <2>1. 0 \in 0 .. MaxDepth /\ \A c \in 0 .. 0 - 1 : e[2] \notin W[c]
    BY <1>2
  <2>2. \E d \in 0 .. MaxDepth : e[2] \in W[d] /\ \A c \in 0 .. d - 1 : e[2] \notin W[c]
    BY <1>4, <2>1
  <2>3. depth \in 0 .. MaxDepth /\ \A c \in 0 .. depth - 1 : e[2] \notin W[c]
    BY <2>2
  <2>4. e[2] \in W[MaxDepth] /\ Proximity(W, e[2]) = 4000 \div 2 ^ depth
    BY <1>2, <1>3, <1>4 DEF Proximity
  <2> HIDE DEF depth
  <2>5. depth = 0
    BY <1>2, <1>4, <2>3
  <2>6. 4000 \div 2 ^ 0 = 4000
    BY SMT
  <2> QED BY <2>4, <2>5, <2>6
<1>9. Proximity(W, e[1]) \in {4000, 2000}
  <2> DEFINE depth == CHOOSE d \in 0 .. MaxDepth :
                        e[1] \in W[d] /\ \A c \in 0 .. d - 1 : e[1] \notin W[c]
  <2>1. \E d \in 0 .. MaxDepth : e[1] \in W[d] /\ \A c \in 0 .. d - 1 : e[1] \notin W[c]
    <3>1. CASE e[1] \in W[0]
      <4>1. 0 \in 0 .. MaxDepth /\ \A c \in 0 .. 0 - 1 : e[1] \notin W[c]
        BY <1>2
      <4> QED BY <3>1, <4>1
    <3>2. CASE e[1] \notin W[0]
      <4>1. 1 \in 0 .. MaxDepth /\ \A c \in 0 .. 1 - 1 : c = 0
        BY <1>2
      <4> QED BY <1>5, <3>2, <4>1
    <3> QED BY <3>1, <3>2
  <2>2. depth \in 0 .. MaxDepth /\ \A c \in 0 .. depth - 1 : e[1] \notin W[c]
    BY <2>1
  <2>3. e[1] \in W[MaxDepth] /\ Proximity(W, e[1]) = 4000 \div 2 ^ depth
    BY <1>2, <1>3, <1>5 DEF Proximity
  <2> HIDE DEF depth
  <2>4. depth \in {0, 1}
    BY <1>2, <1>5, <2>2
  <2>5. 4000 \div 2 ^ 0 = 4000 /\ 4000 \div 2 ^ 1 = 2000
    BY SMT
  <2>6. CASE depth = 0
    BY <2>3, <2>5, <2>6
  <2>7. CASE depth = 1
    BY <2>3, <2>5, <2>7
  <2> QED BY <2>4, <2>6, <2>7
<1> QED BY <1>6, <1>7, <1>8, <1>9 DEF W

\* Stored edges that trigger something trigger alerts.
Triggering == \A e \in DOMAIN edges : e[3] = "Triggered" => e[2][1] = "Alert"

LEMMA TriggeringNext == IInv /\ AlertInv /\ Triggering /\ [Next]_vars => Triggering'
<1> SUFFICES ASSUME IInv, AlertInv, Triggering, [Next]_vars PROVE Triggering'
  OBVIOUS
<1>1. CASE UNCHANGED edges
  BY <1>1 DEF Triggering
<1>2. CASE \E e \in todo.edges : UpsertEdge(e)
  <2>1. PICK e \in todo.edges : UpsertEdge(e)
    BY <1>2
  <2>2. pc = "apply" /\ DOMAIN edges' = DOMAIN edges \cup {e}
    BY <2>1 DEF UpsertEdge
  <2>3. file \in Files /\ e \in DOMAIN batch.edges
    BY <2>2 DEF IInv, TypeOK, FileKnown, Running
  <2>4. e \in DOMAIN Correlate(file).edges \cup DOMAIN AlertGraph(file).edges
    BY <2>2, <2>3 DEF AlertInv, AlertsPending
  <2>5. e[3] = "Triggered" => e[2][1] = "Alert"
    BY <2>3, <2>4, TriggeredAssumption
  <2> QED BY <2>2, <2>5 DEF Triggering
<1>3. UNCHANGED edges \/ \E e \in todo.edges : UpsertEdge(e)
  BY DEF Next, IngestStep, Start, AppendEvent, AppendRaw, CorrelateBatch, RunDetection,
     RefreshIndex, UpsertNode, SkipDetection, InsertAlert, AlertsPersisted,
     RecomputeRisk, PublishRisk, CheckInvariants, Crash, Serve, StopServing, vars, tables
<1> QED BY <1>1, <1>2, <1>3

\* Once an ingest reports success every alert, and whatever triggered it, is scored as
\* such over what being central gives it, in whatever order earlier ingests wrote and
\* were killed (main.rs:251, 173; analytics.rs:222).
THEOREM AlertsAlwaysRanked == ASSUME ScoredByRisk PROVE Spec => []AlertedRank
<1>1. Init => Triggering
  BY DEF Init, Triggering
<1>2. Spec => []Triggering
  BY <1>1, TriggeringNext, Invariance, AlertAlways, PTL DEF Spec
<1>3. IInv /\ RiskCurrentWhenDone /\ Triggering => AlertedRank
  <2> SUFFICES ASSUME NoDanglingEdges, RiskCurrentWhenDone, Triggering, pc = "done",
                      NEW e \in DOMAIN edges, e[3] = "Triggered"
               PROVE  LET over(k) == nodes[k].risk - 45 * Centrality(DOMAIN nodes, DOMAIN edges)[k]
                      IN over(e[1]) >= 2000 /\ over(e[2]) >= 5500
    BY DEF AlertedRank, IInv
  <2> DEFINE ns == DOMAIN nodes
             es == DOMAIN edges
             pr == Centrality(ns, es)
             within == WithinHops(ns, es)
             score(k) == 45 * pr[k] + Proximity(within, k) + KindWeight(k[1])
  <2>1. e[1] \in ns /\ e[2] \in ns /\ e[2][1] = "Alert" /\ e \in es
    BY DEF NoDanglingEdges, Triggering
  <2>2. \A k \in ns : nodes[k].risk = ComputeRisk(ns, es)[k] /\ pr[k] \in Int
    BY DEF RiskCurrentWhenDone, ScoredByRisk
  <2>3. \A k \in ns : nodes[k].risk = score(k)
    BY <2>2 DEF ComputeRisk
  <2>4. /\ Proximity(within, e[1]) \in {4000, 2000} /\ Proximity(within, e[2]) = 4000
        /\ KindWeight(e[1][1]) \in Nat /\ KindWeight(e[2][1]) = 1500
    BY <2>1, NearAlerts
  <2> HIDE DEF ns, es, pr, within
  <2>5. nodes[e[1]].risk - 45 * pr[e[1]] >= 2000 /\ nodes[e[2]].risk - 45 * pr[e[2]] >= 5500
    BY <2>1, <2>2, <2>3, <2>4
  <2> QED BY <2>5 DEF pr, ns, es
<1> QED BY <1>2, <1>3, Invariance, RiskCurrent, PTL

-----------------------------------------------------------------------------
(***************************************************************************)
(* The evidence of a node                                                  *)
(***************************************************************************)
\* The correlator gives an ingest the graph it takes for granted.
THEOREM CorrelatedGraph == \A f \in Files : IsGraph(CorrelatedLog(f))
<1> SUFFICES ASSUME NEW f \in Files PROVE IsGraph(CorrelatedLog(f))
  OBVIOUS
<1>1. Events(f)
  BY FilesAssumption, LinesAssumption DEF Events
<1>2. PICK c : c = Passes(f)[Len(f)]
  OBVIOUS
<1>3. Fit(c)
  BY <1>1, <1>2, PassesFit DEF Events
<1>4. CorrelatedLog(f) = [nodes |-> c.nodes, edges |-> c.edges]
  BY <1>2 DEF CorrelatedLog
<1> QED BY <1>3, <1>4 DEF Fit, Sound, AllProper, Proper, Closed, IsGraph

\* The database compares a name and its identity key as one spelling: so it does with
\* names that have no blanks around them, which Canon removes and lower() does not.
Spelled == \A l \in Line : l.host # None => SqlLower(Canon(l.host)) = SqlLower(l.host)

\* Whatever label the panel asks by, the events of the host answer to it.
LEMMA LabelFinds ==
    ASSUME Spelled, TypeOK, NEW i \in DOMAIN events, events[i].host # None,
           NEW k, k[2] = Canon(events[i].host), NEW host \in HostFor(k)
    PROVE  SameHost(events[i].host, host)
<1>1. SqlLower(k[2]) = SqlLower(events[i].host)
  BY DEF Spelled, TypeOK
<1>2. host = k[2] \/ \E j \in DOMAIN events : /\ events[j].host # None /\ host = events[j].host
                                              /\ Canon(host) = k[2]
  BY DEF HostFor
<1>3. SqlLower(host) = SqlLower(k[2])
  BY <1>2 DEF Spelled, TypeOK
<1> QED BY <1>1, <1>3 DEF SameHost

LEMMA LargerOfTwo ==
    ASSUME NEW x \in Int, NEW y \in Int
    PROVE  Max({x, y}) \in Int /\ Max({x, y}) >= x /\ Max({x, y}) >= y
<1>1. \E m \in {x, y} : \A z \in {x, y} : m >= z
  BY x >= y \/ y >= x
<1>2. Max({x, y}) \in {x, y} /\ \A z \in {x, y} : Max({x, y}) >= z
  BY <1>1 DEF Max
<1> QED BY <1>2

\* The window around the middle of a life holds the life.
LEMMA LifeInWindow ==
    ASSUME NEW a \in Int, NEW b \in Int, NEW t \in Int, a <= t, t <= b, NEW w \in Int,
           w >= ((b - a) + 1) \div 2 + Margin
    PROVE  LET mid == (a + b + 1) \div 2 IN t \in (mid - w) .. (mid + w)
<1>1. Margin \in Nat
  BY WindowAssumption
<1>2. PICK m \in Int : m = (a + b + 1) \div 2
  OBVIOUS
<1>3. PICK h \in Int : h = ((b - a) + 1) \div 2
  OBVIOUS
<1>4. 2 * m <= a + b + 1 /\ a + b + 1 < 2 * m + 2
  BY <1>2
<1>5. 2 * h <= b - a + 1 /\ b - a + 1 < 2 * h + 2
  BY <1>3
<1>6. m - h <= a /\ b <= m + h
  BY <1>4, <1>5
<1>7. w >= h
  BY <1>1, <1>3
<1>8. m - w <= t /\ t <= m + w
  BY <1>6, <1>7
<1> QED BY <1>2, <1>8

\* Rows cut off by the limit are not earlier than those of the answer.
LEMMA AnswerHolds ==
    ASSUME NEW n \in Nat, DOMAIN events = 1 .. n, NEW host, NEW lo, NEW hi,
           NEW S \in EventsContext(host, lo, hi, EventLimit),
           NEW i \in DOMAIN events, events[i].host # None, SameHost(events[i].host, host),
           events[i].ts \in lo .. hi
    PROVE  \/ i \in S
           \/ Cardinality(S) = EventLimit /\ \A j \in S : events[j].ts <= events[i].ts
<1> DEFINE hits == {x \in DOMAIN events : /\ events[x].host # None
                                          /\ SameHost(events[x].host, host)
                                          /\ events[x].ts \in lo .. hi}
<1>1. /\ S \subseteq hits /\ i \in hits
      /\ Cardinality(S) = Min({EventLimit, Cardinality(hits)})
      /\ \A x \in S, j \in hits \ S : events[x].ts <= events[j].ts
  BY DEF EventsContext
<1>2. IsFiniteSet(hits) /\ Cardinality(hits) \in Nat /\ EventLimit \in Nat
  <2>1. hits \subseteq 1 .. n
    OBVIOUS
  <2>2. IsFiniteSet(1 .. n)
    BY FS_Interval
  <2> HIDE DEF hits
  <2> QED BY <2>1, <2>2, FS_Subset, FS_CardinalityType, WindowAssumption
<1> HIDE DEF hits
<1>3. i \notin S => Cardinality(S) < Cardinality(hits)
  <2> SUFFICES ASSUME i \notin S PROVE Cardinality(S) < Cardinality(hits)
    OBVIOUS
  <2>1. IsFiniteSet(S) /\ Cardinality(S) <= Cardinality(hits)
    BY <1>1, <1>2, FS_Subset
  <2>2. Cardinality(S) = Cardinality(hits) => S = hits
    BY <1>1, <1>2, FS_Subset
  <2>3. Cardinality(S) \in Nat
    BY <2>1, FS_CardinalityType
  <2> QED BY <1>1, <1>2, <2>1, <2>2, <2>3
<1>4. Min({EventLimit, Cardinality(hits)}) \in {EventLimit, Cardinality(hits)}
  <2>1. \E m \in {EventLimit, Cardinality(hits)} :
           \A z \in {EventLimit, Cardinality(hits)} : m <= z
    BY <1>2
  <2> QED BY <2>1 DEF Min
<1> QED BY <1>1, <1>2, <1>3, <1>4

\* Once an ingest of a log succeeded, the evidence panel of any node with a host lists
\* every event of the log that the node was built from, however host and label are
\* spelled, whatever else was ingested or killed before and since, unless the answer is
\* full of events that are not later (store.rs:342, lib.rs:323, DetailPanel.tsx:82).
THEOREM EvidenceAlwaysFound == ASSUME Spelled PROVE Spec => []EvidenceFound
<1>1. IInv /\ KeepInv => EvidenceFound
  <2> SUFFICES ASSUME IInv, KeepInv, NEW c \in completed, NEW i \in DOMAIN events,
                      NEW n \in DOMAIN c[1], events[i] = c[1][n], events[i].host # None,
                      NEW k \in BuiltBy(c[1], n), HostFor(k) # {},
                      k[2] = Canon(events[i].host),
                      NEW host \in HostFor(k), NEW S \in Evidence(k, host)
               PROVE  i \in S \/ (Cardinality(S) = EventLimit
                                   /\ \A j \in S : events[j].ts <= events[i].ts)
    BY DEF EvidenceFound
  <2>1. PICK f : f = c[1]
    OBVIOUS
  <2>2. f \in Files /\ Kept(Correlate(f)) /\ Correlate(f) = CorrelatedLog(f)
    BY <2>1, CompositionAssumption DEF KeepInv, CompletedKept
  <2>3. Events(f) /\ n \in 1 .. Len(f) /\ n \in Nat
    BY <2>1, <2>2, FilesAssumption, LinesAssumption DEF Events
  <2>4. PICK g : g = CorrelatedLog(f)
    OBVIOUS
  <2>5. /\ k \in DOMAIN g.nodes /\ f[n].ts \in Int
        /\ g.nodes[k].first <= f[n].ts /\ f[n].ts <= g.nodes[k].last
    BY <2>1, <2>3, <2>4, BuiltIsCovered
  <2>6. PICK a, b, t : a = nodes[k].first /\ b = nodes[k].last /\ t = events[i].ts
    OBVIOUS
  <2>7. k \in DOMAIN nodes /\ Covers(nodes[k], g.nodes[k]) /\ IsGraph(g)
    BY <2>2, <2>4, <2>5, GraphAssumption DEF Kept, Holds
  <2>8. /\ a \in Int /\ b \in Int /\ t \in Int /\ a <= t /\ t <= b
    BY <2>1, <2>5, <2>6, <2>7 DEF IInv, TypeOK, Covers, IsGraph, Interval
  <2>9. PICK w : w = Max({MinWindow, ((b - a) + 1) \div 2 + Margin})
    OBVIOUS
  <2>10. w \in Int /\ w >= ((b - a) + 1) \div 2 + Margin
    <3>1. PICK y \in Int : y = ((b - a) + 1) \div 2 + Margin
      BY <2>8, WindowAssumption
    <3>2. MinWindow \in Int
      BY WindowAssumption
    <3> QED BY <2>9, <3>1, <3>2, LargerOfTwo
  <2>11. PICK mid : mid = (a + b + 1) \div 2
    OBVIOUS
  <2>12. t \in (mid - w) .. (mid + w)
    BY <2>8, <2>10, <2>11, LifeInWindow
  <2>13. S \in EventsContext(host, mid - w, mid + w, EventLimit)
    BY <2>6, <2>9, <2>11 DEF Evidence, EventsAround
  <2>14. SameHost(events[i].host, host)
    BY LabelFinds DEF IInv
  <2>15. PICK m \in Nat : DOMAIN events = 1 .. m
    BY DEF IInv, IdsUsed
  <2> QED BY <2>6, <2>12, <2>13, <2>14, <2>15, AnswerHolds
<1> QED BY <1>1, Invariance, KeepAlways, PTL
=============================================================================
