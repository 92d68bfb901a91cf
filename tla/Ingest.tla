------------------------------- MODULE Ingest -------------------------------
(***************************************************************************)
(* `loghound ingest` and `loghound serve` over one DuckDB file: the        *)
(* tables, the in-memory index, and the order in which one ingest writes   *)
(* them.  Every SQL statement outside an explicit transaction commits on   *)
(* its own, so each is a step, and the process can be killed (or leave on  *)
(* an error) between any two.  Nothing is repaired at the next start: a    *)
(* later ingest continues from whatever the tables hold.                   *)
(*                                                                         *)
(* What correlation and detection compute from a batch is a parameter      *)
(* here; modules Correlator and Detector model them.                       *)
(*                                                                         *)
(* Here and in the other modules, operators that only a mutant uses stand  *)
(* right before the definition they can replace and are not used otherwise.*)
(***************************************************************************)
EXTENDS Validity, Sequences, FiniteSets

CONSTANTS
    Line,           \* log lines that parse; the others are counted and skipped
    Files,          \* the log files an operator ingests: sequences of lines
    Correlate(_),   \* the graph the correlator builds from a file
    Detect(_),      \* the alerts detection raises on it, in the order they fire
    AlertGraph(_),  \* the alert nodes and TRIGGERED edges built from those
    AlertNode(_),   \* the key of an alert's node
    Score(_, _),    \* compute_risk over a set of nodes and a set of edges
    MaxIngests,     \* bound: ingests started
    MaxCrashes      \* bound: processes killed

IsGraph(g) ==
    /\ DOMAIN g = {"nodes", "edges"}
    /\ \A k \in DOMAIN g.nodes : g.nodes[k] \in Interval
    /\ \A e \in DOMAIN g.edges : g.edges[e] \in Interval
    /\ Closed(g)

ASSUME FilesAssumption ==
    \A f \in Files : f \in Seq(Line)

ASSUME GraphAssumption ==
    \A f \in Files : IsGraph(Correlate(f)) /\ IsGraph(AlertGraph(f))

ASSUME DetectAssumption ==
    \A f \in Files :
        /\ Detect(f) \in Seq([id : {Detect(f)[i].id : i \in 1 .. Len(Detect(f))},
                              evidence : SUBSET (1 .. Len(f))])
        /\ \A i \in 1 .. Len(Detect(f)) :
              AlertNode(Detect(f)[i].id) \in DOMAIN AlertGraph(f).nodes

ASSUME BoundsAssumption == MaxIngests \in Nat /\ MaxCrashes \in Nat

VARIABLES
    events,     \* table events: event id -> line
    raws,       \* table event_raw: ids with a raw body
    nodes,      \* table nodes: key -> interval, count and risk_score
    edges,      \* table edges: <<src, dst, type>> -> interval and count
    alerts,     \* table alerts: alert id -> ids of its evidence
    pc,         \* where the process is
    file,       \* the file being ingested
    base,       \* the event id its first line gets
    pos,        \* lines of it read so far
    stage,      \* whose graph Graph::apply is writing
    batch,      \* that graph
    todo,       \* [nodes, edges] of it not yet upserted
    records,    \* alert records still to be inserted
    index,      \* the published CSR snapshot
    completed,  \* history: <<file, detection ran>> of the successful ingests
    ingests,    \* count of ingests started
    crashes     \* count of processes killed

tables   == <<events, raws, nodes, edges, alerts>>
process  == <<pc, file, base, pos, stage, batch, todo, records, index>>
counters == <<ingests, crashes>>
vars     == <<tables, process, completed, counters>>

Resting == {"idle", "done", "failed"}
Running == {"read", "raw", "apply", "detect", "records", "risk", "publish", "check"}

Nothing == [nodes |-> {}, edges |-> {}]
EmptyIndex == [nodes |-> [k \in {} |-> 0], edges |-> {}]

\* CsrSnapshot::build: every node with its risk, and the edges whose endpoints
\* are both there (a dangling edge is skipped silently).
Snapshot(ns, es) ==
    [nodes |-> [k \in DOMAIN ns |-> ns[k].risk],
     edges |-> {e \in DOMAIN es : e[1] \in DOMAIN ns /\ e[2] \in DOMAIN ns}]

\* INSERT ... ON CONFLICT DO UPDATE: the interval folds with LEAST / GREATEST,
\* every other column takes the new value.
RefoldedFirst(old, new) == [first |-> new.first,
                            last  |-> Later(old.last, new.last),
                            count |-> new.count]
RefoldedLast(old, new) == [first |-> Earlier(old.first, new.first),
                           last  |-> new.last,
                           count |-> new.count]
Refolded(old, new) == [first |-> Earlier(old.first, new.first),
                       last  |-> Later(old.last, new.last),
                       count |-> new.count]

Upserted(table, key, v) ==
    IF key \in DOMAIN table THEN Refolded(table[key], v) ELSE v

\* A node row is an interval and a risk; the builder leaves the risk at 0.0.
Scored(v, risk) ==
    [first |-> v.first, last |-> v.last, count |-> v.count, risk |-> risk]

-----------------------------------------------------------------------------
Init ==
    /\ events = [i \in {} |-> 0]
    /\ raws = {}
    /\ nodes = [k \in {} |-> 0]
    /\ edges = [e \in {} |-> 0]
    /\ alerts = [a \in {} |-> 0]
    /\ pc = "idle"
    /\ file = << >>
    /\ base = 1
    /\ pos = 0
    /\ stage = "correlation"
    /\ batch = EmptyGraph
    /\ todo = Nothing
    /\ records = << >>
    /\ index = EmptyIndex
    /\ completed = {}
    /\ ingests = 0
    /\ crashes = 0

\* Open the store; ids continue after the rows already there.
NextIdZero == Cardinality(DOMAIN events)
NextIdSkip == Cardinality(DOMAIN events) + 2
NextIdRaws == Cardinality(raws) + 1
NextId == Cardinality(DOMAIN events) + 1

Start(f) ==
    /\ pc \in Resting
    /\ ingests < MaxIngests
    /\ ingests' = ingests + 1
    /\ pc' = "read"
    /\ file' = f
    /\ base' = NextId
    /\ pos' = 0
    /\ index' = EmptyIndex
    /\ UNCHANGED <<tables, stage, batch, todo, records, completed, crashes>>

\* append_event, first statement. A used id breaks the primary key and ends
\* the process with an error.
AppendEvent ==
    LET id == base + pos IN
    /\ pc = "read"
    /\ pos < Len(file)
    /\ IF id \in DOMAIN events
       THEN pc' = "failed" /\ UNCHANGED <<events, pos>>
       ELSE /\ events' = [i \in DOMAIN events \cup {id} |->
                            IF i = id THEN file[pos + 1] ELSE events[i]]
            /\ pos' = pos + 1
            /\ pc' = "raw"
    /\ UNCHANGED <<raws, nodes, edges, alerts, file, base, stage, batch, todo,
                   records, index, completed, counters>>

\* append_event, second statement.
AppendRaw ==
    /\ pc = "raw"
    /\ raws' = raws \cup {base + pos - 1}
    /\ pc' = "read"
    /\ UNCHANGED <<events, nodes, edges, alerts, file, base, pos, stage, batch,
                   todo, records, index, completed, counters>>

\* Graph::apply starts on graph g.
Apply(g, s) ==
    /\ batch' = g
    /\ todo' = [nodes |-> DOMAIN g.nodes, edges |-> DOMAIN g.edges]
    /\ stage' = s
    /\ pc' = "apply"

CorrelateBatch ==
    /\ pc = "read"
    /\ pos = Len(file)
    /\ Apply(Correlate(file), "correlation")
    /\ UNCHANGED <<tables, file, base, pos, records, index, completed, counters>>

UpsertNode(k) ==
    /\ pc = "apply"
    /\ k \in todo.nodes
    /\ nodes' = [x \in DOMAIN nodes \cup {k} |->
                   IF x = k THEN Scored(Upserted(nodes, k, batch.nodes[k]), 0)
                            ELSE nodes[x]]
    /\ todo' = [todo EXCEPT !.nodes = @ \ {k}]
    /\ UNCHANGED <<events, raws, edges, alerts, pc, file, base, pos, stage, batch,
                   records, index, completed, counters>>

\* Edges follow when every node is in.
NodesInAlready == TRUE
NodesIn == todo.nodes = {}

UpsertEdge(e) ==
    /\ pc = "apply"
    /\ NodesIn
    /\ e \in todo.edges
    /\ edges' = [x \in DOMAIN edges \cup {e} |->
                   IF x = e THEN Upserted(edges, e, batch.edges[e]) ELSE edges[x]]
    /\ todo' = [todo EXCEPT !.edges = @ \ {e}]
    /\ UNCHANGED <<events, raws, nodes, alerts, pc, file, base, pos, stage, batch,
                   records, index, completed, counters>>

\* refresh_index, the last step of apply.
RefreshIndex ==
    /\ pc = "apply"
    /\ todo = Nothing
    /\ index' = Snapshot(nodes, edges)
    /\ pc' = IF stage = "correlation" THEN "detect" ELSE "records"
    /\ UNCHANGED <<tables, file, base, pos, stage, batch, todo, records, completed,
                   counters>>

\* run_detection: unreadable or invalid rules are reported and passed over.
SkipDetection ==
    /\ pc = "detect"
    /\ pc' = "risk"
    /\ UNCHANGED <<tables, file, base, pos, stage, batch, todo, records, index,
                   completed, counters>>

RunDetection ==
    /\ pc = "detect"
    /\ records' = Detect(file)
    /\ Apply(AlertGraph(file), "alerts")
    /\ UNCHANGED <<tables, file, base, pos, index, completed, counters>>

\* The event id of a file's i-th line.
EventIdOfFile(i) == i
EventIdNext(i) == base + i
EventId(i) == base + i - 1

\* insert_alert (INSERT OR REPLACE), one record at a time.
InsertAlert ==
    /\ pc = "records"
    /\ records # << >>
    /\ LET a == Head(records)
           ids == {EventId(i) : i \in a.evidence}
       IN alerts' = [x \in DOMAIN alerts \cup {a.id} |->
                        IF x = a.id THEN ids ELSE alerts[x]]
    /\ records' = Tail(records)
    /\ UNCHANGED <<events, raws, nodes, edges, pc, file, base, pos, stage, batch,
                   todo, index, completed, counters>>

AlertsPersistedEarly ==
    /\ pc = "records"
    /\ pc' = "risk"
    /\ UNCHANGED <<tables, file, base, pos, stage, batch, todo, records, index,
                   completed, counters>>
AlertsPersisted ==
    /\ pc = "records"
    /\ records = << >>
    /\ pc' = "risk"
    /\ UNCHANGED <<tables, file, base, pos, stage, batch, todo, records, index,
                   completed, counters>>

\* recompute_risk: score the published snapshot, write the scores in one
\* transaction ...
RecomputeRisk ==
    /\ pc = "risk"
    /\ LET score == Score(DOMAIN index.nodes, index.edges)
       IN nodes' = [k \in DOMAIN nodes |->
                      IF k \in DOMAIN index.nodes
                      THEN Scored(nodes[k], score[k]) ELSE nodes[k]]
    /\ pc' = "publish"
    /\ UNCHANGED <<events, raws, edges, alerts, file, base, pos, stage, batch, todo,
                   records, index, completed, counters>>

\* ... and publish the scored snapshot.
PublishRiskNot ==
    /\ pc = "publish"
    /\ pc' = "check"
    /\ UNCHANGED <<tables, file, base, pos, stage, batch, todo, records, index,
                   completed, counters>>

PublishRisk ==
    /\ pc = "publish"
    /\ index' = Snapshot(nodes, edges)
    /\ pc' = "check"
    /\ UNCHANGED <<tables, file, base, pos, stage, batch, todo, records, completed,
                   counters>>

\* check_invariants compares the counts of the index with those of the tables.
CountsAgree ==
    /\ Cardinality(DOMAIN index.nodes) = Cardinality(DOMAIN nodes)
    /\ Cardinality(index.edges) = Cardinality(DOMAIN edges)

CheckInvariants ==
    /\ pc = "check"
    /\ pc' = IF CountsAgree THEN "done" ELSE "failed"
    /\ completed' = IF CountsAgree
                    THEN completed \cup {<<file, stage = "alerts">>} ELSE completed
    /\ UNCHANGED <<tables, file, base, pos, stage, batch, todo, records, index,
                   counters>>

\* The process is killed, or any statement fails and main returns the error:
\* what was committed stays, everything in memory is gone.
Crash ==
    /\ pc \in Running \cup {"serve"}
    /\ crashes < MaxCrashes
    /\ crashes' = crashes + 1
    /\ pc' = "idle"
    /\ file' = << >>
    /\ pos' = 0
    /\ stage' = "correlation"
    /\ batch' = EmptyGraph
    /\ todo' = Nothing
    /\ records' = << >>
    /\ index' = EmptyIndex
    /\ UNCHANGED <<tables, base, completed, ingests>>

\* `loghound serve` cold-loads the index. DuckDB lets one process at a time
\* open the file for writing, and both commands open it so.
ServeEmpty ==
    /\ pc \in Resting
    /\ pc' = "serve"
    /\ UNCHANGED <<tables, file, base, pos, stage, batch, todo, records, index,
                   completed, counters>>

Serve ==
    /\ pc \in Resting
    /\ pc' = "serve"
    /\ index' = Snapshot(nodes, edges)
    /\ UNCHANGED <<tables, file, base, pos, stage, batch, todo, records, completed,
                   counters>>

StopServing ==
    /\ pc = "serve"
    /\ pc' = "idle"
    /\ index' = EmptyIndex
    /\ UNCHANGED <<tables, file, base, pos, stage, batch, todo, records, completed,
                   counters>>

\* The steps an ingest takes by itself.
IngestStep ==
    \/ AppendEvent \/ AppendRaw \/ CorrelateBatch
    \/ \E k \in todo.nodes : UpsertNode(k)
    \/ \E e \in todo.edges : UpsertEdge(e)
    \/ RefreshIndex \/ SkipDetection \/ RunDetection
    \/ InsertAlert \/ AlertsPersisted
    \/ RecomputeRisk \/ PublishRisk \/ CheckInvariants

Next ==
    \/ \E f \in Files : Start(f)
    \/ IngestStep
    \/ Crash
    \/ Serve
    \/ StopServing

Spec == Init /\ [][Next]_vars

-----------------------------------------------------------------------------
(***************************************************************************)
(* Properties                                                              *)
(***************************************************************************)

\* Type invariant: every table row and every piece of process state has the
\* shape the code gives it, and event ids start at 1 (main.rs:142).
TypeOK ==
    /\ DOMAIN events \subseteq Nat \ {0}
    /\ \A i \in DOMAIN events : events[i] \in Line
    /\ raws \subseteq Nat \ {0}
    /\ \A k \in DOMAIN nodes : /\ nodes[k].first \in Int
                                /\ nodes[k].last \in Int
                                /\ nodes[k].count \in Nat
    /\ \A e \in DOMAIN edges : edges[e] \in Interval
    /\ pc \in Resting \cup Running \cup {"serve"}
    /\ file \in Seq(Line)
    /\ base \in Nat \ {0}
    /\ pos \in 0 .. Len(file)
    /\ stage \in {"correlation", "alerts"}
    /\ IsGraph(batch)
    /\ todo \in [nodes : SUBSET DOMAIN batch.nodes, edges : SUBSET DOMAIN batch.edges]
    /\ ingests \in 0 .. MaxIngests
    /\ crashes \in 0 .. MaxCrashes

\* At every instant, a crash between any two statements included, both
\* endpoints of every stored edge are stored (graph.rs:77 writes nodes first).
\* The index builder drops a dangling edge without a word, so one would be
\* invisible to every query and fail the parity check of every later ingest.
NoDanglingEdges ==
    \A e \in DOMAIN edges : e[1] \in DOMAIN nodes /\ e[2] \in DOMAIN nodes

\* Event ids are 1..n with no gap, whatever crashed in between: this is what
\* makes "count + 1" a fresh id (main.rs:142).
EventIdsContiguous ==
    DOMAIN events = 1 .. Cardinality(DOMAIN events)

\* No ingest ends with an error of its own making: no primary key clash, no
\* index/store mismatch (graph.rs:109), after any crashes of earlier ones.
NeverFails == pc # "failed"

\* An alert record never refers to something missing: its node is in the graph
\* (alert view pivots to it) and all its evidence is in the events table.
AlertsBacked ==
    \A a \in DOMAIN alerts :
        /\ AlertNode(a) \in DOMAIN nodes
        /\ alerts[a] \subseteq DOMAIN events

\* What a successful ingest stored stays: every entity and relationship of the
\* file with an interval that covers the file's observations, and its alerts,
\* through all later ingests, crashes and re-emissions.
CompletedIngestKept ==
    \A c \in completed :
        LET kept(g) ==
              /\ \A k \in DOMAIN g.nodes :
                    k \in DOMAIN nodes /\ Covers(nodes[k], g.nodes[k])
              /\ \A e \in DOMAIN g.edges :
                    e \in DOMAIN edges /\ Covers(edges[e], g.edges[e])
        IN /\ kept(Correlate(c[1]))
           /\ c[2] => /\ kept(AlertGraph(c[1]))
                      /\ \A i \in 1 .. Len(Detect(c[1])) :
                            Detect(c[1])[i].id \in DOMAIN alerts

\* Risk is computed after the last write of an ingest: when it reports success
\* every stored node, whichever ingest wrote it, has the score of the final
\* graph, in the table and in the index.
RiskCurrentWhenDone ==
    pc = "done" =>
        /\ \A k \in DOMAIN nodes :
              nodes[k].risk = Score(DOMAIN nodes, DOMAIN edges)[k]
        /\ index = Snapshot(nodes, edges)

\* The API answers from the whole stored graph: cold-loading after any crash
\* loses no node and no edge, and the snapshot stays equal to the tables.
ServedIsStored ==
    pc = "serve" =>
        /\ DOMAIN index.nodes = DOMAIN nodes
        /\ \A k \in DOMAIN nodes : index.nodes[k] = nodes[k].risk
        /\ index.edges = DOMAIN edges

\* No step ever narrows a stored interval or drops a row (store.rs:105, 148):
\* rewinding to a time a node was seen keeps finding it.
IntervalsOnlyWiden ==
    [][/\ \A k \in DOMAIN nodes : k \in DOMAIN nodes' /\ Covers(nodes'[k], nodes[k])
       /\ \A e \in DOMAIN edges : e \in DOMAIN edges' /\ Covers(edges'[e], edges[e])
      ]_<<nodes, edges>>

(***************************************************************************)
(* The abstract specification, and what of a state it sees                 *)
(***************************************************************************)
Spans(table) == [k \in DOMAIN table |-> [first |-> table[k].first, last |-> table[k].last]]

RaisedOn(f) == {[id |-> a.id, lines |-> {f[i] : i \in a.evidence}] :
                    a \in {Detect(f)[d] : d \in DOMAIN Detect(f)}}

ShownLines == [a \in DOMAIN alerts |-> {events[i] : i \in alerts[a]}]

Client == CASE pc \in Running -> <<"ingest", file>>
            [] pc = "serve"  -> <<"reader">>
            [] OTHER         -> << >>

View == IF pc = "serve" THEN [nodes |-> DOMAIN index.nodes, edges |-> index.edges]
                        ELSE [nodes |-> {}, edges |-> {}]

Promised == INSTANCE Ledger WITH
    File   <- Files,        Said   <- Correlate,
    Alarms <- AlertGraph,   Raised <- RaisedOn,
    nodes  <- Spans(nodes), edges  <- Spans(edges),
    alerts <- ShownLines,   done   <- completed,
    client <- Client,       view   <- View

\* The store keeps its promises (main.rs:136, graph.rs:77): read through the
\* mapping above, every statement of an ingest, every kill and restart is a step
\* of Ledger or invisible to it. An alert shows its lines and no others whatever
\* ids they got, success means that everything is in, and a reader sees it all.
KeepsPromises == Promised!Spec

\* alerts.rs:23 "re-emitting an entity that correlation already created just
\* widens its validity interval": writing the alert graph changes nothing else
\* of an entity, so it never lowers how often it was seen.
ReEmissionOnlyWidens ==
    [][stage = "alerts" => \A k \in DOMAIN nodes : nodes'[k].count >= nodes[k].count]_nodes

=============================================================================
