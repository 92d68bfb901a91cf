------------------------------- MODULE Ledger -------------------------------
(***************************************************************************)
(* What the store promises whoever asks it about the logs, with none of    *)
(* its statements, stages and ids: a ledger of spans in which entities and *)
(* relationships were seen, and of alerts with the lines that raised them. *)
(* One client at a time holds it.  An ingest adds what its file says, item *)
(* by item, and reports success only when all of it is in; it may also be  *)
(* cut short, which takes nothing back.  A reader sees everything there is.*)
(* Module Ingest implements this one.                                      *)
(***************************************************************************)
EXTENDS Validity

CONSTANTS
    File,           \* what can be ingested
    Said(_),        \* the graph a file gives
    Alarms(_),      \* the graph its alerts add to that
    Raised(_),      \* its alerts: [id, lines]
    AlertNode(_)    \* the key of an alert's node

VARIABLES
    nodes,      \* key -> span
    edges,      \* <<src, dst, type>> -> span
    alerts,     \* alert id -> the lines that raised it
    done,       \* <<file, with its alerts>> reported as ingested
    client,     \* who holds the ledger
    view        \* what a reader is shown

vars == <<nodes, edges, alerts, done, client, view>>

Nobody == << >>
Reader == <<"reader">>
Ingesting(f) == <<"ingest", f>>

Nowhere == [nodes |-> {}, edges |-> {}]

Span(v) == [first |-> v.first, last |-> v.last]
Joined(v, w) == [first |-> Earlier(v.first, w.first), last |-> Later(v.last, w.last)]

Entered(table, key, v) ==
    IF key \in DOMAIN table THEN Joined(table[key], v) ELSE Span(v)

Noted(table, key, v) ==
    [x \in DOMAIN table \cup {key} |-> IF x = key THEN Entered(table, key, v) ELSE table[x]]

\* The ledger holds all that graph g says.
Holds(g) ==
    /\ \A k \in DOMAIN g.nodes : k \in DOMAIN nodes /\ Covers(nodes[k], g.nodes[k])
    /\ \A e \in DOMAIN g.edges : e \in DOMAIN edges /\ Covers(edges[e], g.edges[e])

Init ==
    /\ nodes = [k \in {} |-> 0]
    /\ edges = [e \in {} |-> 0]
    /\ alerts = [a \in {} |-> 0]
    /\ done = {}
    /\ client = Nobody
    /\ view = Nowhere

Begin(f) ==
    /\ client = Nobody
    /\ client' = Ingesting(f)
    /\ UNCHANGED <<nodes, edges, alerts, done, view>>

NoteNode(f, g) ==
    /\ client = Ingesting(f)
    /\ \E k \in DOMAIN g.nodes : nodes' = Noted(nodes, k, g.nodes[k])
    /\ UNCHANGED <<edges, alerts, done, client, view>>

\* A relationship is of two entities that are known.
NoteEdge(f, g) ==
    /\ client = Ingesting(f)
    /\ \E e \in DOMAIN g.edges :
          /\ {e[1], e[2]} \subseteq DOMAIN nodes
          /\ edges' = Noted(edges, e, g.edges[e])
    /\ UNCHANGED <<nodes, alerts, done, client, view>>

\* An alert is of an entity, and shows the lines that raised it.
Raise(f, a) ==
    /\ client = Ingesting(f)
    /\ AlertNode(a.id) \in DOMAIN nodes
    /\ alerts' = [x \in DOMAIN alerts \cup {a.id} |->
                    IF x = a.id THEN a.lines ELSE alerts[x]]
    /\ UNCHANGED <<nodes, edges, done, client, view>>

Finish(f, alerted) ==
    /\ client = Ingesting(f)
    /\ Holds(Said(f))
    /\ alerted => Holds(Alarms(f)) /\ \A a \in Raised(f) : a.id \in DOMAIN alerts
    /\ done' = done \cup {<<f, alerted>>}
    /\ client' = Nobody
    /\ UNCHANGED <<nodes, edges, alerts, view>>

Abort(f) ==
    /\ client = Ingesting(f)
    /\ client' = Nobody
    /\ UNCHANGED <<nodes, edges, alerts, done, view>>

Open ==
    /\ client = Nobody
    /\ client' = Reader
    /\ view' = [nodes |-> DOMAIN nodes, edges |-> DOMAIN edges]
    /\ UNCHANGED <<nodes, edges, alerts, done>>

Close ==
    /\ client = Reader
    /\ client' = Nobody
    /\ view' = Nowhere
    /\ UNCHANGED <<nodes, edges, alerts, done>>

Next ==
    \/ \E f \in File :
          \/ Begin(f)
          \/ \E g \in {Said(f), Alarms(f)} : NoteNode(f, g) \/ NoteEdge(f, g)
          \/ \E a \in Raised(f) : Raise(f, a)
          \/ \E alerted \in BOOLEAN : Finish(f, alerted)
          \/ Abort(f)
    \/ Open
    \/ Close

Spec == Init /\ [][Next]_vars
=============================================================================
