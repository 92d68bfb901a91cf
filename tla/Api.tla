-------------------------------- MODULE Api --------------------------------
(***************************************************************************)
(* What an analyst is shown of a finding: the handlers of loghound-api     *)
(* that read the tables of Ingest, asked the way the detail panel of the   *)
(* web client asks them.                                                   *)
(***************************************************************************)
EXTENDS Ingest, Pipeline, Risk

CONSTANTS
    SqlLower(_),    \* lower() of the database
    MinWindow,      \* 5 min: the evidence window is at least that
    Margin,         \* 1 min: and that much more than half the life of the node
    EventLimit      \* 1000: rows of an answer

\* What the parsers and the normalizer make of a line is an event, and the graph of a
\* file is the one the correlator builds.
ASSUME LinesAssumption == \A l \in Line : IsEvent(l)
ASSUME CompositionAssumption == \A f \in Files : Correlate(f) = CorrelatedLog(f)

ASSUME WindowAssumption == MinWindow \in Nat /\ Margin \in Nat /\ EventLimit \in Nat

\* What triggers an alert points at its node (alerts.rs); the correlator has no such edges.
ASSUME TriggeredAssumption ==
    \A f \in Files : \A e \in DOMAIN Correlate(f).edges \cup DOMAIN AlertGraph(f).edges :
        e[3] = "Triggered" => e[2][1] = "Alert"

-----------------------------------------------------------------------------
\* events_context: the events of a host around a time, the earliest ones if they
\* are too many; the limit cuts ties in any way.
SameHostExact(a, b) == a = b
SameHost(a, b) == SqlLower(a) = SqlLower(b)

EventsContext(host, lo, hi, limit) ==
    LET hits == {i \in DOMAIN events : /\ events[i].host # None
                                       /\ SameHost(events[i].host, host)
                                       /\ events[i].ts \in lo .. hi}
    IN {S \in SUBSET hits :
          /\ Cardinality(S) = Min({limit, Cardinality(hits)})
          /\ \A i \in S, j \in hits \ S : events[i].ts <= events[j].ts}

\* The handler of /api/events.
EventsAround(host, ts, window) ==
    EventsContext(host, ts - window, ts + window, EventLimit)

\* alert_detail: an id without an event is passed over.
AlertDetail(a) == {events[i] : i \in alerts[a] \cap DOMAIN events}

\* hostFor: the label of a host, which is the name as some event spells it, or
\* what stands before the first colon of an identity key.
HostFor(k) ==
    CASE k[1] = "Host" ->
            {k[2]} \cup {h \in {events[i].host : i \in DOMAIN events} \ {None} : Canon(h) = k[2]}
      [] k[1] \in {"Process", "File", "LogonSession"} -> {k[2]}
      [] OTHER -> {}

\* Evidence: a window around the middle of the node's life.
Evidence(k, host) ==
    LET span == nodes[k].last - nodes[k].first
        mid  == (nodes[k].first + nodes[k].last + 1) \div 2
    IN EventsAround(host, mid, Max({MinWindow, (span + 1) \div 2 + Margin}))

-----------------------------------------------------------------------------
(***************************************************************************)
(* Properties                                                              *)
(***************************************************************************)

\* An alert shows the lines that raised it, in a store that other ingests, killed
\* ones too, have written to before and after: the ids in the record are not only
\* those of some events.
AlertShowsItsLines ==
    \A a \in DOMAIN alerts : \E f \in Files : \E d \in DOMAIN Detect(f) :
        /\ Detect(f)[d].id = a
        /\ AlertDetail(a) = {f[i] : i \in Detect(f)[d].evidence}

\* The evidence panel of a host-scoped node lists the events it was built from,
\* however they spell the host, once their ingest has succeeded; unless there
\* are more than fit, none of them later.
EvidenceFound ==
    \A c \in completed, i \in DOMAIN events : \A n \in DOMAIN c[1] :
        LET e == events[i]
        IN (e = c[1][n] /\ e.host # None) =>
             \A k \in {k \in BuiltBy(c[1], n) : HostFor(k) # {} /\ k[2] = Canon(e.host)} :
               \A host \in HostFor(k) : \A S \in Evidence(k, host) :
                 i \in S \/ (Cardinality(S) = EventLimit /\ \A j \in S : events[j].ts <= e.ts)

\* An ingest that reports success has scored the alerts, and what raised them, as
\* such, over what being central gives them: alerts are in the graph before it is
\* scored (main.rs:251, 173) and are found against the direction of their edges.
AlertedRank ==
    pc = "done" =>
        LET over(k) == nodes[k].risk - 45 * Centrality(DOMAIN nodes, DOMAIN edges)[k]
        IN \A e \in DOMAIN edges :
             e[3] = "Triggered" => over(e[1]) >= 2000 /\ over(e[2]) >= 5500
=============================================================================
