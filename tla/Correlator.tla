----------------------------- MODULE Correlator -----------------------------
(***************************************************************************)
(* Correlator::correlate_batch over any batch of events, one event a step: *)
(* pass 1 learns which host has which address, pass 2 builds the graph in  *)
(* input order, which is the order of the log and need not be time order.  *)
(***************************************************************************)
EXTENDS Correlation

CONSTANTS
    Event,      \* the normalized events a log may hold
    MaxEvents   \* bound: events in a batch

ASSUME EventAssumption == \A e \in Event : IsEvent(e)

VARIABLES
    batch,              \* the events read so far, in input order
    pass,               \* "register", "correlate" or "done"
    pos,                \* events of the batch pass 2 has consumed
    nodes, edges,       \* GraphBuilder
    live,               \* <<host, pid>> -> the process it stands for now
    addr                \* IP -> host

vars == <<batch, pass, pos, nodes, edges, live, addr>>

Graph == [nodes |-> nodes, edges |-> edges, live |-> live, addr |-> addr]

Init ==
    /\ batch = << >>
    /\ pass = "register"
    /\ pos = 0
    /\ nodes = NewCorrelator.nodes
    /\ edges = NewCorrelator.edges
    /\ live = NewCorrelator.live
    /\ addr = NewCorrelator.addr

Register(e) ==
    /\ pass = "register"
    /\ Len(batch) < MaxEvents
    /\ batch' = Append(batch, e)
    /\ addr' = Registered(addr, e)
    /\ UNCHANGED <<pass, pos, nodes, edges, live>>

BeginSecondPass ==
    /\ pass = "register"
    /\ pass' = "correlate"
    /\ UNCHANGED <<batch, pos, nodes, edges, live, addr>>

Correlate ==
    /\ pass = "correlate"
    /\ pos < Len(batch)
    /\ LET c == Correlated(Graph, batch[pos + 1])
       IN nodes' = c.nodes /\ edges' = c.edges /\ live' = c.live
    /\ pos' = pos + 1
    /\ UNCHANGED <<batch, pass, addr>>

Finish ==
    /\ pass = "correlate"
    /\ pos = Len(batch)
    /\ pass' = "done"
    /\ UNCHANGED <<batch, pos, nodes, edges, live, addr>>

Next ==
    \/ \E e \in Event : Register(e)
    \/ BeginSecondPass
    \/ Correlate
    \/ Finish

Spec == Init /\ [][Next]_vars

-----------------------------------------------------------------------------
(***************************************************************************)
(* Properties                                                              *)
(***************************************************************************)

\* Type invariant: every node and edge has a proper interval (at least one
\* observation, first no later than last).
TypeOK ==
    /\ pass \in {"register", "correlate", "done"}
    /\ batch \in Seq(Event)
    /\ pos \in 0 .. Len(batch)
    /\ \A k \in DOMAIN nodes : /\ nodes[k] \in Interval
                                /\ nodes[k].first <= nodes[k].last
                                /\ nodes[k].count > 0
    /\ \A e \in DOMAIN edges : /\ edges[e] \in Interval
                                /\ edges[e].first <= edges[e].last
                                /\ edges[e].count > 0

\* The graph handed to the store never has an edge without its endpoints, and
\* no lookup through `live` can produce one later: the handlers draw an edge
\* from a process found there without observing it again (correlator.rs:151,
\* 192). This is what Graph::apply relies on.
EndpointsKnown ==
    /\ Closed(Graph)
    /\ \A s \in DOMAIN live : live[s] \in DOMAIN nodes

\* Rewinding cannot show an edge into a node that was not seen then: the
\* target's interval covers the edge's, and so does the source's, except where
\* the source is looked up in `live` and not observed.
EdgesWithinNodes ==
    \A e \in DOMAIN edges :
        /\ Covers(nodes[e[2]], edges[e])
        /\ e[3] \notin {"Spawned", "ConnectedTo"} => Covers(nodes[e[1]], edges[e])

-----------------------------------------------------------------------------
Done == 1 .. pos
Named(i, class) == batch[i].class = class /\ batch[i].host # None
Launch(i, slot) == /\ Named(i, "process") /\ batch[i].pid # None
                   /\ Slot(batch[i].host, batch[i].pid) = slot
Connects(i) == Named(i, "network") /\ batch[i].dst # None

\* The last launch of a slot among the first n events; 0 when there is none.
LastLaunch(slot, n) ==
    LET ls == {j \in 1 .. n : Launch(j, slot)}
    IN IF ls = {} THEN 0 ELSE CHOOSE j \in ls : \A k \in ls : k <= j

LaunchedBy(j) == Launched(batch[j].host, batch[j].pid, batch[j].ts)

Connector(i) ==
    LET e == batch[i]
        j == LastLaunch(Slot(e.host, e.pid), i)
    IN CASE e.pid = None -> Host(e.host)
         [] e.pid # None /\ j > 0 -> LaunchedBy(j)
         [] OTHER -> Unlaunched(e.host, e.pid)

Parent(i) ==
    LET e == batch[i]
        slot == Slot(e.host, e.ppid)
        j == LastLaunch(slot, i)
        connected == \E k \in 1 .. i - 1 :
                        /\ Connects(k) /\ batch[k].pid # None
                        /\ Slot(batch[k].host, batch[k].pid) = slot
    IN CASE j > 0 -> LaunchedBy(j)
         [] j = 0 /\ connected -> Unlaunched(e.host, e.ppid)
         [] OTHER -> Placeholder(e.host, e.ppid)

\* Whatever was launched, relaunched or seen only on the network before, each
\* connection and each child hangs on the instance its pid stood for at that
\* point of the log, and on nothing else ("tracks the current instance for
\* attributing later network/child events", correlator.rs:7).
AttributionExact ==
    /\ {e \in DOMAIN edges : e[3] = "ConnectedTo"} =
         {<<Connector(i), Ip(batch[i].dst), "ConnectedTo">> :
             i \in {i \in Done : Connects(i)}}
    /\ {e \in DOMAIN edges : e[3] = "Spawned"} =
         {<<Parent(i), LaunchedBy(i), "Spawned">> :
             i \in {i \in Done : /\ Named(i, "process") /\ batch[i].pid # None
                                 /\ batch[i].ppid # None}}

Claims(ip) == {Canon(batch[i].host) : i \in {i \in 1 .. Len(batch) :
                                        batch[i].host # None /\ batch[i].own = ip}}

\* "Attribute remote logons to a source host regardless of event ordering"
\* (correlator.rs:5): wherever in the batch a host's own telemetry is, a logon
\* from its address is a lateral movement, if no other host claims the address;
\* and there is no lateral movement without both pieces of evidence.
LateralMovementFound ==
    pass = "done" =>
        LET Logon(i) == /\ Named(i, "auth") /\ batch[i].user.name # None
                        /\ batch[i].src # None
        IN /\ \A i \in Done : \A h \in Claims(batch[i].src) :
                (Logon(i) /\ Claims(batch[i].src) = {h} /\ h # Canon(batch[i].host))
                => LET e == <<<<"Host", h>>, Host(batch[i].host), "LateralMovement">>
                   IN e \in DOMAIN edges /\ Covers(edges[e], ValidityAt(batch[i].ts))
           /\ \A e \in DOMAIN edges : e[3] = "LateralMovement" =>
                \E i \in Done : /\ Logon(i) /\ Host(batch[i].host) = e[2]
                                /\ \E h \in Claims(batch[i].src) : e[1] = <<"Host", h>>

-----------------------------------------------------------------------------
\* Which process a pid stood for is forgotten between two ingests.
OfPid(k) == IF k[1] = "Process" THEN <<"Process", k[2], k[3]>> ELSE k
Ends(e) == <<OfPid(e[1]), OfPid(e[2]), e[3]>>

\* The times at which things that come to the same under f were seen in the graphs.
Lives(graphs, f(_)) ==
    LET spans(x) == UNION {{m[k] : k \in {k \in DOMAIN m : f(k) = x}} : m \in graphs}
    IN [x \in UNION {{f(k) : k \in DOMAIN m} : m \in graphs} |->
          [first |-> Min({v.first : v \in spans(x)}), last |-> Max({v.last : v \in spans(x)})]]

\* A log cut in two files and ingested one after the other gives the graph of the
\* whole log, though each ingest starts with an empty correlator (main.rs:165): the
\* same entities and relationships at the same times, apart from which instance of
\* a pid they hang on, and apart from lateral movements and the hosts they come from,
\* which need the address another event told (correlator.rs:229). Only a process may
\* seem to live longer, and its host to have started it again.
SplitKeepsGraph ==
    pass = "done" =>
        \A n \in 1 .. Len(batch) - 1 :
            LET parts  == {CorrelatedLog(SubSeq(batch, 1, n)),
                           CorrelatedLog(SubSeq(batch, n + 1, Len(batch)))}
                whole  == Lives({nodes}, OfPid)
                halves == Lives({g.nodes : g \in parts}, OfPid)
                joined == Lives({edges}, Ends)
                split  == Lives({g.edges : g \in parts}, Ends)
                moves  == {e \in DOMAIN joined \cup DOMAIN split : e[3] = "LateralMovement"}
                movers == {e[1] : e \in moves}
            IN /\ DOMAIN halves \ movers = DOMAIN whole \ movers
               /\ \A k \in DOMAIN whole \ movers :
                     IF k[1] = "Process" THEN Covers(halves[k], whole[k])
                                         ELSE halves[k] = whole[k]
               /\ DOMAIN split \ moves = DOMAIN joined \ moves
               /\ \A e \in DOMAIN joined \ moves :
                     IF e[3] = "Started" THEN Covers(split[e], joined[e])
                                         ELSE split[e] = joined[e]
=============================================================================
