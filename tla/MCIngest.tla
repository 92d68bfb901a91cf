------------------------------ MODULE MCIngest ------------------------------
(***************************************************************************)
(* Ingest composed with the correlator and the detection engine: the       *)
(* graphs and alerts of each file are the ones those modules compute.      *)
(***************************************************************************)
EXTENDS Api, LogEvents

\* A log with a change of a file and a logon, which raises an alert, of the same
\* host in its two spellings; and a log that sees the same user earlier.
MCLogon == Logon("ws1", Absent, TRUE, 2)
MCLater == [Blank("file", "WS1", 3) EXCEPT !.path = "readme", !.change = "Modified"]
MCEarlier == [Blank("account", Absent, 1) EXCEPT !.user = Alice, !.actor = Alice]
MCLine == {MCLogon, MCLater, MCEarlier}
MCFiles == {<<MCLater, MCLogon>>, <<MCEarlier>>}

MCRules == <<[id |-> "A", kind |-> "atomic", steps |-> <<"logon">>, threshold |-> 0,
              window |-> 0, by |-> Absent]>>
MCMatches(f, e) == e.class = "auth"
MCField(name, e) == Absent

MCCorrelate(f) == CorrelatedLog(f)
MCDetect(f) ==
    LET as == DetectedLog(f)
    IN [k \in DOMAIN as |-> [id |-> as[k].id, evidence |-> ToSet(as[k].evidence)]]
MCAlertGraph(f) == AlertGraphOf(f)
MCAlertNode(a) == AlertEntity(a)

\* How central a node is: its degree as a share of the highest.
Degree(k, es) == Cardinality({e \in es : e[1] = k}) + Cardinality({e \in es : e[2] = k})
MCCentrality(ns, es) ==
    LET most == Max({1} \cup {Degree(k, es) : k \in ns})
    IN [k \in ns |-> (100 * Degree(k, es)) \div most]
MCScore(ns, es) == ComputeRisk(ns, es)
=============================================================================
