------------------------------ MODULE Pipeline ------------------------------
(***************************************************************************)
(* Correlation and detection of a whole log, and the graph of its alerts:  *)
(* what one `ingest` computes from the file before it writes the result.   *)
(***************************************************************************)
EXTENDS Correlation, Detection

\* Engine::run and dedup_alerts.
ByTime(log) == SetToSortSeq(DOMAIN log, LAMBDA i, j : Before(log, i, j))
AllRules(en, log, i) ==
    FoldLeft(LAMBDA x, r : RuleStep(x, log, r, i), en, [r \in DOMAIN Rules |-> r])
DetectedLog(log) ==
    Deduped(FoldLeft(LAMBDA en, i : AllRules(en, log, i), NewEngine, ByTime(log)).fired)

\* build_alert_graph: each alert is a node, and the hosts, users and addresses
\* of its evidence, under the correlator's keys, trigger it.
AlertEntity(id) == <<"Alert", id>>
Entities(e) ==
    SetToBag(Present(e.host, {Host(e.host)})) (+) SetToBag(PresentUser(e.user))
      (+) SetToBag(Present(e.src, {Ip(e.src)})) (+) SetToBag(Present(e.dst, {Ip(e.dst)}))

WithAlert(log, g, a) ==
    LET alert    == AlertEntity(a.id)
        involved == FoldLeft(LAMBDA b, i : b (+) Entities(log[i]), EmptyBag, a.evidence)
    IN Emit(g, SetToBag({alert}) (+) involved,
            SetToBag({<<x, alert, "Triggered">> : x \in DOMAIN involved}), a.ts)

AlertGraphOf(log) ==
    FoldLeft(LAMBDA g, a : WithAlert(log, g, a), EmptyGraph, DetectedLog(log))
=============================================================================
