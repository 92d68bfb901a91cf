------------------------------ MODULE Detector ------------------------------
(***************************************************************************)
(* Engine::run and dedup_alerts over any log: events are taken in time     *)
(* order whatever the order of the log, and every event goes through the   *)
(* rules one at a time, in the order of the rule file.                     *)
(***************************************************************************)
EXTENDS Detection

CONSTANTS
    Event,      \* the events a log may hold
    MaxEvents   \* bound: events in a log

ASSUME RulesAssumption ==
    /\ Rules \in Seq([id : {Rules[r].id : r \in DOMAIN Rules}, kind : RuleKinds,
                      steps : {Rules[r].steps : r \in DOMAIN Rules},
                      threshold : Nat, window : Nat,
                      by : {Rules[r].by : r \in DOMAIN Rules}])
    /\ Len(Rules) > 0
    /\ \A r \in DOMAIN Rules :   \* compile_rule: a chain has two steps
          Rules[r].kind = "chain" => DOMAIN Rules[r].steps = 1 .. 2 /\ Len(Rules[r].steps) = 2
ASSUME TimeAssumption == \A e \in Event : e.ts \in Int

VARIABLES
    log,            \* the events, in input order
    phase,          \* "load", "run" or "done"
    todo,           \* ids not yet processed
    cur,            \* the id being processed, 0 between events
    ri,             \* the rule to evaluate next
    thresh, seq, fired, \* the engine
    alerts          \* what is left after deduplication

vars == <<log, phase, todo, cur, ri, thresh, seq, fired, alerts>>

Engine == [thresh |-> thresh, seq |-> seq, fired |-> fired]

Init ==
    /\ log = << >>
    /\ phase = "load"
    /\ todo = {}
    /\ cur = 0
    /\ ri = 1
    /\ thresh = NewEngine.thresh
    /\ seq = NewEngine.seq
    /\ fired = NewEngine.fired
    /\ alerts = << >>

Load(e) ==
    /\ phase = "load"
    /\ Len(log) < MaxEvents
    /\ log' = Append(log, e)
    /\ UNCHANGED <<phase, todo, cur, ri, thresh, seq, fired, alerts>>

Run ==
    /\ phase = "load"
    /\ phase' = "run"
    /\ todo' = DOMAIN log
    /\ UNCHANGED <<log, cur, ri, thresh, seq, fired, alerts>>

\* The next event of the sorted order.
Take(i) ==
    /\ phase = "run"
    /\ cur = 0
    /\ i \in todo
    /\ \A j \in todo \ {i} : Before(log, i, j)
    /\ cur' = i
    /\ ri' = 1
    /\ todo' = todo \ {i}
    /\ UNCHANGED <<log, phase, thresh, seq, fired, alerts>>

\* process_into, one rule of its loop.
Evaluate(kind) ==
    /\ phase = "run"
    /\ cur # 0
    /\ Rules[ri].kind = kind
    /\ LET en == RuleStep(Engine, log, ri, cur)
       IN thresh' = en.thresh /\ seq' = en.seq /\ fired' = en.fired
    /\ ri' = IF ri = Len(Rules) THEN 1 ELSE ri + 1
    /\ cur' = IF ri = Len(Rules) THEN 0 ELSE cur
    /\ UNCHANGED <<log, phase, todo, alerts>>

Dedup ==
    /\ phase = "run"
    /\ cur = 0
    /\ todo = {}
    /\ alerts' = Deduped(fired)
    /\ phase' = "done"
    /\ UNCHANGED <<log, todo, cur, ri, thresh, seq, fired>>

Next ==
    \/ \E e \in Event : Load(e)
    \/ Run
    \/ \E i \in todo : Take(i)
    \/ Evaluate("atomic")
    \/ Evaluate("threshold")
    \/ Evaluate("chain")
    \/ Dedup

Spec == Init /\ [][Next]_vars

-----------------------------------------------------------------------------
(***************************************************************************)
(* Properties                                                              *)
(***************************************************************************)
Ids(buf) == {buf[k] : k \in DOMAIN buf}

\* Type invariant: windows and partial matches hold ids of processed events, in
\* time order, which is what lets eval_threshold prune from the front only.
TypeOK ==
    /\ log \in Seq(Event)
    /\ phase \in {"load", "run", "done"}
    /\ todo \subseteq DOMAIN log
    /\ cur \in {0} \cup DOMAIN log
    /\ ri \in DOMAIN Rules
    /\ \A s \in DOMAIN thresh : thresh[s] \in Seq(DOMAIN log \ todo)
    /\ \A s \in DOMAIN seq : seq[s] \in Seq(Seq(DOMAIN log \ todo))
    /\ \A s \in DOMAIN thresh : \A j, k \in DOMAIN thresh[s] :
          j < k => log[thresh[s][j]].ts <= log[thresh[s][k]].ts

\* Event i counts towards rule r in group g.
Counts(r, g, i) ==
    /\ Rules[r].kind = "threshold"
    /\ Matches(Rules[r].steps[1], log[i])
    /\ GroupOf(Rules[r], log[i]) = g

\* Nothing stops two rules of a file from having one id; then alerts do not tell
\* which of them they are of.
DistinctIds == \A r, s \in DOMAIN Rules : Rules[r].id = Rules[s].id => r = s
FiredBy(r) == {k \in DOMAIN fired : fired[k].id[1] = Rules[r].id}

\* A count is only compared after an event was added to it, so a threshold of 0,
\* which rules.rs:108 lets pass, is one of 1.
Needed(r) == IF Rules[r].threshold = 0 THEN 1 ELSE Rules[r].threshold

\* A threshold alert is a real burst: as many events of one group as the rule
\* asks for, all within the window that ends at the alert (engine.rs:8).
BurstsAreReal ==
    \A r \in DOMAIN Rules : \A k \in FiredBy(r) :
        LET a == fired[k] IN
        Rules[r].kind = "threshold" =>
            /\ Len(a.evidence) = Needed(r)
            /\ \A i \in Ids(a.evidence) :
                  /\ Counts(r, a.id[2], i)
                  /\ a.ts - Rules[r].window <= log[i].ts /\ log[i].ts <= a.ts

\* ... and no event is evidence of two bursts of a rule: firing resets the
\* group's window (engine.rs:10).
EvidenceCountedOnce ==
    \A r \in DOMAIN Rules : \A j, k \in FiredBy(r) :
        (Rules[r].kind = "threshold" /\ j # k)
            => Ids(fired[j].evidence) \cap Ids(fired[k].evidence) = {}

\* As many counting events of one group as rule r asks for, within one window.
IsBurst(r, S) ==
    /\ Rules[r].kind = "threshold"
    /\ \E g \in {GroupOf(Rules[r], log[i]) : i \in S} : \A i \in S : Counts(r, g, i)
    /\ Cardinality(S) = Needed(r)
    /\ \A i, j \in S : log[j].ts - log[i].ts <= Rules[r].window

InEvidence(r, i) == \E k \in FiredBy(r) : i \in Ids(fired[k].evidence)

\* No burst is missed: of the events of each, interleaved with whatever else and
\* split by other alerts, at least one is evidence of an alert.
NoBurstMissed ==
    phase = "done" =>
        \A r \in DOMAIN Rules : \A S \in SUBSET DOMAIN log :
            IsBurst(r, S) => \E i \in S : InEvidence(r, i)

\* Threshold alerts are the bursts (engine.rs:8-10): each is one, they share no
\* event, and every burst of the log meets one.
BurstsExact == NoBurstMissed /\ (DistinctIds => BurstsAreReal /\ EvidenceCountedOnce)

\* What a two-step chain is about: one event that is the first step and not the
\* second, and a second step later in time order, within the window of the first,
\* with the same value of the field.
ChainPair(r, i, j) ==
    /\ Before(log, i, j)
    /\ Matches(Rules[r].steps[1], log[i]) /\ ~Matches(Rules[r].steps[2], log[i])
    /\ Matches(Rules[r].steps[2], log[j])
    /\ Field(Rules[r].by, log[i]) = Field(Rules[r].by, log[j])
    /\ Field(Rules[r].by, log[i]) # Missing
    /\ log[j].ts - log[i].ts <= Rules[r].window
ChainPairs(r) == {p \in (DOMAIN log) \X (DOMAIN log) : ChainPair(r, p[1], p[2])}

\* A chain fires on exactly those pairs, however they interleave, and once for
\* each: predecessors are neither used up nor forgotten too early (engine.rs:11).
ChainsExact ==
    (phase = "done" /\ DistinctIds) =>
        \A r \in DOMAIN Rules : Rules[r].kind = "chain" =>
            /\ {fired[k].evidence : k \in FiredBy(r)} = ChainPairs(r)
            /\ Cardinality(FiredBy(r)) = Cardinality(ChainPairs(r))

\* engine.rs:6 "atomic -- fires on every event matching": each matching event is
\* evidence of an alert that is reported.
AtomicReportsEveryMatch ==
    phase = "done" =>
        \A r \in DOMAIN Rules : \A i \in DOMAIN log :
            (Rules[r].kind = "atomic" /\ Matches(Rules[r].steps[1], log[i]))
            => \E k \in DOMAIN alerts : /\ alerts[k].id[1] = Rules[r].id
                                        /\ i \in Ids(alerts[k].evidence)

\* What deduplication drops differs in its evidence only if it happened at the
\* same millisecond, or comes from a rule of the same id: with distinct timestamps and distinct rule ids every alert of
\* an atomic or threshold rule is reported.
DistinctTimesKeepAll ==
    (/\ phase = "done"
     /\ \A i, j \in DOMAIN log : i # j => log[i].ts # log[j].ts
     /\ DistinctIds)
    => \A r \in DOMAIN Rules : Rules[r].kind # "chain" =>
          \A k \in FiredBy(r) : \E j \in DOMAIN alerts : alerts[j] = fired[k]

\* The state of the engine is sound, and what it hands on is complete.
Inv == TypeOK /\ DistinctTimesKeepAll
=============================================================================
