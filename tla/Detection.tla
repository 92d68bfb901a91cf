----------------------------- MODULE Detection -----------------------------
(***************************************************************************)
(* What one rule of the detection engine does with one event               *)
(* (crates/loghound-detect/src/engine.rs).                                 *)
(*                                                                         *)
(* A log is a sequence of events and an event id is an index into it.  The *)
(* class gate and the filter of a rule, or of a step of it, are one name   *)
(* that Matches decides.  An engine en is a record:                        *)
(*   thresh : <<rule, group>> -> ids in the window, oldest first           *)
(*   seq    : <<rule, step, value>> -> partial matches, each a sequence of *)
(*            ids, the first of which dates it                             *)
(*   fired  : the alerts, in the order they fired                          *)
(***************************************************************************)
EXTENDS Integers, Sequences, SequencesExt

CONSTANTS
    Rules,          \* compiled rules: [id, kind, steps, threshold, window, by]
    Matches(_, _),  \* a filter (with its class gate) holds of an event
    Field(_, _),    \* Event::get: an event's field of that name, or Missing
    Missing         \* no such field; as `by`, no group_by

RuleKinds == {"atomic", "threshold", "chain"}

NewEngine == [thresh |-> [s \in {} |-> << >>], seq |-> [s \in {} |-> << >>],
              fired |-> << >>]

\* Engine::run sorts by (timestamp, event id).
Before(log, i, j) == log[i].ts < log[j].ts \/ (log[i].ts = log[j].ts /\ i < j)

Entry(map, key) == IF key \in DOMAIN map THEN map[key] ELSE << >>
Stored(map, key, v) == [k \in DOMAIN map \cup {key} |-> IF k = key THEN v ELSE map[k]]

\* make_alert: rule, group and time are the identity.
AlertUntimed(rule, group, ts, ids) ==
    [id |-> <<rule.id, group>>, ts |-> ts, evidence |-> ids]
Alert(rule, group, ts, ids) ==
    [id |-> <<rule.id, group, ts>>, ts |-> ts, evidence |-> ids]
Fire(en, alerts) == [en EXCEPT !.fired = @ \o alerts]

\* Vec::retain and Iterator::filter: what stands at the places K, in its order.
Picked(s, K) ==
    LET kept[n \in 0 .. Len(s)] ==
            IF n = 0 THEN << >>
            ELSE IF n \in K THEN Append(kept[n - 1], s[n]) ELSE kept[n - 1]
    IN kept[Len(s)]

AtomicRule(en, log, r, i) ==
    IF Matches(Rules[r].steps[1], log[i])
    THEN Fire(en, <<Alert(Rules[r], "-", log[i].ts, <<i>>)>>) ELSE en

-----------------------------------------------------------------------------
GroupOf(rule, e) ==
    CASE rule.by = Missing -> "default"
      [] rule.by # Missing /\ Field(rule.by, e) = Missing -> "unknown"
      [] OTHER -> Field(rule.by, e)

\* Pop ids from the front until one is not older than the cutoff.
FreshStrict(log, buf, cutoff) == SelectSeq(buf, LAMBDA i : log[i].ts > cutoff)
Fresh(log, buf, cutoff) ==
    LET k == CHOOSE k \in 1 .. Len(buf) + 1 :
                /\ \A j \in 1 .. k - 1 : log[buf[j]].ts < cutoff
                /\ k <= Len(buf) => log[buf[k]].ts >= cutoff
    IN SubSeq(buf, k, Len(buf))

\* buf.clear() on fire.
Reset(buf) == << >>

ThresholdRule(en, log, r, i) ==
    LET rule  == Rules[r]
        now   == log[i].ts
        group == GroupOf(rule, log[i])
        slot  == <<r, group>>
        buf   == Fresh(log, Append(Entry(en.thresh, slot), i), now - rule.window)
        full  == Len(buf) >= rule.threshold
        kept  == [en EXCEPT !.thresh = Stored(@, slot, IF full THEN Reset(buf) ELSE buf)]
    IN CASE ~Matches(rule.steps[1], log[i]) -> en
         [] Matches(rule.steps[1], log[i]) /\ full -> Fire(kept, <<Alert(rule, group, now, buf)>>)
         [] OTHER -> kept

-----------------------------------------------------------------------------
\* The highest step the event satisfies, 0 if none.
LowestStep(rule, e) ==
    LET ss == {s \in DOMAIN rule.steps : Matches(rule.steps[s], e)}
    IN IF ss = {} THEN 0 ELSE CHOOSE s \in ss : \A t \in ss : s <= t
HighestStep(rule, e) ==
    LET ss == {s \in DOMAIN rule.steps : Matches(rule.steps[s], e)}
    IN IF ss = {} THEN 0 ELSE CHOOSE s \in ss : \A t \in ss : t <= s

\* A first step seeds a partial match. A later one advances those of the step
\* before it that are within the window of their first event, which stay where
\* they are, so that the last step can fire on them again.
SequenceRule(en, log, r, i) ==
    LET rule  == Rules[r]
        now   == log[i].ts
        s     == HighestStep(rule, log[i])
        value == Field(rule.by, log[i])
        prev  == <<r, s - 1, value>>
        old   == Entry(en.seq, prev)
        live  == Picked(old, {k \in DOMAIN old : log[old[k][1]].ts >= now - rule.window})
        moved == [k \in DOMAIN live |-> Append(live[k], i)]
        kept  == [en EXCEPT !.seq = Stored(@, prev, live)]
        here  == <<r, s, value>>
    IN CASE s = 0 -> en
         [] s = 1 -> [en EXCEPT !.seq = Stored(@, here, Append(Entry(@, here), <<i>>))]
         [] s > 1 /\ (value = Missing \/ prev \notin DOMAIN en.seq) -> en
         [] s > 1 /\ value # Missing /\ prev \in DOMAIN en.seq /\ s = Len(rule.steps) ->
              Fire(kept, [k \in DOMAIN moved |-> Alert(rule, value, now, moved[k])])
         [] OTHER ->
              [kept EXCEPT !.seq = IF moved = << >> THEN @
                                   ELSE Stored(@, here, Entry(@, here) \o moved)]

RuleStep(en, log, r, i) ==
    CASE Rules[r].kind = "atomic"    -> AtomicRule(en, log, r, i)
      [] Rules[r].kind = "threshold" -> ThresholdRule(en, log, r, i)
      [] Rules[r].kind = "chain"     -> SequenceRule(en, log, r, i)

\* dedup_alerts: the first alert of each id stays.
Deduped(alerts) ==
    Picked(alerts, {k \in DOMAIN alerts : \A j \in 1 .. k - 1 : alerts[j].id # alerts[k].id})
=============================================================================
