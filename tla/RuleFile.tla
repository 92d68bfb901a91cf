------------------------------ MODULE RuleFile ------------------------------
(***************************************************************************)
(* A file of rules and the detectors it is compiled to                     *)
(* (crates/loghound-detect/src/rules.rs and engine.rs).  A rule is         *)
(*   type, class   : its kind, and the class of event it is about, if any  *)
(*   given         : the keys that are there                               *)
(*   texts         : the filters, [key -> text] for the keys that hold one *)
(*   step_classes  : of a chain, the classes of its steps                  *)
(* The file is all or nothing: detection runs with every rule or not at    *)
(* all.                                                                    *)
(***************************************************************************)
EXTENDS Sigma

\* What serde asks of every rule, and Rule::validate of each kind.
RuleKeys  == {"id", "name", "severity"}
RuleTypes == {"atomic", "threshold", "chain"}
KeysOf(type) ==
    CASE type = "atomic"    -> {"filter"}
      [] type = "threshold" -> {"filter", "threshold", "window"}
      [] type = "chain"     -> {"step_1", "step_2", "match_on", "window"}

FromYaml(rules) ==
    /\ \A k \in DOMAIN rules : rules[k].type \in RuleTypes /\ RuleKeys \subseteq rules[k].given
    /\ \A k \in DOMAIN rules : KeysOf(rules[k].type) \subseteq rules[k].given

\* A step of a detector: what an event has to be, and the filter it has to pass.
Step(class, text) == [class |-> class, filter |-> Parse(text)]

StepsSwapped(rule) ==
    IF rule.type = "chain"
    THEN <<Step(rule.step_classes[2], rule.texts["step_1"]),
           Step(rule.step_classes[1], rule.texts["step_2"])>>
    ELSE <<Step(rule.class, rule.texts["filter"])>>

\* compile_rule: the class of a chain is that of its steps, its own is not read.
CompiledRule(rule) ==
    IF rule.type = "chain"
    THEN <<Step(rule.step_classes[1], rule.texts["step_1"]),
           Step(rule.step_classes[2], rule.texts["step_2"])>>
    ELSE <<Step(rule.class, rule.texts["filter"])>>

Compiled(rules) == [k \in DOMAIN rules |-> CompiledRule(rules[k])]
AllCompile(rules) ==
    \A k \in DOMAIN rules :
        LET steps == CompiledRule(rules[k]) IN \A n \in DOMAIN steps : steps[n].filter.ok

\* class_matches and eval
Passes(step, event) ==
    /\ step.class = Missing \/ step.class = Get(event, "class_uid")
    /\ Eval(step.filter.expr, event)
=============================================================================
