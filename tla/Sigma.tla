------------------------------- MODULE Sigma -------------------------------
(***************************************************************************)
(* The compiler of Sigma rules into filters                                *)
(* (crates/loghound-detect/src/sigma.rs).  A document is                   *)
(*   sels      : a sequence of selections [name, preds], a predicate being *)
(*               [field, modifier, list, values] (list: written as one)    *)
(*   condition : the words and parentheses of the condition, in order      *)
(* What it is compiled to is text again, which the filter parser reads.    *)
(***************************************************************************)
EXTENDS Filter

CONSTANT Esc(_)     \* esc: a value without its quotes

\* Modifiers a predicate may have, which differ for lists.
Supported(p) == p.modifier \in IF p.list THEN {Missing, "contains"}
                               ELSE {Missing, "contains", "re"}

Word(w)       == <<"bare", w>>
Sym(s)        == <<"sym", s>>
Paren(text)   == <<Sym("(")>> \o text \o <<Sym(")")>>
Join(texts, sep) ==
    FoldLeft(LAMBDA out, t : IF out = << >> THEN t ELSE out \o sep \o t, << >>, texts)

Literals(p) == [k \in DOMAIN p.values |-> <<"quoted", Esc(p.values[k])>>]

\* field_pred
Predicate(p) ==
    LET lits == Literals(p)
        one(op) == <<Word(p.field), op, lits[1]>>
        each(op) == [k \in DOMAIN lits |-> <<Word(p.field), op, lits[k]>>]
    IN CASE p.list /\ p.modifier = "contains" -> Paren(Join(each(Word("CONTAINS")), <<Word("OR")>>))
         [] p.list /\ p.modifier = Missing ->
              <<Word(p.field), Word("IN"), Sym("[")>>
                 \o Join([k \in DOMAIN lits |-> <<lits[k]>>], <<Sym(",")>>) \o <<Sym("]")>>
         [] ~p.list /\ p.modifier = Missing    -> one(Sym("=="))
         [] ~p.list /\ p.modifier = "contains" -> one(Word("CONTAINS"))
         [] ~p.list /\ p.modifier = "re"       -> one(Sym("=~"))

\* selection_to_dsl
Conjunction(sel) ==
    Join([k \in DOMAIN sel.preds |-> Predicate(sel.preds[k])], <<Word("AND")>>)
Selection(sel) == Paren(Conjunction(sel))

Fragments(sels) == [k \in DOMAIN sels |-> Selection(sels[k])]
Names(sels)     == {sels[k].name : k \in DOMAIN sels}
Connectives     == {"and", "or", "not", "(", ")"}

\* The words of a condition, each selection replaced by its fragment.
ConditionWord(sels, w) ==
    CASE w = "and" -> <<Word("AND")>>
      [] w = "or"  -> <<Word("OR")>>
      [] w = "not" -> <<Word("NOT")>>
      [] w \in {"(", ")"} -> <<Sym(w)>>
      [] w \notin Connectives ->
           LET k == CHOOSE k \in DOMAIN sels :
                       sels[k].name = w /\ \A j \in 1 .. k - 1 : sels[j].name # w
           IN Selection(sels[k])

\* compile_condition
Condition(doc) ==
    CASE doc.condition = <<"all of them">> -> Join(Fragments(doc.sels), <<Word("AND")>>)
      [] doc.condition \in {<<"1 of them">>, <<"any of them">>} ->
           Paren(Join(Fragments(doc.sels), <<Word("OR")>>))
      [] OTHER -> FlattenSeq([k \in DOMAIN doc.condition |-> ConditionWord(doc.sels, doc.condition[k])])

\* compile_sigma: the document becomes an atomic rule, or is refused.
Compiles(doc) ==
    /\ \A k \in DOMAIN doc.sels : \A j \in DOMAIN doc.sels[k].preds : Supported(doc.sels[k].preds[j])
    /\ \/ doc.condition \in {<<"all of them">>, <<"1 of them">>, <<"any of them">>}
       \/ \A k \in DOMAIN doc.condition : doc.condition[k] \in Connectives \cup Names(doc.sels)
=============================================================================
