------------------------------- MODULE Filter -------------------------------
(***************************************************************************)
(* The filter language of the rules (crates/loghound-detect/src/dsl.rs):   *)
(* lexer, recursive-descent parser and evaluation.                         *)
(*                                                                         *)
(* A filter is a sequence of lexemes <<kind, text>>: "bare" (a word),      *)
(* "quoted" (a string, without its quotes), "sym" (an operator or          *)
(* punctuation) and "stray" (a quote that is never closed, a lone = or !). *)
(***************************************************************************)
EXTENDS Normalizer

CONSTANTS
    IsNumber(_), NumberOf(_),   \* str::parse::<f64>
    HasText(_, _),      \* str::contains
    IsPattern(_), Fits(_, _)    \* Regex::new succeeds, Regex::is_match

Symbols == {"==", "!=", ">=", "<=", ">", "<", "=~"}

\* Keywords are upper case; every other bare word names a field or is a value.
Token(l) ==
    CASE l[1] = "quoted"                                    -> <<"str", l[2]>>
      [] l[1] = "bare" /\ l[2] \in {"AND", "OR", "NOT"}     -> <<"key", l[2]>>
      [] l[1] = "bare" /\ l[2] \in {"IN", "CONTAINS"}       -> <<"op", l[2]>>
      [] l[1] = "bare" /\ l[2] \notin {"AND", "OR", "NOT", "IN", "CONTAINS"} -> <<"word", l[2]>>
      [] l[1] = "sym" /\ l[2] \in Symbols                   -> <<"op", l[2]>>
      [] OTHER                                              -> <<"punct", l[2]>>
Lexes(text) == \A k \in DOMAIN text : text[k][1] # "stray"
Lex(text)   == [k \in DOMAIN text |-> Token(text[k])]

-----------------------------------------------------------------------------
(***************************************************************************)
(* Parser.  A result is an expression and the position after it; an        *)
(* expression is <<"cmp", field, op, values>>, <<"not", e>>, <<"and", a, b>>*)
(* or <<"or", a, b>>.                                                      *)
(***************************************************************************)
Parsed(expr, at) == [ok |-> TRUE, expr |-> expr, at |-> at]
ParseError       == [ok |-> FALSE, expr |-> << >>, at |-> 0]

Peek(ts, i)     == IF i <= Len(ts) THEN ts[i] ELSE <<"end", "">>
IsScalar(t)     == t[1] \in {"str", "word"}
Punct(p)        == <<"punct", p>>
Keyword(k)      == <<"key", k>>

\* The first ] after i, or the end.
ListEnd(ts, i) ==
    CHOOSE j \in i + 1 .. Len(ts) + 1 :
        /\ Peek(ts, j) \in {Punct("]"), <<"end", "">>}
        /\ \A k \in i + 1 .. j - 1 : Peek(ts, k) # Punct("]")

\* [ ] or scalars with a comma between each two.
IsList(ts, i) ==
    /\ Peek(ts, i) = Punct("[")
    /\ LET j == ListEnd(ts, i) IN
       /\ Peek(ts, j) = Punct("]")
       /\ j = i + 1 \/ (j - i) % 2 = 0
       /\ \A k \in i + 1 .. j - 1 :
            IF (k - i) % 2 = 1 THEN IsScalar(ts[k]) ELSE ts[k] = Punct(",")
ListItems(ts, i) == [n \in 1 .. (ListEnd(ts, i) - i) \div 2 |-> ts[i + 2 * n - 1][2]]

\* field op value; i is at a word.
Comparison(ts, i) ==
    LET op    == Peek(ts, i + 1)
        value == Peek(ts, i + 2)
    IN CASE op[1] = "op" /\ op[2] = "IN" /\ IsList(ts, i + 2) ->
              Parsed(<<"cmp", ts[i][2], "IN", ListItems(ts, i + 2)>>, ListEnd(ts, i + 2) + 1)
         [] /\ op[1] = "op" /\ op[2] # "IN" /\ IsScalar(value)
            /\ op[2] = "=~" => IsPattern(value[2]) ->
              Parsed(<<"cmp", ts[i][2], op[2], <<value[2]>> >>, i + 3)
         [] OTHER -> ParseError

\* The two operators that chain, lowest precedence first, and how each of them
\* goes on from its first operand.
RECURSIVE ParseOr(_, _), MoreOr(_, _), ParseAnd(_, _), MoreAnd(_, _), ParseNot(_, _)

Closed(ts, r) ==
    IF r.ok /\ Peek(ts, r.at) = Punct(")") THEN [r EXCEPT !.at = @ + 1] ELSE ParseError

Primary(ts, i) ==
    CASE Peek(ts, i) = Punct("(")  -> Closed(ts, ParseOr(ts, i + 1))
      [] Peek(ts, i)[1] = "word"   -> Comparison(ts, i)
      [] OTHER                     -> ParseError

Negated(r) == IF r.ok THEN [r EXCEPT !.expr = <<"not", @>>] ELSE r

ParseNot(ts, i) ==
    IF Peek(ts, i) = Keyword("NOT") THEN Negated(ParseNot(ts, i + 1)) ELSE Primary(ts, i)

With(kind, left, right) ==
    IF right.ok THEN Parsed(<<kind, left.expr, right.expr>>, right.at) ELSE right

MoreAnd(ts, left) ==
    IF left.ok /\ Peek(ts, left.at) = Keyword("AND")
    THEN MoreAnd(ts, With("and", left, ParseNot(ts, left.at + 1))) ELSE left
ParseAnd(ts, i) == MoreAnd(ts, ParseNot(ts, i))

MoreOr(ts, left) ==
    IF left.ok /\ Peek(ts, left.at) = Keyword("OR")
    THEN MoreOr(ts, With("or", left, ParseAnd(ts, left.at + 1))) ELSE left
ParseOr(ts, i) == MoreOr(ts, ParseAnd(ts, i))

\* Expr::parse: everything has to be used up. (An empty filter ends at once.)
ParsePrefix(text) == IF Lexes(text) THEN ParseOr(Lex(text), 1) ELSE ParseError
Parse(text) ==
    LET r == IF Lexes(text) THEN ParseOr(Lex(text), 1) ELSE ParseError
    IN IF r.ok /\ r.at = Len(text) + 1 THEN r ELSE ParseError

-----------------------------------------------------------------------------
\* One comparison. A missing field reads as the empty string for == and != and
\* satisfies nothing else; what is no number is in no numeric relation.
BothNumbers(v, w) == v # Missing /\ IsNumber(v) /\ IsNumber(w)
Compare(v, op, args) ==
    LET w == args[1] IN  \* only IN takes another number of values
    CASE op = "=="       -> (IF v = Missing THEN "" ELSE v) = w
      [] op = "!="       -> (IF v = Missing THEN "" ELSE v) # w
      [] op = "CONTAINS" -> v # Missing /\ HasText(v, w)
      [] op = "IN"       -> v # Missing /\ \E k \in DOMAIN args : args[k] = v
      [] op = "=~"       -> v # Missing /\ Fits(w, v)
      [] op = ">"        -> BothNumbers(v, w) /\ NumberOf(v) > NumberOf(w)
      [] op = "<"        -> BothNumbers(v, w) /\ NumberOf(v) < NumberOf(w)
      [] op = ">="       -> BothNumbers(v, w) /\ NumberOf(v) >= NumberOf(w)
      [] op = "<="       -> BothNumbers(v, w) /\ NumberOf(v) <= NumberOf(w)

RECURSIVE Eval(_, _)
Eval(e, event) ==
    CASE e[1] = "or"  -> Eval(e[2], event) \/ Eval(e[3], event)
      [] e[1] = "and" -> Eval(e[2], event) /\ Eval(e[3], event)
      [] e[1] = "not" -> ~Eval(e[2], event)
      [] e[1] = "cmp" -> Compare(Get(event, e[2]), e[3], e[4])
=============================================================================
