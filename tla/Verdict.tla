------------------------------ MODULE Verdict ------------------------------
(***************************************************************************)
(* From a file of rules as it is written and a line of the log to the      *)
(* verdict of the rules on the line.                                       *)
(*                                                                         *)
(* One filter of the file is being written, a formula: a sequence of       *)
(* connectives and atoms.  In the filter language an atom is a comparison  *)
(* (or a botched one), in Sigma it is the name of a selection.  A line is  *)
(* written by an agent, which is not part of the program: Wire is what it  *)
(* puts on the wire.                                                       *)
(***************************************************************************)
EXTENDS RuleFile

CONSTANTS
    Comparisons,    \* atoms of the filter language: name -> [text, field, op, values],
                    \* `op` Missing for one that is no comparison
    Docs,           \* what Sigma rules select: sequences of selections
    Alone, Places,  \* [rules, at, slot]: files, and the filter of them that is written;
                    \* a rule has `words`, key -> formula, in place of `texts`
    Reports,        \* what agents have to say, see Wire
    MaxWords        \* bound: words of a filter, by language, and among others

ASSUME WordsAssumption == MaxWords \in [{"dsl", "sigma", "among"} -> Nat]

VARIABLES
    language,   \* of the filter: "dsl" or "sigma"
    sels,       \* the selections of a Sigma rule
    place,      \* where the filter stands
    formula,    \* the filter as written so far
    phase,      \* "write", "loaded", "refused", "judged" or "skipped"
    compiled,   \* the detectors
    report,     \* the report judged, Missing before
    event,      \* what became of it
    verdict     \* the steps of rules that it passes

vars == <<language, sels, place, formula, phase, compiled, report, event, verdict>>

Operators == {"AND", "OR", "NOT", "(", ")"}
SigmaWords(doc) == Connectives \cup Names(doc) \cup {"all of them", "1 of them"}

Spelled(w) ==
    CASE w \in {"(", ")"}              -> <<Sym(w)>>
      [] w \in Operators \ {"(", ")"}  -> <<Word(w)>>
      [] w \notin Operators            -> Comparisons[w].text
Text(words) == FlattenSeq([k \in DOMAIN words |-> Spelled(words[k])])

\* The words of a filter of the file, and the rules with the lexemes of each.
WordsOf(k, slot) == IF k = place.at /\ slot = place.slot THEN formula ELSE place.rules[k].words[slot]
FilterText ==
    IF language = "sigma" THEN Condition([sels |-> sels, condition |-> formula]) ELSE Text(formula)
RulesWritten ==
    [k \in DOMAIN place.rules |->
        LET rule == place.rules[k] IN
        [type |-> rule.type, class |-> rule.class, given |-> rule.given,
         step_classes |-> rule.step_classes,
         texts |-> [slot \in DOMAIN rule.words |->
            IF k = place.at /\ slot = place.slot THEN FilterText ELSE Text(rule.words[slot])]]]

Init ==
    /\ language \in {"dsl", "sigma"}
    /\ sels \in IF language = "sigma" THEN Docs ELSE {<< >>}
    /\ place \in IF language = "sigma" THEN {Alone} ELSE {Alone} \cup Places
    /\ formula = << >>
    /\ phase = "write"
    /\ compiled = << >>
    /\ report = Missing
    /\ event = Missing
    /\ verdict = {}

Write(w) ==
    /\ phase = "write"
    /\ Len(formula) < MaxWords[IF place = Alone THEN language ELSE "among"]
    /\ formula' = Append(formula, w)
    /\ UNCHANGED <<language, sels, place, phase, compiled, report, event, verdict>>

\* compile_sigma if need be, RuleSet::from_path, then CompiledRuleSet::compile.
Accepted ==
    /\ language = "sigma" => Compiles([sels |-> sels, condition |-> formula])
    /\ FromYaml(RulesWritten)
    /\ AllCompile(RulesWritten)

Load ==
    /\ phase = "write"
    /\ Accepted
    /\ compiled' = Compiled(RulesWritten)
    /\ phase' = "loaded"
    /\ UNCHANGED <<language, sels, place, formula, report, event, verdict>>

\* Detection is skipped: no rule of the file is in force.
Refuse ==
    /\ phase = "write"
    /\ ~Accepted
    /\ phase' = "refused"
    /\ UNCHANGED <<language, sels, place, formula, compiled, report, event, verdict>>

-----------------------------------------------------------------------------
(***************************************************************************)
(* A report is [kind, envelope, version, clock, host, path, layout, says]: *)
(* `says` is what the agent knows, by the names the wire format gives it;  *)
(* for "event", the fields of the XML, laid out in one of several ways.    *)
(* Not every agent announces its version.                                  *)
(***************************************************************************)
Said(r, k) == IF k \in DOMAIN r.says THEN r.says[k] ELSE ""

Markup(tag, name, attrs, text) == [tag |-> tag, name |-> name, attrs |-> attrs, text |-> text]
Open(name)    == Markup("start", name, << >>, "")
Close(name)   == Markup("end", name, << >>, "")
Chars(text)   == Markup("text", "", << >>, text)
Named(key)    == << <<"Name", key>> >>
SystemKeys    == {"EventID", "Computer", "TimeCreated_SystemTime"}
Remark        == <<Markup("other", "", << >>, "")>>
Between(r)    == IF r.layout = "pretty" THEN <<Chars("\n")>> ELSE << >>

\* An element of the two sections, with layout after it.
SystemElement(r, key) ==
    IF key = "TimeCreated_SystemTime"
    THEN <<Markup("empty", "TimeCreated", << <<"SystemTime", r.says[key]>> >>, "")>> \o Between(r)
    ELSE <<Open(key), Chars(r.says[key]), Close(key)>> \o Between(r)
DataElement(r, key) ==
    IF r.says[key] = "" THEN <<Markup("empty", "Data", Named(key), "")>> \o Between(r)
    ELSE <<Markup("start", "Data", Named(key), "")>> \o Between(r) \o Remark
           \o <<Chars(r.says[key])>> \o Between(r) \o <<Close("Data")>> \o Between(r)

\* Forwarded events carry a rendering of the same fields after the data.
Rendering == <<Open("RenderingInfo"), Open("Data"), Chars("rendered"), Close("Data"), Close("RenderingInfo")>>

Elements(r, keys, element(_, _)) ==
    FoldLeft(LAMBDA xml, key : xml \o element(r, key), << >>, SetToSeq(keys))
EventMarkup(r) ==
    <<Open("Event"), Open("System")>> \o Between(r)
      \o Elements(r, DOMAIN r.says \cap SystemKeys, SystemElement)
      \o <<Close("System"), Open("EventData")>> \o Between(r)
      \o Elements(r, DOMAIN r.says \ SystemKeys, DataElement) \o <<Close("EventData")>>
      \o (IF r.layout = "forwarded" THEN Rendering ELSE << >>)
      \o (IF r.layout = "cut" THEN <<Markup("broken", "", << >>, "")>> ELSE <<Close("Event")>>)

Payload(r) ==
    CASE r.kind = "event" -> << >>
      [] r.kind = "network" ->
           <<"NETWORK", Said(r, "protocol"), Said(r, "src_ip"), Said(r, "src_port"),
             Said(r, "dst_ip"), Said(r, "dst_port"), Said(r, "pid"), Said(r, "process")>>
      [] r.kind = "process" ->
           <<"NEW_PROCESS", Said(r, "pid"), Said(r, "process")>>
             \o IF DOMAIN r.says \subseteq {"pid", "process"} THEN << >>
                ELSE <<Said(r, "full_path"), Said(r, "parent_folder"), Said(r, "user"),
                       Said(r, "parent_pid"), Said(r, "parent_process")>>
      [] r.kind = "integrity" ->
           <<"FILE_INTEGRITY", "", Said(r, "action")>> \o r.path \o <<Said(r, "hash")>>

Wire(r) ==
    [header |-> r.envelope,
     tokens |-> (IF r.version = Missing THEN << >> ELSE <<r.version>>)
                  \o <<r.clock, r.host, "10.0.0.9", r.kind>> \o Payload(r),
     xml |-> IF r.kind = "event" THEN EventMarkup(r) ELSE << >>]

\* The events that are made of the reports; none of one that cannot be decoded.
EventsOf == [r \in Reports |->
    LET line == Wire(r) IN IF Decodable(line) THEN <<Normalized(Decoded(line))>> ELSE << >>]

Judge(r) ==
    /\ phase = "loaded"
    /\ EventsOf[r] # << >>
    /\ report' = r
    /\ event' = EventsOf[r][1]
    /\ verdict' = {<<k, n>> \in (DOMAIN compiled) \X (1 .. 2) :
                      n \in DOMAIN compiled[k] /\ Passes(compiled[k][n], event')}
    /\ phase' = "judged"
    /\ UNCHANGED <<language, sels, place, formula, compiled>>

\* A line that cannot be decoded is counted, and ingest goes on.
Skip(r) ==
    /\ phase = "loaded"
    /\ EventsOf[r] = << >>
    /\ report' = r
    /\ phase' = "skipped"
    /\ UNCHANGED <<language, sels, place, formula, compiled, event, verdict>>

Next ==
    \/ \E w \in IF language = "sigma" THEN SigmaWords(sels)
                ELSE Operators \cup DOMAIN Comparisons : Write(w)
    \/ Load
    \/ Refuse
    \/ \E r \in Reports : Judge(r)
    \/ \E r \in Reports : Skip(r)

Spec == Init /\ [][Next]_vars

-----------------------------------------------------------------------------
(***************************************************************************)
(* Reference.  What a formula says, by splitting it at its connectives and *)
(* not by parsing it: it is a disjunction of what stands between the ORs   *)
(* that no parenthesis encloses, then a conjunction, then a negation.      *)
(* truth: [atom -> BOOLEAN].                                               *)
(***************************************************************************)
Depth(f, k) == Cardinality({j \in 1 .. k - 1 : f[j] = "("})
                 - Cardinality({j \in 1 .. k - 1 : f[j] = ")"})
Cuts(f, w)  == {k \in DOMAIN f : f[k] = w /\ Depth(f, k) = 0}
Parts(f, w) ==
    LET cuts == Cuts(f, w) \cup {0, Len(f) + 1} IN
    {SubSeq(f, c[1] + 1, c[2] - 1) : c \in
        {d \in cuts \X cuts : d[1] < d[2] /\ ~\E k \in cuts : d[1] < k /\ k < d[2]}}

RECURSIVE Readable(_, _), Says(_, _)
Readable(f, atoms) ==
    CASE f = << >>                -> FALSE
      [] Len(f) = 1               -> f[1] \in atoms
      [] Len(f) > 1 /\ Cuts(f, "OR") # {}  -> \A p \in Parts(f, "OR") : Readable(p, atoms)
      [] Len(f) > 1 /\ Cuts(f, "OR") = {} /\ Cuts(f, "AND") # {} ->
            \A p \in Parts(f, "AND") : Readable(p, atoms)
      [] OTHER ->
            \/ f[1] = "NOT" /\ Readable(Tail(f), atoms)
            \/ f[1] = "(" /\ f[Len(f)] = ")" /\ Readable(SubSeq(f, 2, Len(f) - 1), atoms)

Says(f, truth) ==
    CASE Len(f) = 1              -> truth[f[1]]
      [] Len(f) > 1 /\ Cuts(f, "OR") # {}  -> \E p \in Parts(f, "OR") : Says(p, truth)
      [] Len(f) > 1 /\ Cuts(f, "OR") = {} /\ Cuts(f, "AND") # {} ->
            \A p \in Parts(f, "AND") : Says(p, truth)
      [] OTHER -> IF f[1] = "NOT" THEN ~Says(Tail(f), truth)
                  ELSE Says(SubSeq(f, 2, Len(f) - 1), truth)

\* What a report says of a path: the last field that goes there, a field of the
\* mapping after one of the conventions; a process id that is one before any
\* that is none.
Sources(r) ==
    CASE r.kind = "event"   -> GenericFields \o MappingOf([fields |-> r.says]).map
      [] r.kind = "network" -> NetworkPaths
      [] r.kind = "process" -> ProcessPaths
      [] r.kind = "integrity" -> IntegrityPaths
Fixed(r) ==
    CASE r.kind = "event" ->
           LET code  == CodeIn(Said(r, "EventID"))
               means == CodeMeans(code)
               class == MappingOf([fields |-> r.says]).class
           IN (IF class = "4001" /\ Said(r, "ShareName") # ""
               THEN [activity_id |-> "6", activity_name |-> "Share Access",
                     share_name |-> Said(r, "ShareName")] ELSE NoFields)
              @@ means[1] @@ means[2]
              @@ (IF Said(r, "LogonType") \in DOMAIN AuthProtocol
                  THEN "auth_protocol" :> AuthProtocol[Said(r, "LogonType")] ELSE NoFields)
              @@ (IF code = Missing THEN NoFields ELSE "event_code" :> code)
              @@ [class_uid |-> class]
      [] r.kind = "network"   -> [class_uid |-> "4001"]
      [] r.kind = "process"   -> [class_uid |-> "1007", activity_id |-> "1"]
      [] r.kind = "integrity" -> [class_uid |-> "1001"]

\* When it happened, by the best clock that can be read: of the machine it happened
\* on, of the agent, of the collector.
MomentTold(r) ==
    LET clocks == << <<"iso", IF r.kind = "event" THEN Said(r, "TimeCreated_SystemTime") ELSE "">>,
                     <<"s", r.clock>>, <<"ms", IF r.envelope = << >> THEN "" ELSE r.envelope[2]>> >>
        read   == {k \in DOMAIN clocks : TimeIn(clocks[k][1], clocks[k][2]) # Missing}
    IN IF read = {} THEN "0"
       ELSE LET best == CHOOSE k \in read : \A j \in read : k <= j
            IN TimeIn(clocks[best][1], clocks[best][2])

Told(r, path) ==
    LET value(k) == Said(r, Sources(r)[k][1])
        heard == {k \in DOMAIN Sources(r) : Sources(r)[k][2] = path /\ value(k) # ""}
        pids  == {k \in heard : IsPid(value(k))}
        last(S) == value(CHOOSE k \in S : \A j \in S : j <= k)
    IN CASE path \in DOMAIN Fixed(r) -> Fixed(r)[path]
         [] path = "time"            -> MomentTold(r)
         [] path = "host.hostname"   -> IF Said(r, "Computer") = "" THEN r.host ELSE r.says["Computer"]
         [] path \in PidPaths /\ pids # {}               -> PidOf(last(pids))
         [] path \in PidPaths /\ pids = {} /\ heard # {} ->
              IF r.kind = "event" THEN last(heard) ELSE Missing
         [] path \notin PidPaths \cup DOMAIN Fixed(r) \cup {"host.hostname", "time"} /\ heard # {} -> last(heard)
         [] OTHER -> IF r.kind = "event" /\ Said(r, path) # "" THEN r.says[path] ELSE Missing

\* Atoms that can be judged, and their truth.
SoundPred(p) == p.modifier = "re" => IsPattern(p.values[1])
Sound(sel) ==
    /\ sel.preds # << >>
    /\ \A k \in DOMAIN sel.preds :
          SoundPred(sel.preds[k]) /\ (sel.preds[k].modifier = "contains" => sel.preds[k].values # << >>)
Atoms == IF language = "sigma" THEN {sels[k].name : k \in {j \in DOMAIN sels : Sound(sels[j])}}
         ELSE {a \in DOMAIN Comparisons : Comparisons[a].op # Missing}

HoldsOf(r, p) ==
    LET v == Told(r, p.field) IN
    CASE p.modifier = Missing /\ p.list -> \E k \in DOMAIN p.values : v = p.values[k]
      [] p.modifier = Missing /\ ~p.list -> Compare(v, "==", p.values)
      [] p.modifier = "contains" -> \E k \in DOMAIN p.values : Compare(v, "CONTAINS", <<p.values[k]>>)
      [] p.modifier = "re" -> Compare(v, "=~", p.values)
Truth(r) ==
    IF language = "sigma"
    THEN [a \in Atoms |-> \E k \in DOMAIN sels : sels[k].name = a
                             /\ \A j \in DOMAIN sels[k].preds : HoldsOf(r, sels[k].preds[j])]
    ELSE [a \in Atoms |-> Compare(Told(r, Comparisons[a].field), Comparisons[a].op, Comparisons[a].values)]

Upper(w) == CASE w = "and" -> "AND" [] w = "or" -> "OR" [] w = "not" -> "NOT" [] OTHER -> w
Plainly(words) == [k \in DOMAIN words |-> Upper(words[k])]
OfThem(words)  == words \in {<<"all of them">>, <<"1 of them">>}

ReadableWords(words) ==
    IF language = "sigma" /\ OfThem(words) THEN Atoms = Names(sels) /\ sels # << >>
    ELSE Readable(Plainly(words), Atoms)
Meaning(words, r) ==
    CASE words = <<"all of them">> -> \A a \in Atoms : Truth(r)[a]
      [] words = <<"1 of them">>   -> \E a \in Atoms : Truth(r)[a]
      [] ~OfThem(words)            -> Says(Plainly(words), Truth(r))

\* The filters of a rule: <<key, class of event>>, by step.
Filters(rule) ==
    IF rule.type = "chain"
    THEN << <<"step_1", rule.step_classes[1]>>, <<"step_2", rule.step_classes[2]>> >>
    ELSE << <<"filter", rule.class>> >>

\* Every rule of the file is a rule, has what it needs, and can be read.
WellWritten ==
    /\ language = "sigma" =>
         \A k \in DOMAIN sels : \A j \in DOMAIN sels[k].preds : Supported(sels[k].preds[j])
    /\ \A k \in DOMAIN place.rules :
         LET rule == place.rules[k] IN
         /\ {"id", "name", "severity"} \subseteq rule.given
         /\ rule.type \in {"atomic", "threshold", "chain"}
         /\ rule.type = "threshold" => {"threshold", "window"} \subseteq rule.given
         /\ rule.type = "chain"     => {"match_on", "window"} \subseteq rule.given
         /\ \A n \in DOMAIN Filters(rule) : /\ Filters(rule)[n][1] \in rule.given
                                           /\ ReadableWords(WordsOf(k, Filters(rule)[n][1]))

\* What the file says of a report: the steps it is for, by class and by meaning.
Ruled(r) ==
    {<<k, n>> \in (DOMAIN place.rules) \X (1 .. 2) :
        LET parts == Filters(place.rules[k]) IN
        /\ n \in DOMAIN parts
        /\ parts[n][2] \in {Missing, Told(r, "class_uid")}
        /\ Meaning(WordsOf(k, parts[n][1]), r)}

\* A value with a quote in it is compiled without the quote.
Quoteless == \A k \in DOMAIN sels : \A j \in DOMAIN sels[k].preds :
                \A n \in DOMAIN sels[k].preds[j].values :
                    Esc(sels[k].preds[j].values[n]) = sels[k].preds[j].values[n]

-----------------------------------------------------------------------------
(***************************************************************************)
(* Properties                                                              *)
(***************************************************************************)
\* Type invariant: columns hold values, and the process ids are canonical, which
\* is what lets event records and process records agree on them (normalizer.rs:58).
TypeOK ==
    /\ phase \in {"write", "loaded", "refused", "judged", "skipped"}
    /\ Len(formula) <= MaxWords[IF place = Alone THEN language ELSE "among"]
    /\ verdict \subseteq (DOMAIN compiled) \X (1 .. 2)
    /\ phase = "judged" =>
         /\ report \in Reports
         /\ \A p \in DOMAIN event.typed : event.typed[p] # Missing
         /\ \A p \in PidPaths \cap DOMAIN event.typed : PidOf(event.typed[p]) = event.typed[p]

\* Rules are loaded if and only if every one of the file can be read: a check of
\* keys, the parser, the Sigma compiler and the parser on what the compiler wrote
\* accept nothing else and refuse nothing else, at any nesting, and one bad rule
\* leaves none in force (dsl.rs:85, sigma.rs:16, rules.rs:91, main.rs:227).
LoadsWhatCanBeRead ==
    /\ phase \in {"loaded", "judged", "skipped"} => WellWritten
    /\ phase = "refused" => ~WellWritten

\* The verdict is what the rules say of the report, whatever way a rule was
\* written in and the report came: NOT binds closer than AND and AND than OR,
\* also in text that the Sigma compiler pasted together, each path reads as the
\* field that wins there, and a step of a chain is about the class that it names.
VerdictAsWritten ==
    (phase = "judged" /\ WellWritten /\ Quoteless) => verdict = Ruled(report)

\* No line that is whole is skipped, and nothing else is judged (parser.rs:35).
Whole(r) == r.envelope # << >> /\ r.layout # "cut"
OnlyBrokenSkipped == phase \in {"judged", "skipped"} => (phase = "judged" <=> Whole(report))

\* The event is at the moment the best readable clock says, in milliseconds
\* whatever the unit it came in (record.rs:40).
TimeAsTold == phase = "judged" => event.typed["time"] = MomentTold(report)

\* What holds of every report: it is judged if its line is whole, each column of
\* its event has a value of its type, and the time is the right one.
Inv == TypeOK /\ OnlyBrokenSkipped /\ TimeAsTold

\* A field of the report and where it goes: it is kept if its own value can be read
\* there, or as the event code, or in extra.
GoesTo(r, k)    == {Sources(r)[n][2] : n \in {m \in DOMAIN Sources(r) : Sources(r)[m][1] = k}}
AsColumn(path, v) == IF path \in PidPaths /\ IsPid(v) THEN PidOf(v) ELSE v
Kept(ev, r, k) ==
    \/ k \in DOMAIN ev.extra /\ ev.extra[k] = r.says[k]
    \/ \E p \in GoesTo(r, k) : Get(ev, p) = AsColumn(p, r.says[k])
    \/ k = "EventID" /\ CodeIn(r.says[k]) # Missing /\ Get(ev, "event_code") = CodeIn(r.says[k])

\* Another field of the report, or what its event code stands for, is told instead
\* wherever this one goes.
Overtaken(r, k) ==
    /\ GoesTo(r, k) # {}
    /\ \A p \in GoesTo(r, k) : Told(r, p) \notin {Missing, AsColumn(p, r.says[k])}

\* It should be a number and is none.
Unparsed(r, k) ==
    \/ r.kind = "event" /\ k = "EventID" /\ CodeIn(r.says[k]) = Missing
    \/ r.kind # "event" /\ GoesTo(r, k) \cap PidPaths # {} /\ ~IsPid(r.says[k])

Filled(r) == {k \in DOMAIN r.says : r.says[k] # ""}

\* The fields of a report that cannot be read in its event are known: those that
\* another overtakes in every column they go to, and numbers that are none where the
\* normalizer has no second place for them (normalizer.rs:131, 259, 272, 287). All
\* others are in their column, or in extra if no mapping claims them, however the XML
\* is laid out and in whatever order conventions, mapping and enrichment write. So
\* event.rs:5 and normalizer.rs:8, which say that nothing is ever dropped, say more
\* than is true.
LossesKnown ==
    phase = "judged" =>
        \A k \in Filled(report) :
            ~Kept(event, report, k) <=> Overtaken(report, k) \/ Unparsed(report, k)
=============================================================================
