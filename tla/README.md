# Log-hound in TLA+

Log-hound turns Windows event logs into a temporal graph and lets an analyst hunt
in it. `loghound ingest` reads one file, correlates its events into nodes and
edges, runs detection rules over them, writes everything into one DuckDB file and
scores the nodes; `loghound serve` loads the graph into an in-memory index and
answers a web client. This directory models the parts of it that carry state or
an algorithm, checks them with TLC on small instances, and proves with TLAPS, for
every instance, the invariants of the store, the correlator, the detection engine, the
web client, its time scrubber and the searches of the graph, and that the ingest
implements an abstract ledger.

Paths below are relative to the repository; `crates/` is `src/crates/`.

## 1. Inventory

| Component | State | Operations | Talks to | Hard behaviour | Correct when |
|---|---|---|---|---|---|
| Ingest and store (`loghound-cli/src/main.rs`, `loghound-graph/src/{store,graph}.rs`) | tables `events`, `event_raw`, `nodes`, `edges`, `alerts`; published index | `append_event`, `upsert_node`, `upsert_edge`, `refresh_index`, `insert_alert`, `set_risk_scores`, `check_invariants` | calls correlator and engine on the whole batch, the index after each `apply` | every statement commits on its own, so a kill leaves a prefix; the next run repairs nothing | ids stay fresh, no edge dangles, an alert is backed by node and evidence, an ingest left alone succeeds, intervals only widen, risks are those of the final graph; all of it implements a ledger (module Ledger) |
| Correlator (`loghound-correlate`) | graph under construction, `live` (host and pid to process), `ip_to_host` | two passes; six event handlers | receives events of one file, gives a graph to `Graph::apply` | pid reuse, aliases of a host, logs not in time order, parents and connections before or without a launch | attribution to the instance of the moment, edges inside their nodes, closed graph; a log cut in two gives the graph of the whole |
| Detection (`loghound-detect/src/engine.rs`) | windows per rule and group, partial chains | sort, three rule shapes, deduplication | receives the same events, gives alerts | ties, closed windows, resets, predecessors that stay | alerts are exactly the bursts and pairs asked for |
| Alert graph (`alerts.rs`) | a fresh builder | one node per alert, `TRIGGERED` edges from its entities | written by a second `apply` | folds into rows the first `apply` wrote | nothing already stored is lost |
| Rule language (`dsl.rs`, `rules.rs`, `sigma.rs`, `compile_rule` of `engine.rs`) | none | check a rule file, compile Sigma to a filter, lex, parse, evaluate | gives the engine its filters | precedence, text pasted into text, missing fields, one bad rule among good ones | a file is loaded if and only if every rule can be read, and means what it says |
| Index and traversals (`index.rs`) | immutable snapshot, swapped atomically | `build`, `k_hop`, `shortest_path` | read by the API | cycles, loops, order of rows, closed windows | exactly the neighbourhood, a shortest path |
| Attack paths (`analytics.rs`) | labels, heap, penalties | `attack_paths`, `best_temporal_path` | read by the API | labels replaced while others lead on from them; one label per node; edges folded from many sightings; ties | what is returned could have been taken, the first path is cheapest |
| Analytics (`analytics.rs`) | none | PageRank, components, risk | risk is written by ingest | f32 arithmetic; alerts found against the direction of edges; a forest cut short while it grows | alerted entities score as such; components are the connected ones; PageRank is a parameter |
| HTTP API (`loghound-api`) | none of its own | read-only handlers | index without a lock, store under a mutex | snapshot and tables read apart; spellings, rounding and row limits between a node and its events | the two hold the same; an alert shows its lines and a node its evidence |
| Web client state (`frontend/src/store/useAppStore.ts`) | seeds, window, hops, direction, graph, attack paths, highlight, loading flag | 12 actions, 9 of them asynchronous (8 the user starts and `refresh`) | HTTP | answers in any order, failures | what is shown is what is asked for, what is highlighted is the path shown |
| Time scrubber (`TimeScrubber.tsx`, `useDebounce.ts`) | range, two handles and their debounced copies, timers | three effects, drags, presets | writes the window of the store, reads its graph | effects write what they depend on, 200 ms late | it comes to rest, window and handles then agree, the range never collapses |
| Process tree (`ProcessTreeView.tsx`, `layout.ts`) | depths, places and the next leaf, while it lays out | asks for a neighbourhood, places its nodes | HTTP | cycles and shared children under a recursion that marks nodes on the way | the recursion never enters a node it is in, every node has a place of its own |
| Other web client views | rendering state | layout, search box, detail panel, attack view | the store | debounced search | the evidence panel's query and the path the attack view picks are modelled; the rest only renders |
| Parsers (`loghound-parsers`) | one key and one text while XML is read | a line to a record | gives the normalizer its records | an envelope read backwards, optional columns, commas in a path, XML laid out in several ways, three clocks in three units | every field lands under its name, the time is that of the best clock |
| Normalizer (`loghound-normalize`) | none | a record to an event | gives correlator and rules their events | several fields for one path, values that do not parse | the field that should win does, and what is lost is known |
| Core types (`loghound-core`) | none | intervals, ids, node and edge types | all | - | `Validity` is modelled, ids are taken as collision-free |

`PROJECT.json` lists the components with their status and every hazard at its line.

## 2. Modules

```
           Ledger <- - (implements) - - -+
                                         |
Validity ----- Ingest -------------------+
    |             \                      |
    +- Correlation  +-- Api -------------+--- Ingest_proofs
    |     |   \    /   / \-- MCIngest (composition: Ingest, Pipeline, Risk)
    |     |    Pipeline  Risk
    |     |        \-- Detection -- Detector -- MCDetector
    |     |                             \------ Detector_proofs
    |     +- Correlator -- MCCorrelator
    |     |       \------ Correlator_proofs
    |     +- Correlation_proofs (used by Correlator_proofs and Ingest_proofs)
EventXml -- Normalizer -- Filter -- Sigma -- RuleFile -- Verdict -- MCVerdict
AppStore -- MCAppStore        Traversal -- ProcessTree -- MCTraversal
   \- Scrubber -- MCScrubber                     \------- Traversal_proofs
          \----- AppStore_proofs
                              AttackPath -- MCAttackPath
                                   \------- AttackPath_proofs
NatRecursion: Correlation_proofs, Detector_proofs, AppStore_proofs, Traversal_proofs, AttackPath_proofs
```

- **Validity** is `Validity` of `time.rs` and `GraphBuilder`: an interval is
  `[first, last, count]`, `Observe` folds one observation, `Emit` adds a bag of
  nodes and edges observed at one time. `Covers` and `Closed` are the words the
  properties of both users are stated in.
- **Ingest** is the process and the tables. One action is one SQL statement
  (`AppendEvent`, `AppendRaw`, `UpsertNode`, `UpsertEdge`, `InsertAlert`) or one
  step in memory between them (`CorrelateBatch`, `RefreshIndex`, `RunDetection`,
  `SkipDetection`, `PublishRisk`, `CheckInvariants`); `RecomputeRisk` is one action
  because the scores are written in one transaction. `Crash` may come between any
  two and keeps the tables only. `Start` and `Serve` are the two commands; DuckDB
  lets one process hold the file open for writing, so they exclude each other.
  Nodes of a batch come from a hash map, so `UpsertNode(k)` takes them in any order,
  and all of them before the first edge. What correlation, detection and scoring
  compute is a parameter, which is what makes the theorems independent of them.
- **Ledger** is what the store promises, without statements, stages and ids: spans in
  which entities and relationships were seen, alerts with the lines that raised them,
  and the files reported as done. `Finish` is possible only when all a file says is in,
  `NoteEdge` only between known entities, `Raise` only of a known one, and a reader sees
  everything. Ingest implements it (`Promised == INSTANCE Ledger WITH ...`): counts and
  risks of a row are dropped (`Spans`), event ids become the lines they stand for
  (`ShownLines`), every running stage is one client (`Client`), and the index is the
  reader's view. `AppendEvent`, `RecomputeRisk`, `PublishRisk` and the like are
  stutters, `Crash` of a running ingest is `Abort`, and `CheckInvariants` is `Finish`.
- **Correlation** holds the correlator's key functions and its six handlers as
  operators on the state `[nodes, edges, live, addr]`; a handler is the bags of
  nodes and edges it observes. `Passes` is the fold of a whole file, what there is after
  each event of it, and `BuiltBy` the nodes one of its events is observed in; `IsEvent` is
  all that is relied on of an event. **Correlator** is the machine around them: `Register`
  is pass 1 (it also chooses the batch, event by event), `Correlate` one event of
  pass 2. **LogEvents** has the sample events.
- **Detection** holds the engine's three rule shapes and `dedup_alerts` as operators
  on `[thresh, seq, fired]`; **Detector** sorts any log (`Take`) and evaluates one
  rule for one event per step (`Evaluate`). `Picked`, which keeps the elements at some
  places of a sequence, stands for `Vec::retain` and the filter of `dedup_alerts`.
- **Pipeline** folds the two over a whole file and builds the alert graph;
  **MCIngest** gives these to Ingest, so the ingest runs check the composition and
  not a made-up batch.
- **Risk** is `compute_risk` in hundredths of a point, with PageRank as a parameter;
  MCIngest scores with it, taking a node's degree for its centrality.
- **Api** is the handlers that read the tables when an analyst opens an alert
  (`AlertDetail`) or a node (`Evidence`, which is the client's choice of host and
  window put to `EventsAround`).
- **EventXml** is `extract_xml_fields`: a fold over the markup the XML reader yields
  (`Started`, `Emptied`, `Ended`), with its one key and one text.
- **Normalizer** is a line's way to an event: the OPLC envelope and the CSV decoders
  by token, the three clocks, `set_ocsf`, the conventions, the mapping and the
  enrichment, for all four kinds of record, and `Event::get`. An `EventID` is looked up in the
  mapping as text and becomes the event code as a number (`CodeIn`), if it is one. **Filter** is the rule
  language: lexemes to tokens, the recursive-descent parser, evaluation. **Sigma** is
  the compiler from Sigma to the text of a filter. **RuleFile** is a file of rules:
  what serde and `Rule::validate` ask (`FromYaml`), what a rule compiles to
  (`CompiledRule`), all or nothing (`AllCompile`). **Verdict** puts them together:
  `Write` adds a word to one filter of a file, `Load` or `Refuse` is what becomes of
  the file, `Judge` decodes, normalizes and evaluates one report, `Skip` counts one
  that cannot be decoded. Agents are not part of the program; `Wire` is what they send.
  The parser and `Eval` are recursive as in the code and so are declared RECURSIVE,
  which is why these modules hold no theorems.
- **Traversal** is the index as the API uses it: the parameters of the two handlers,
  then `k_hop` and `shortest_path`, one visited edge a step, in any order of rows;
  and the connected components, one joined edge a step (`Join`).
- **ProcessTree** is the process-tree view over Traversal: what it asks (`OpenTree`,
  six levels of which the handler serves five) and `treeLayout`, whose recursion is
  written out: `calls` is its stack, `PlaceRoot` and `PlaceKid` are the calls of `place`
  (both `Enter`) and `Return` is its return. Places are integers: a leaf takes `Slot`
  units, so a parent's place is whole.
- **AttackPath** is `attack_paths` around `best_temporal_path`: `Init` folds what was
  seen into edges (`SlotOf`) and takes those that pass the window, `Pop` and `Relax` are
  the inner loop, `PathFound` and `NoPath` the end of a round. Costs are integers in
  hundredths: a plain step is `100 - 6 * Risk`, a penalty 200.
- **AppStore** is the client's store: an action changes the view and sends requests,
  `RefreshAnswered`, `PathAnswered`, `AttackAnswered`, `NoTopRisk`, `TopRiskAnswered` and
  `Failed` are what comes back, in any order. A request remembers what it was sent with.
  `HighlightPath` and `ClearAttackPaths` answer at once.
- **Scrubber** adds the time scrubber to it. React renders after a change and runs the
  effects whose dependencies changed, all with the values of that rendering:
  `RunEffects` is these effects together, `shown` the rendering they ran for, and
  everything else waits until they have run. `DebounceElapses(n)` is one or more
  timers firing before the next rendering.

- **NatRecursion** models nothing: it has the induction and the recursion over numbers
  that the proofs need.

Operators that stand right before a mapped definition and are used by no other are
the forms a bug would give it; `PROJECT.json` "mutants" names which property each
of them breaks. Each property of each passing run has one.

### What the abstraction leaves out

Labels, properties, raw bodies and messages; the text of keys (a key is a tuple of
what it is built from, so content-hash ids are collision-free by assumption); f32
rounding; heap keys cut to thousandths, which cannot matter because every step of
a path costs at least 0.4. The interval of an edge is one pair, as in the code: a
rewound window "contains" an edge seen before and after it.

## 3. Runs

| Run | Question | Answer |
|---|---|---|
| `ingest` | Do kills between statements, repeated files, overlapping files, skipped detection and serving in between ever break the store, and does it implement the ledger? | It does, and they do not: tables closed and ids contiguous at every instant, alerts backed, completed ingests kept, risks current, served = stored, intervals only widen; an alert shows the lines that raised it, a node the events it was built from, and what raised an alert is scored so; no ingest fails |
| `ingest_reemit` | Does writing the alert graph only widen an interval? | No, see finding 1 |
| `correlate` | For every batch of up to four of twelve events in every order: closed graph, edges inside nodes, exact attribution, lateral movement in any order, the same graph from a log cut in two? | Yes |
| `detect` | For every log of up to four of nine events: are alerts exactly the bursts and pairs, and is none lost while times and rule ids differ? | Yes |
| `detect_atomic` | Is every match of an atomic rule reported? | No, finding 2 |
| `traverse` | Are the neighbourhood and the shortest path those of the reference definition, with every sort of parameter, are the components the connected ones, does the recursion of a process tree stay out of nodes it is in, and has every node there a place of its own? | Yes |
| `attack_path` | Could what the search returns have been taken, is the first path cheapest where time does not get in the way, and does the search end? | Yes |
| `attack_path_missed` | Does an empty answer mean that nobody could have gone there? | No, finding 3 |
| `rules` | For every rule of up to six words (Sigma: five), alone or in a file of several, and every report: is a file loaded if and only if it can be read, does the verdict say what rules and report say, is a whole line skipped or a time wrong, and which fields are lost? | It is, it does, no, and those that `LossesKnown` names |
| `store` | With two requests of the user in flight: does the spinner end, is it off when idle, is the highlighted path the one shown, and is the graph the one asked for when actions do not overlap? | Yes |
| `scrubber` | Pivots, drags and presets among effects, timers and answers: does the scrubber come to rest, do window and handles then agree, does the range ever collapse? | It does, they do, it does not |
| `scrubber_stale` | Does a user who waits for rest before every act see the graph asked for? | No, finding 4 |

### The properties worth a word

- `KeepsPromises` is the refinement of Ledger; `NeverFails` says that no ingest ends in an
  error, whatever killed ones left behind. That it ends at all is not a property: it is
  one straight-line program.
- `CompletedIngestKept` keeps a history of successful ingests and asks that every
  node, edge and alert each of them computed is still there, with an interval that
  covers its own, after any later ingest or kill. `RiskCurrentWhenDone` compares the
  stored risks with the score of the final tables, not of the snapshot they were
  computed from.
- `AttributionExact` compares the edges with a definition over the log alone (last
  launch of the slot before the event, else what an earlier connection made of it);
  the correlator's `live` does not occur in it.
- `SplitKeepsGraph` correlates each of the two parts of every log with an empty
  correlator, folds the graphs, and compares. Entities, relationships and times are those of the
  whole log, except that which instance of a pid is meant is forgotten between two
  ingests, that a process may seem to live longer, and that lateral movements depend on
  addresses the other part tells, and with them the hosts they come from: `correlator.rs:229`
  observes such a host at the time of a logon on another, and an event of an account, which
  observes no host itself, may be all that tells its address.
- `BurstsExact` and `ChainsExact` quantify over subsets and pairs of the log and
  know nothing of windows or partial matches. A count is compared after an event was
  added to it, so a threshold of 0, which `rules.rs:108` lets pass, acts as one of 1
  (`Needed`); one rule of the run has it. Where alerts are told apart by the id of
  their rule, the ids must differ (`DistinctIds`), as nothing in the code makes sure.
- `AnswersExact` (`KHopExact` and `PathShortest`) and the `Inv` of Traversal (each node
  is met at its own level) compare with balls defined by recursion on the radius, and
  take "inside the window" as "alive at some moment of it". `ComponentsExact` takes two
  nodes as connected when every set closed under the edges that holds one holds the
  other. `TreeSound` is two things: `EveryNodeDrawn`, that the tree layout, whose fallback loop
  exists for nodes it did not reach, reaches all, and puts no two on one spot; and
  `NeverBelowItself`, which is why it ends: children are listed when a node is entered and
  placed later, and one may have been placed meanwhile, but none is under way.
- In the `Inv` of AttackPath, `LabelsAreRoutes` says that the labels, which are
  overwritten while others lead on from them, always reconstruct to a connected
  acyclic route in time order; `PathsSound` that what is returned could have been taken:
  its steps were all *observed*, in an order of time, although an edge keeps only the
  first and the last of its observations and the search compares with the first.
- `LoadsWhatCanBeRead` and `VerdictAsWritten` compare the parser with a reading that
  does not parse: it cuts a formula at the ORs that no parenthesis encloses, then at
  the ANDs, then takes off a NOT or a pair of parentheses. For Sigma the compiled
  text goes through the real parser, so a missing pair of parentheses around a
  fragment shows. In a file, the other rules and the other step of a chain take part. What
  a path should read is said from the report (`Told`): the last
  field that goes there, a process id that is one before any that is none, so an
  envelope column read one off or a path cut at its comma shows as well.
- `OnlyBrokenSkipped` and `TimeAsTold` (in the `Inv` of Verdict) say that a line is skipped
  if and only if its envelope is missing or its XML breaks off, and that the moment is that of
  the best clock that can be read.
- `LossesKnown` says which fields of a report cannot be read in its event, and that no others
  are lost: one is `Overtaken` if every column it goes to is told by another field or by the
  event code (`Told` decides, as for the verdicts), and `Unparsed` if it should be a number, is
  none, and has no second place: the `EventID`, and the pids of process and network
  records. A pid of an event record has one. The comments of the code claim more, that
  there is no such field; see the first of the other disagreements below.
- `AlertShowsItsLines` follows an alert from positions in a file through event ids to
  the rows an analyst reads, across the rows of killed and later ingests; `EvidenceFound`
  goes from an event to the nodes it was observed in (`BuiltBy`, the correlator being where it
  was at that event), their intervals as other files widened them, the
  client's rounding, the spelling of the host and the row limit, back to the event.
- `AlertedRank` says that the alert graph is in the snapshot that is scored, found from
  its entities' side, on top of centrality.
- `HighlightIsShown` (in the `Inv` of AppStore): the attack view derives the path it shows
  from the highlighted edges, by the first of the list that they cover; whatever searches,
  picks and failures overlap, it is the highlighted one.
- `ScrubberInv` (its `HandlesTellWindow`) and `Settles` are about effects that write what they depend on,
  through a debounce and refreshes that bring in new nodes.
- `CoherentWhenSequential` marks states reached without overlapping requests by a
  history variable and asks for the graph of the view in those.

### Bounds, and why they are enough

- `MaxIngests = 3`, `MaxCrashes = 2`: a killed ingest, a second killed one that meets
  its remains, and a third that must cope with both; two files, one of which raises
  an alert and shares a user and a host with the other, so all overlaps occur.
  41 thousand states.
- `MaxEvents = 4` in `correlate` (156 thousand states) and `detect` (194 thousand):
  launch, relaunch, and two events to be
  attributed; a burst of three and one more, or two chain starts and two ends. Times
  include ties, both ends of the window of 2, and logs out of order.
- `attack_path`: every set of eleven observations with cycles, crossings, edges seen
  twice, parallel edges and an edge back to the source; two windows, `K = 3`; a tie is
  broken both ways. 93 thousand states.
- `traverse`: every subset of seven edges on five nodes; seeds and targets known and
  unknown, absent and excessive hops, unknown types and directions, windows open on
  one side and of a single moment. `MostHops = 3` stands for the code's 5 and is
  shorter than the longest route. A turned window (`from > to`) is not stated: the
  code then returns edges that span it. 190 thousand states.
- `rules`: `MaxWords` is 6 in the filter language (`NOT ( a OR b )` and any three atoms
  with two connectives and a NOT), 5 in Sigma, which has the parentheses the
  compiler writes on top, and 3 in each of eleven places of files with more rules than
  one, rules that lack a key, chains with a class on each step, and kinds that do not
  exist. Atoms: two comparisons of different operators and a botched
  one; selections with one and two predicates, lists, none, a bad pattern, an
  unsupported modifier, a quote, times, event codes. Fourteen reports: each logset, with and without a
  version and an envelope, clocks that can be read and not, XML plain, pretty-printed
  with comments, cut off and forwarded with a rendering,
  pids that are hexadecimal, decimal and neither, a path with a comma, five event ids
  with some entries of their real mapping, one without a mapping, one with a leading zero, whose
  text has no mapping and whose number has an enrichment, and one that is no decimal number. 1.4 million states, about two minutes.
- `MaxRequests = 2` in `store` bounds what the user starts; follow-up requests of an
  overview are not counted. Two nodes, one window, up to two attack paths between two
  ends, and none. 169 thousand states.
- `EventLimit = 3` is reached when the file with two events of the host is ingested
  twice; `MinWindow` and `Margin` are 0, so that it is the interval and its rounding
  that find an event and not the minutes added to them.
- `MaxActs = 3` in the scrubber runs: a pivot that sets the range, one that extends it
  or a drag, and a preset that undoes it. `Stops` has a point beyond the range of the
  first entity, its ends and its middle; `Tolerance` is less than their distances,
  `Pad` is 1. `MaxRequests = 20` is not reached there. 37 thousand states.

### Fairness

- Ingest states none: what it promises is safety, and a kill may end any ingest.
- `SearchEnds` in `AttackPath` and `Traversal`: weak fairness of the search, which is
  a loop in one handler; no client is assumed to ask.
- `SpinnerEnds`: weak fairness of `Settle`: every `fetch` resolves or rejects. No
  user action is fair. The user stops asking at the bound; one who starts requests
  for ever can keep the spinner on for ever, which is not a fault.
- `Settles`: weak fairness of `Run`: effects run after a rendering, timers fire, and
  every `fetch` resolves or rejects. The user's acts are not fair.

`CHECK_DEADLOCK FALSE` stands where the system stops by design: the batch or search
is done. `ingest` and `store` are checked for deadlock.

### Findings

1. `store.rs:113` replaces `event_count` on conflict, so the alert graph lowers the
   count of an entity the correlator wrote; `alerts.rs:23-25` says it only widens
   the interval, `time.rs:86-87` that counts add.
2. `engine.rs:448` names an alert by rule, group and millisecond and `dedup_alerts`
   keeps the first; `engine.rs:6-7` says an atomic rule fires on every match.
3. `analytics.rs:324` compares with the first sighting of an edge, although a later one
   would do, and `analytics.rs:330` keeps the cheapest label of a node whatever its
   arrival, so a late one hides the only one that can go on;
   `loghound-api/src/lib.rs:465` then answers that there is no time-respecting path.
4. One click on "All time" clears the window; the effect that commits the debounced
   handles, which are still the old ones, sets the old window again and clears it
   200 ms later (`TimeScrubber.tsx:68-78, 101-104`). `useAppStore.ts:239` shows an
   answer without asking whether it is still the one wanted, so the old window's graph
   can stay; `useAppStore.ts:3-5` says the graph is always that of the seeds and the
   window.

Other disagreements were met while modelling and have no run:
- `normalizer.rs:8` says that what is not mapped is never dropped, `event.rs:5-6` that
  telemetry never silently is. A pid that does not parse is in no column, no field and not in
  `extra` of a process or network record (`normalizer.rs:272, 287, 259`), where an event record
  keeps it (`normalizer.rs:79-92`); nor is an `EventID` that is no number, which `normalizer.rs:131`
  consumes as "represented by event_code" although `normalizer.rs:128` left that empty. And a field
  is lost that another overwrites in its only column: `AuthenticationPackageName` of 4624, by
  the logon type (`normalizer.rs:159`), `ProcessId` of 4688, by `NewProcessId`
  (`normalizer.rs:35`). The raw line keeps them, but no rule reads that. `LossesKnown` holds exactly
  because it names these, and the reports of the run have one of each.
- `analytics.rs:277` takes a repeated offer for exhaustion (`analytics.rs:275-276`); it
  follows from the one label per node of finding 3.
- `analytics.rs:311` negates a key that is not negated, so the branch marked stale is
  never taken; only work is wasted, and `SearchEnds` covers the search as it is.
- `normalizer.rs:134` applies the conventions and then the mapping, and nothing takes a
  value back: a field that `mappings.yaml:95` sends elsewhere (`IpAddress` of event
  4648, the target) stays in the column of the convention (the source), although
  `normalizer.rs:141` says that the mapping overrides.
- "1st half" chosen from "2nd half" moves both handles; if React renders between the
  two timers, the debounced copies span everything for a moment, the window is cleared
  and the handles go back: the choice is lost. `HandlesTellWindow` holds there.
- `main.rs:360-376` says OK to any file that serde and `Rule::validate` accept, "proving the
  backwards-compat contract"; filters are not parsed there, and `ingest` then skips all
  detection over one that does not parse (`main.rs:238`). In RuleFile: `FromYaml` holds and
  `AllCompile` does not.
- `oplc.rs:189-192` says that any Windows event is captured generically; `UserData`
  sections, `Data` without a name and CDATA are not read.
- `layout.ts:73` says that the first visit wins; a node is marked when it is placed and
  its parents list it before (`layout.ts:82`), so one with several parents may be placed
  twice, and its last place counts.
  `EveryNodeDrawn` holds nevertheless.
- A failed `runAttackPaths` empties the list of paths and keeps the highlight of an
  earlier one in the graph (`useAppStore.ts:204`), although `useAppStore.ts:45` calls it the selected
  path. `HighlightIsShown` speaks of lists that are not empty.
- Rule ids are not checked for duplicates (`rules.rs:159`), and alerts of two rules of one
  id collapse like those of finding 2; `DistinctTimesKeepAll` says so.
- The address in an event of an account names its host (`correlator.rs:48-56` registers every
  event), but `account` observes no host (`correlator.rs:267-276`); the host is a node only once a
  logon comes from there.
- `identity.rs:8` trims the name of a host, `store.rs:354` compares it as it was written: the events
  of a host that a log spells with blanks are not found from its node. `Spelled` says so.
- `store.rs:383` compares the host of a timeline exactly, `store.rs:354` that of an
  event list without case; the client asks for timelines without a host only.

## 4. Theorems

| Module | Theorem | States |
|---|---|---|
| `Ingest_proofs` | `TypeCorrect` | `Spec => []TypeOK` |
| | `NoDangling` | `Spec => []NoDanglingEdges` |
| | `IdsContiguous` | `Spec => []EventIdsContiguous` |
| | `NeverFailing` | `Spec => []NeverFails` |
| | `Widening` | `Spec => IntervalsOnlyWiden` |
| | `AlertsAlwaysBacked` | `Spec => []AlertsBacked` |
| | `CompletedAlwaysKept` | `Spec => []CompletedIngestKept` |
| | `RiskCurrent` | `Spec => []RiskCurrentWhenDone` |
| | `Served` | `Spec => []ServedIsStored` |
| | `Refinement` | `Spec => KeepsPromises`, which is `Promised!Spec` |
| | `AlertsShown` | `Spec => []AlertShowsItsLines` |
| | `AlertsAlwaysRanked` | `ScoredByRisk` implies `Spec => []AlertedRank` |
| | `CorrelatedGraph` | the correlator's graph of any file is well-formed and closed |
| | `EvidenceAlwaysFound` | `Spelled` implies `Spec => []EvidenceFound` |
| `Correlator_proofs` | `TypeCorrect` | `Spec => []TypeOK` |
| | `EndpointsAlwaysKnown` | `Spec => []EndpointsKnown` |
| | `EdgesAlwaysWithinNodes` | `Spec => []EdgesWithinNodes` |
| | `AttributionAlwaysExact` | `Spec => []AttributionExact` |
| | `LateralMovementAlwaysFound` | `Spec => []LateralMovementFound` |
| | `FoldInvariance` | `Spec => []FoldInv`: after n events the machine is where the fold `Passes` is |
| | `SplitAlwaysKeepsGraph` | `Spec => []SplitKeepsGraph` |
| `Detector_proofs` | `TypeCorrect` | `Spec => []TypeOK` |
| | `BurstsAlwaysExact` | `Spec => []BurstsExact` |
| | `ChainsAlwaysExact` | `Spec => []ChainsExact` |
| | `SoundAndComplete` | `Spec => []Inv` |
| `AppStore_proofs` | `AlwaysSound` | `Spec => []Inv` |
| | `AlwaysCoherent` | `Spec => []CoherentWhenSequential` |
| | `HandlesAlwaysTell` | `AnswersTimed` implies `ScrubberSpec => []ScrubberInv` |
| | `RangeAlwaysWidens` | `AnswersTimed` implies `ScrubberSpec => RangeNeverNarrows` |
| `AttackPath_proofs` | `LabelsAlwaysFit` | `Spec => [](TypeOK /\ LabelsFit)` |
| | `RoutesAlwaysSound` | what the labels spell is always in time order and acyclic |
| | `RoutesAndPathsSound` | `Spec => []Inv` |
| | `FirstIsAlwaysCheapest` | `Spec => []CheapestFirst` |
| | `CheapestWhenTimely` | when a search is over and time is not in the way, no route is cheaper |
| `Traversal_proofs` | `SearchesLevelByLevel` | `Spec => []Inv` |
| | `AnswersAlwaysExact` | `Spec => []AnswersExact` |
| | `ComponentsAlwaysExact` | `Spec => []ComponentsExact` |
| | `TreeAlwaysSound` | `TreeSpec => []TreeSound` |
| | `PathFoundIfAny` | a path query finds its target exactly if it is in every set closed under neighbourhoods that holds the seed |
| | `NeighboursReachable` | a neighbourhood lies in every such set, and is one if it ends before its levels are used up |

**Ingest.** For any lines, files, numbers of ingests and kills, and any functions
`Correlate`, `Detect`, `AlertGraph` and `Score`, from `FilesAssumption` (files are
sequences of lines), `GraphAssumption` (both graphs are well-formed and closed),
`DetectAssumption` and `BoundsAssumption`. That the correlator's graph
is closed and well-formed, as `GraphAssumption` asks of it, is `CorrelatedGraph`: for files of
events (`LinesAssumption`) the half of the assumption that is about `Correlate` follows from
`CorrelatedFit` of Correlation_proofs. No invariant of interest is
inductive alone. `IInv` adds:
- `FileKnown`: a running process holds one of the files, so the assumptions about
  `Correlate` and `AlertGraph` apply to it;
- `IdsUsed`: the used ids are `1..n` for some `n`, and while an ingest runs, `n` is
  `base + pos - 1`, so the next id is free;
- `NodesApplied`: a node of the graph being applied is in the table or still to do,
  so when edges start (nothing of the nodes to do) both ends of each are stored;
- `IndexFresh`: at the parity check the index is the snapshot of the tables; with no
  dangling edge the snapshot drops nothing, so the counts agree and the check cannot
  fail.

One lemma per action shows that it preserves `IInv`; `Widening` uses it only for the
types of the rows, and that `LEAST` and `GREATEST` give a cover of the old row.

Three more invariants are inductive relative to `IInv`:
`RiskInv` (the index published before scoring has the keys of the tables, so every
node gets a score and it is the score of the whole graph), `AlertInv` (the whole file
is in the table before anything is applied, and the alert graph before the first
record) and `KeepInv` (a node or edge of the batch that is off the list is stored with
a covering interval; a graph that is held stays held, by `Widening` and transitivity;
an alert is in the table or in the list). With them every safety property
of Ingest itself that run `ingest` checks is a theorem.

`Refinement` adds `LinesRead` (the rows a running ingest has appended hold the
lines of its file, at the ids it gave them). `Unseen` collects the steps the ledger does
not see; each of the others gets a lemma that names the step of Ledger it is. `Finish`
is where the other invariants are needed: `KeepInv` says that all of
the batch is stored when nothing is left to do.

`AlertsAlwaysRanked` is about scores, so it says which: `ScoredByRisk` asks that `Score` is
`ComputeRisk` and that `Centrality` gives each node an integer, whatever it is. That `Triggered`
edges point at alerts is `TriggeredAssumption` of Api (TLC evaluates it for the real graphs),
and `Triggering` carries it into the table. What is left is a fact about the search in
`compute_risk`: the ends of such an edge are its first two levels (`IsHops`), so they get at
least the bonus of their level, and the other terms take nothing away.

`EvidenceAlwaysFound` joins three components, from `CompositionAssumption` (the store is given the
graph the correlator builds, which TLC evaluates for the files of the run) and
`WindowAssumption`. A node that event n of a file is observed in is in the graph of the file, with
that time in its life (`BuiltIsCovered`, along the fold); what is stored covers that (`KeepInv`),
whatever other files added to it; the client's window, half that life and a margin around its
rounded middle, holds the life (`LifeInWindow`). However the label the client asks by
is spelled, the events of the host answer to it (`LabelFinds`), and what the limit cuts off is not
earlier than what it leaves (`AnswerHolds`). `Spelled` is a premise: a host's key is trimmed
(`identity.rs:8`) and the lower-casing of the SELECT is not, so a name with blanks around it is
not found (section 3).

**Correlator.** For any set of events of which `IsEvent` holds (an integer time, privileges that
are there, and of a file one of the three types of `correlator.rs:255-259`), in any order. What
concerns the handlers and the fold is in Correlation_proofs. Lemmas on `Emit` (what it keeps, adds and covers) are stated
once; each of the six handlers is a call of `Emit`, so the proof that a handler
preserves `IInv` shows that its edges' endpoints are among the nodes it observes or
in `live`. `IInv` is the state of the two passes and `Fit`: intervals are proper, the
graph is closed, edges lie within their nodes, and every value of `live` is a node,
which is what a handler needs that draws an edge from a process it looks up.

`EInv` adds what the correlator knows of the log. `Tracks`: after n events a (host, pid)
is in `live` exactly if it was launched or seen on the network, and it stands for its last
launch, or for the loose instance if there was none; that the last launch is found again
after an event that is none, and is that event otherwise, is `LaunchStep`. `Attributed`
and `MovesFound` are the two properties for the events consumed so far, `AddrKnown` says
of the first pass that an address is held exactly if some host claims it, and by one that
does. Each handler gets a lemma on which of these edges it adds and what it binds; all
others are `Quiet`.

`FoldInvariance` says that machine and fold agree, so that the theorems about the one hold of the other.
`SplitAlwaysKeepsGraph` needs no bound on the log. `CorrelatedEmits` gives each event the nodes and edges
it is observed in, as sets (`SeesAt`), and `CorrelatedRecords` says that the graph of a log has
exactly these, each from its first time to its last. So the property is about times: of
an entity (`NodeAt`), or of a relationship (`EdgeAt`), with the instance of a pid left out. One event sees `Alike`
things in two logs, whatever went before, apart from moves; only an event of the network on a pid that
is not known yet also sees a process and its start, and then it is known (`BindsSeen`), which makes
what the whole log shows of a process a part of what the parts show. `TimesKept` carries this
through the cut, and `CutKept` from times to intervals.

**Detector.** For any rules, any interpretation of filters and fields, and any log in any
order, from `RulesAssumption` (what `compile_rule` produces: a chain has two steps) and
`TimeAssumption` (integer times). `Progress` says that events are taken in time order and
what each rule has seen (`Seen`: the rule being evaluated lags by one event). Relative to
that, `EngineInv` says of every moment, not only of the end, what the properties say of
the end. `Windows`: a window holds events that count, in time order, and too few to fire.
`Counted`: an event that counts is evidence of an alert, or still in its group's window, or
too old for something already seen (`Passed`), and every burst seen so far met an alert. A
burst that the next event completes cannot be too old for it, so if none of it was evidence
all of it is in one window, which then fires. `Once`: windows and evidence are disjoint.
`Chained`: a first step is among the partial matches or too old, and every pair seen has
fired. `FreshFacts` is the pruning of a window that is in order, `PickedFacts` what `Picked`
keeps; the latter needs an induction over places (`AllNat`), and that the recursive function
exists (`PicksExist`). For `Inv`: the first alert of an id is kept, and with distinct times
two alerts of one rule and time share their last event, so `Once` makes them the same.

**AppStore.** For any nodes, windows, directions and answers of the server and any
number of requests, from `AttackAssumption` (of the paths of one answer none lies within
another, which is what `PathsSound` of AttackPath gives: same ends, no cycle, no two
equal). `Sound` adds to `Inv` that the list of paths, if it is not empty, is an answer of
the search: the highlight is one of its paths, and by the assumption the first path it
covers. `AlwaysCoherent` needs `Sequential`: while nothing has overlapped there is at most
one request in flight; it was sent with the seeds and the view as they still are; and
without one the graph, unless an answer added to it or a refresh failed, is that of the
view.

**AttackPath.** For any finite set of nodes, any observations, windows and risks up to the maximum, any
`K`, and any order of ties. The argument is the one for Dijkstra's algorithm with the time
test in every step. `IInv` adds to `TypeOK` and `LabelsFit`: no heap entry is below a
settled label (`HeapAbove`); the node being expanded is settled, and the dearest that is
unless it was expanded before (`Expanding`), because the code's stale test never holds
(`analytics.rs:311`) and nodes are expanded again; the slots of a settled node, apart from
those still to be relaxed, have nothing to offer (`Expanded`). So a settled label never
changes: every step costs at least 40, so that an offer is dearer than what was popped.
`RoutesAlwaysSound` follows for every sequence that the labels spell, since costs rise
along it (`Dearer`). `CheapestWhenTimely` goes along any other route: each of its nodes,
or the target, can be had for no more than the route costs so far (`OneStepOn`).

`RoutesAndPathsSound` and `FirstIsAlwaysCheapest` say the same of what the code returns.
`Route` walks the labels back for as many steps as there are nodes; that this function exists is
`UpToExists`, and that the walk has then arrived is a pigeonhole argument: what it spells has
no node twice (`TrailShort`). `Traced` says that each slot of the graph stands for an
observation at its `at` and inside the window, which makes a route in time order
`Takeable`. `Returned` adds that each path returned was such a route when it was found, and that
no two are the same, because an offer seen before ends the search. For the first one, the label of the
target is the cost of its route, penalties included, and there are none before the first
path (`CInv`); that every path of the reference definition is a sequence of slots no longer
than the number of nodes, and is found by its recursion, makes "no route is cheaper" into
"no path of `AllPaths` is".

**Traversal.** For any finite set of nodes, any edges, parameters and order of rows, from
`NodeAssumption`, `EdgeAssumption` (intervals are proper), `TimeAssumption` and `MissingAssumption`
(what stands for a parameter not given is neither a node nor a direction). The properties
are stated for windows that are not turned. `IInv` says that what is
visited lies in every set that holds the seed and the neighbourhoods of its nodes
(`Within`), and that a visited node is in a queue, or has
only visited neighbours, or is the one being expanded and the others are still to come
(`Queued`); so with empty queues the visited set is itself such a set.

`SearchInv` compares with the balls. That the recursive function `Ball` exists, grows and
stops growing within as many steps as there are nodes comes first (`IsBalls`). `Levels`, of `k_hop`: what is visited
is the ball of the levels done and the next queue, which holds only nodes of the next level;
an edge is listed when an end in the ball has been expanded, or is about to be. `Walks`, of
`shortest_path`: the queue is a rest of one level and then what has been met of the next
(`Front`), so who met a node first is exactly one level nearer to the seed (`ParentOf`).
`RouteTo` follows the parents; it takes as many steps as the target is far, over edges of
the rewound graph, and a shorter route cannot be, as the target is in no smaller ball.
`Groups`, of the components: there is a rank that falls on the way up (`Ranked`), so `parent` is a
forest although it is cut short while it is climbed, and `Root` exists and is a root
(again a pigeonhole argument); a set that no edge leaves or enters holds a node exactly if it
holds its root, and the ends of a joined edge have one root (`Grouped`). Once all are joined a group is such a set.

The process tree, under `TreeSpec`, needs both. `Gathered` of the search: an answer in
direction `out` can be walked from its seed along its own edges. `DrawInv` of the layout:
`Nested`, a call is as deep as the calls below it and lists no node that one of them is for, as
those are marked; `Listed`, the child of a marked node is marked or on the list of a call, so with
no call left the marked nodes are closed under the edges and by `Gathered` are all; `NotAbove`,
a node of depth `d` is in the ball of `d`. `Spaced`, of the places: a node that is placed has a
range of leaves of its own (`Spans`), those taken since its call began, and its place is
within it. Calls of one depth follow each other, so ranges of one depth are disjoint,
which the places alone would not show by induction; a node that is placed again gets new
leaves and a new range.

**Scrubber.** For any nodes, times, presets, paddings and tolerances, from the assumptions
of the module and the premise `AnswersTimed`: an answer is a finite set of nodes, each of
which was seen between two integer times. `ScrInv` holds in every state, while effects are due as
well. `Shape`: a range, once there is one, is proper, and so are handles and copies or they are not set.
`Before`: handles that are not set wait for the effect that sets them. `Lagging`: a
handle that its copy lags behind has a timer, or has moved since the last rendering and
will get one; so at rest they agree. `Fixed`: unless the effect that commits is due, committing
again would change nothing; this is what the window of the store is compared with at rest.
`Sourced`: what is loaded and what can still arrive has times. `ScrubberSteps` has a lemma for the acts of the
user, the effects, the timers and the answers; the effects run together on one
rendering, and `Fixed` survives them since the commit reads the same copies and
range it is compared with, or they have changed and the effect is due again.

Only model-checked:
- liveness (`SearchEnds`, `SpinnerEnds`, `Settles`), as fairness is out of the
  prover's reach;
- the rule language (`Inv`, `LossesKnown`, `LoadsWhatCanBeRead` and `VerdictAsWritten` of Verdict), whose
  parser is RECURSIVE, as the code is.

What the theorems take from the recursive definitions of Traversal, ProcessTree, AttackPath, Risk,
Correlation and Detection (balls, powers, routes, levels, folds, picks) they get from NatRecursion: `AllNat` is induction for
a *set* of numbers, from its least element, and `UpToExists` and `RecursionExists` give the function that
a recursion defines. The library states both with operators as parameters, which the provers
here cannot instantiate.

## 5. Not modelled, and why

Of the parsers, XML below the level of markup, the quoting of CSV and the calendar; of
rule files, the syntax of YAML. A quote in a Sigma value, which `sigma.rs:180` leaves out
of the compiled text, is modelled (`Esc`) and `VerdictAsWritten` sets such rules aside:
the filter language has no way to write the value. Timestamps have no width, so the
unchecked sums of `events_context` (`loghound-api/src/lib.rs:323`) cannot overflow here.
PageRank is a floating-point power iteration over a snapshot, and a parameter of Risk.
Search, lists, counts and the timeline are single SELECTs under a lock. The `provenance`
tables are never written by the pipeline. `parse` prints and keeps nothing; `check-config`
is `FromYaml`. Views other than the scrubber, the process tree, the attack view's choice
of a path and the evidence panel only render; the filters, the selected node and the
active view are state of the client that no handler reads.

## 6. Plan

Done, in this order: Validity and Ingest with proofs; Correlation and Correlator with
proofs; Detection and Detector; Pipeline and the composition; AttackPath; AppStore;
Traversal; Normalizer, Filter, Sigma and Verdict; Scrubber; Risk and Api; Ledger and its
refinement with proof; AttackPath over observations and its proofs; Traversal's proofs; ProcessTree; EventXml
and the clocks; RuleFile; highlights and attack lists of AppStore with proofs; Detector's proofs.

Then, as proofs: detection and attribution; the levels, routes and components of Traversal; what
AttackPath returns; the scrubber; the ranks of alerts; the correlator as a fold, logs cut in two,
the evidence of a node, and the process tree.

Next:
1. `DetectedLog` and `AlertGraphOf` as functions of the position, as `CorrelatedLog` is, so that
   `Detector_proofs` speaks of Pipeline and the rest of `GraphAssumption`, `DetectAssumption` and
   `TriggeredAssumption` become theorems.
2. The search box of the client, debounced and unordered like the scrubber, as a module
   over AppStore.
