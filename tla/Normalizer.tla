----------------------------- MODULE Normalizer -----------------------------
(***************************************************************************)
(* From a line of the log to an event: the OPLC decoder                    *)
(* (crates/loghound-parsers/src/oplc.rs) and the normalizer                *)
(* (crates/loghound-normalize/src/normalizer.rs).                          *)
(*                                                                         *)
(* A line is [header, tokens, xml]: header is <<tenant, time>>, empty if    *)
(* the OPLC tag or the separator is not there; tokens are the comma-       *)
(* separated tokens up to the logset letter, or to the end; xml is the     *)
(* markup, empty for the logsets without XML.  A record is [kind, time,    *)
(* host, fields], an event [typed, fields, extra]: partial functions from  *)
(* paths to values, of which the first stands for the typed columns.       *)
(***************************************************************************)
EXTENDS EventXml

CONSTANTS
    Mapping,            \* mappings.yaml: event id -> [class, map: its <<field, path>> in order]
    IsPid(_), PidOf(_), \* parse_pid: hexadecimal or decimal, in canonical form
    CodeIn(_),          \* str::parse::<i32>, in canonical form; or Missing
    TimeIn(_, _)        \* a time written in "s", "ms" or "iso", in milliseconds; or Missing

PutSome(f, k, v) == IF v = "" \/ v = Missing THEN f ELSE Put(f, k, v)    \* RawRecord::put

-----------------------------------------------------------------------------
(***************************************************************************)
(* Decoder.  The envelope is read backwards from the logset letter, so     *)
(* that what some agents write before it is in nobody's way.               *)
(***************************************************************************)
At(tokens, i) == IF i \in DOMAIN tokens THEN tokens[i] ELSE Missing

\* Parsed, the time is Missing also where nothing was written.
TimeAt(unit, v) == IF v = Missing THEN Missing ELSE TimeIn(unit, v)
FirstTimeLast(times) ==
    LET k == SelectLastInSeq(times, LAMBDA t : t # Missing) IN IF k = 0 THEN "0" ELSE times[k]
FirstTime(times) ==
    LET k == SelectInSeq(times, LAMBDA t : t # Missing) IN IF k = 0 THEN "0" ELSE times[k]

\* What apply_meta writes: the fields whose names start with "env.".
EnvKeys == {"env.tenant", "env.collector_ts_ms", "env.generated_ts_s", "env.hostname",
            "env.source_ip", "env.agent_version"}

WithMeta(rec, header, tokens, logset) ==
    LET back(n)  == At(tokens, logset - n)
        meta     == << <<"env.tenant", header[1]>>,
                       <<"env.collector_ts_ms", TimeAt("ms", header[2])>>,
                       <<"env.generated_ts_s", back(3)>>, <<"env.hostname", back(2)>>,
                       <<"env.source_ip", back(1)>>, <<"env.agent_version", back(4)>> >>
    IN [rec EXCEPT
          !.fields = FoldLeft(LAMBDA f, m : PutSome(f, m[1], m[2]), @, meta),
          !.host   = IF @ = Missing THEN back(2) ELSE @,
          !.time   = FirstTime(<<@, TimeAt("s", back(3)), TimeAt("ms", header[2])>>)]

Labelled(names, values) ==
    FoldLeft(LAMBDA f, k : PutSome(f, names[k], At(values, k)), NoFields,
             [k \in DOMAIN names |-> k])

LogTypes == {"NETWORK", "NEW_PROCESS", "FILE_INTEGRITY"}
NetworkNames == <<"protocol", "src_ip", "src_port", "dst_ip", "dst_port", "pid", "process">>
ProcessNames == <<"pid", "process", "full_path", "parent_folder", "user",
                  "parent_pid", "parent_process">>
IntegrityNames == <<"reserved", "action", "file_path", "hash">>

\* A path may hold commas: what is between the action and the last token.
PathJoined(rest) ==
    LET path == FoldLeft(LAMBDA s, t : s \o "," \o t, rest[3], SubSeq(rest, 4, Len(rest) - 1))
    IN <<rest[1], rest[2], path, rest[Len(rest)]>>

LogTypeAt(tokens) == SelectInSeq(tokens, LAMBDA t : t \in LogTypes)

Decodable(line) ==
    LET at   == LogTypeAt(line.tokens)
        rest == Len(line.tokens) - at
    IN /\ line.header # << >>
       /\ line.header[1] # ""
       /\ IF line.xml # << >> THEN XmlReadable(line.xml)
          ELSE /\ at > 1
               /\ line.tokens[at] = "NETWORK" => rest >= 7
               /\ line.tokens[at] = "FILE_INTEGRITY" => rest >= 4

DecodedEvent(line) ==
    LET read == XmlFields(line.xml)
        of(k) == IF k \in DOMAIN read THEN read[k] ELSE Missing
    IN WithMeta([kind   |-> "event",
                 time   |-> TimeAt("iso", of("TimeCreated_SystemTime")),
                 host   |-> of("Computer"),
                 fields |-> [k \in {j \in DOMAIN read : read[j] # ""} |-> read[k]]],
                line.header, line.tokens, Len(line.tokens))

DecodedCsv(line) ==
    LET at   == LogTypeAt(line.tokens)
        rest == SubSeq(line.tokens, at + 1, Len(line.tokens))
        rec(kind, fields) == [kind |-> kind, time |-> Missing, host |-> Missing, fields |-> fields]
    IN WithMeta(CASE line.tokens[at] = "NETWORK"     -> rec("network", Labelled(NetworkNames, rest))
                  [] line.tokens[at] = "NEW_PROCESS" -> rec("process", Labelled(ProcessNames, rest))
                  [] line.tokens[at] = "FILE_INTEGRITY" ->
                       rec("integrity", Labelled(IntegrityNames, PathJoined(rest))),
                line.header, line.tokens, at - 1)

Decoded(line) == IF line.xml # << >> THEN DecodedEvent(line) ELSE DecodedCsv(line)

-----------------------------------------------------------------------------
(***************************************************************************)
(* Normalizer.                                                             *)
(***************************************************************************)
GenericFields == <<
    <<"Computer", "host.hostname">>, <<"TargetUserName", "user.name">>,
    <<"TargetDomainName", "user.domain">>, <<"TargetUserSid", "user.uid">>,
    <<"SubjectUserName", "actor.user.name">>, <<"SubjectDomainName", "actor.user.domain">>,
    <<"SubjectUserSid", "actor.user.uid">>, <<"SubjectLogonId", "session.uid">>,
    <<"IpAddress", "src_endpoint.ip">>, <<"IpPort", "src_endpoint.port">>,
    <<"WorkstationName", "src_endpoint.hostname">>, <<"ProcessName", "process.name">>,
    <<"ProcessId", "process.pid">>, <<"NewProcessName", "process.name">>,
    <<"NewProcessId", "process.pid">>, <<"CommandLine", "process.cmd_line">>,
    <<"ParentProcessName", "parent_process.name">>, <<"CreatorProcessId", "parent_process.pid">> >>

PidPaths   == {"process.pid", "parent_process.pid"}
TypedPaths == {"user.name", "actor.user.name", "src_endpoint.ip", "dst_endpoint.ip", "process.name"}

\* set_ocsf: to the typed column if there is one and it can take the value.
SetOcsfStrict(ev, path, v) ==
    CASE path \in PidPaths /\ ~IsPid(v) -> ev
      [] path \in TypedPaths \cup PidPaths /\ (path \in PidPaths => IsPid(v)) ->
           [ev EXCEPT !.typed = Put(@, path, v)]
      [] OTHER -> [ev EXCEPT !.fields = Put(@, path, v)]
SetOcsf(ev, path, v) ==
    IF \/ path \in TypedPaths
       \/ path \in PidPaths /\ IsPid(v)
       \/ path = "host.hostname" /\ path \notin DOMAIN ev.typed
    THEN [ev EXCEPT !.typed = Put(@, path, IF path \in PidPaths THEN PidOf(v) ELSE v)]
    ELSE [ev EXCEPT !.fields = Put(@, path, v)]

BaseEvent(class, rec) ==
    [typed |-> (IF rec.host = Missing THEN NoFields ELSE "host.hostname" :> rec.host)
                  @@ [class_uid |-> class, time |-> rec.time],
     fields |-> NoFields, extra |-> NoFields]

AuthProtocol == [lt \in {"2", "3", "4", "5", "7", "8", "9", "10", "11"} |->
    CASE lt = "2" -> "Interactive"      [] lt = "3" -> "Network"
      [] lt = "4" -> "Batch"            [] lt = "5" -> "Service"
      [] lt = "7" -> "Unlock"           [] lt = "8" -> "NetworkCleartext"
      [] lt = "9" -> "NewCredentials"   [] lt = "10" -> "RemoteInteractive"
      [] lt = "11" -> "CachedInteractive"]

\* enrich_by_event_code: <<typed columns, fields>> an event code stands for.
CodeMeans(code) ==
    CASE code = "4624" -> <<[activity_id |-> "1", status_id |-> "1"],
                            [activity_name |-> "Logon", status |-> "Success"]>>
      [] code = "4625" -> <<[activity_id |-> "1", status_id |-> "2", severity_id |-> "2"],
                            [activity_name |-> "Logon", status |-> "Failure", severity |-> "Low"]>>
      [] code = "4768" -> <<[activity_id |-> "3", status_id |-> "1"],
                            [activity_name |-> "Authentication Ticket", status |-> "Success"]>>
      [] code = "4720" -> <<[activity_id |-> "1"], [activity_name |-> "Create"]>>
      [] code = "4732" -> <<[activity_id |-> "2"], [activity_name |-> "Add to Group"]>>
      [] OTHER         -> <<NoFields, NoFields>>

FieldOf(rec, k) == IF k \in DOMAIN rec.fields THEN rec.fields[k] ELSE Missing
EventIdOf(rec)  == FieldOf(rec, "EventID")

\* The mapping is looked up by the text of the id, the code is the number in it.
MappingOf(rec)  == IF EventIdOf(rec) \in DOMAIN Mapping THEN Mapping[EventIdOf(rec)]
                   ELSE [class |-> "0", map |-> << >>]
CodeOf(rec)     == IF EventIdOf(rec) = Missing THEN Missing ELSE CodeIn(EventIdOf(rec))

\* Pairs <<field, path>> in the order they are applied: conventions, then the mapping.
Applied(rec) == SelectSeq(GenericFields \o MappingOf(rec).map,
                          LAMBDA p : p[1] \in DOMAIN rec.fields)

Enriched(ev, rec) ==
    LET lt    == FieldOf(rec, "LogonType")
        means == CodeMeans(CodeOf(rec))
        share == MappingOf(rec).class = "4001" /\ FieldOf(rec, "ShareName") # Missing
        auth  == IF lt \in DOMAIN AuthProtocol THEN "auth_protocol" :> AuthProtocol[lt] ELSE NoFields
    IN [ev EXCEPT
          !.typed  = (IF share THEN "activity_id" :> "6" ELSE NoFields) @@ means[1] @@ @,
          !.fields = (IF share THEN [activity_name |-> "Share Access",
                                     share_name |-> FieldOf(rec, "ShareName")] ELSE NoFields)
                       @@ means[2] @@ auth @@ @]

\* An id that is no number is consumed all the same; the envelope never is.
NormalizedEvent(rec) ==
    LET base     == BaseEvent(MappingOf(rec).class, rec)
        coded    == [base EXCEPT !.typed = PutSome(@, "event_code", CodeOf(rec))]
        mapped   == FoldLeft(LAMBDA ev, p : SetOcsf(ev, p[2], rec.fields[p[1]]), coded, Applied(rec))
        consumed == {"EventID"} \cup {Applied(rec)[k][1] : k \in DOMAIN Applied(rec)}
    IN [Enriched(mapped, rec) EXCEPT
          !.extra = [k \in DOMAIN rec.fields \ (consumed \ EnvKeys) |-> rec.fields[k]]]

\* Where the fields of the other three kinds go.
NetworkPaths == <<
    <<"protocol", "connection.protocol">>, <<"src_ip", "src_endpoint.ip">>,
    <<"src_port", "src_endpoint.port">>, <<"dst_ip", "dst_endpoint.ip">>,
    <<"dst_port", "dst_endpoint.port">>, <<"pid", "process.pid">>, <<"process", "process.name">> >>
ProcessPaths == <<
    <<"pid", "process.pid">>, <<"process", "process.name">>, <<"full_path", "process.file.path">>,
    <<"parent_folder", "process.parent_folder">>, <<"user", "user.name">>,
    <<"parent_pid", "parent_process.pid">>, <<"parent_process", "parent_process.name">> >>
IntegrityPaths == <<
    <<"action", "activity_name">>, <<"file_path", "file.path">>,
    <<"hash", "file.hash_md5">>, <<"reserved", "integrity.reserved">> >>

\* Here a process id that does not parse is no process id, and not kept.
SetPlain(ev, path, v) == IF path \in PidPaths /\ ~IsPid(v) THEN ev ELSE SetOcsf(ev, path, v)

Plain(rec, class, paths) ==
    LET present == SelectSeq(paths, LAMBDA p : p[1] \in DOMAIN rec.fields)
        mapped  == FoldLeft(LAMBDA ev, p : SetPlain(ev, p[2], rec.fields[p[1]]),
                            BaseEvent(class, rec), present)
    IN [mapped EXCEPT !.extra = [k \in DOMAIN rec.fields \cap EnvKeys |-> rec.fields[k]]]

NormalizedProcess(rec) == LET ev == Plain(rec, "1007", ProcessPaths)
                          IN [ev EXCEPT !.typed = Put(@, "activity_id", "1")]

Normalized(rec) ==
    CASE rec.kind = "event"     -> NormalizedEvent(rec)
      [] rec.kind = "network"   -> Plain(rec, "4001", NetworkPaths)
      [] rec.kind = "process"   -> NormalizedProcess(rec)
      [] rec.kind = "integrity" -> Plain(rec, "1001", IntegrityPaths)

\* Event::get
Get(ev, path) ==
    LET all == ev.typed @@ ev.fields @@ ev.extra
    IN IF path \in DOMAIN all THEN all[path] ELSE Missing
=============================================================================
