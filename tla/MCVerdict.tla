----------------------------- MODULE MCVerdict -----------------------------
(***************************************************************************)
(* All filters of up to MaxWords words over a few comparisons and          *)
(* selections, alone and among other rules, on reports of every logset and *)
(* several event ids of mappings.yaml.                                     *)
(***************************************************************************)
EXTENDS Verdict

None == "none"
MCMaxWords == [dsl |-> 6, sigma |-> 5, among |-> 3]
Pids == {"16", "0x10", "7"}
MCIsPid(v) == v \in Pids
MCCodeIn(v) ==
    CASE v \in {"4624", "4648", "4688", "4673", "4732", "5140"} -> v
      [] v = "04625" -> "4625"
      [] OTHER       -> None
MCPidOf(v) == IF v = "0x10" THEN "16" ELSE v
\* Times: one moment, by three clocks.
MCTimeIn(unit, v) ==
    CASE unit = "iso" /\ v = "2026-06-30T22:26:08Z" -> "1782858368000"
      [] unit = "s"   /\ v = "1782858369"           -> "1782858369000"
      [] unit = "ms"  /\ v = "1782858370123"        -> "1782858370123"
      [] OTHER                                      -> None
MCTrim(v) == CASE v = "\n" -> "" [] v = "\nbob\n" -> "bob" [] v = "\nh.local\n" -> "h.local"
               [] v = "\n10.0.0.2\n" -> "10.0.0.2" [] v = "\n0x10\n" -> "0x10"
               [] v = "\neve\n" -> "eve" [] OTHER -> v
MCIsNumber(v) == v \in {"16", "7", "3002", "1"}
MCNumberOf(v) == CASE v = "16" -> 16 [] v = "7" -> 7 [] v = "3002" -> 3002 [] v = "1" -> 1
MCHasText(v, w) == v = w \/ <<v, w>> \in {<<"net user", "net">>, <<"net user", "user">>}
MCIsPattern(v) == v # "(bad"
MCFits(w, v) == w = "^10" /\ v \in {"10.0.0.1", "10.0.0.2"}
MCEsc(v) == IF v = "net's" THEN "nets" ELSE v

MCMapping ==
    "4624" :> [class |-> "3002", map |-> <<
        <<"AuthenticationPackageName", "auth_protocol">>, <<"Computer", "dst_endpoint.hostname">>,
        <<"IpAddress", "src_endpoint.ip">>, <<"SubjectUserName", "actor.user.name">>,
        <<"TargetUserName", "user.name">> >>]
    @@ "4648" :> [class |-> "3002", map |-> <<
        <<"IpAddress", "dst_endpoint.ip">>, <<"ProcessId", "process.pid">>,
        <<"TargetUserName", "user.name">> >>]
    @@ "4688" :> [class |-> "1007", map |-> <<
        <<"Computer", "host.hostname">>, <<"NewProcessId", "process.pid">>,
        <<"NewProcessName", "process.name">>, <<"SubjectUserName", "user.name">> >>]
    @@ "4732" :> [class |-> "3006", map |-> <<
        <<"MemberName", "user.name">>, <<"TargetUserName", "group.name">> >>]
    @@ "5140" :> [class |-> "4001", map |-> <<
        <<"ShareName", "share.name">>, <<"SubjectUserName", "user.name">> >>]

B(w) == <<"bare", w>>
Q(w) == <<"quoted", w>>
Cmp(text, field, op, values) == [text |-> text, field |-> field, op |-> op, values |-> values]
MCComparisons ==
    "pid" :> Cmp(<<B("process.pid"), Sym(">="), B("16")>>, "process.pid", ">=", <<"16">>)
    @@ "who" :> Cmp(<<B("user.name"), B("IN"), Sym("["), Q("bob"), Sym(","), Q("eve"), Sym("]")>>,
                    "user.name", "IN", <<"bob", "eve">>)
    @@ "botched" :> Cmp(<<B("user.name"), Sym("==")>>, "", None, << >>)

Pred(field, mod, list, values) == [field |-> field, modifier |-> mod, list |-> list, values |-> values]
Sel(name, preds) == [name |-> name, preds |-> preds]
MCDocs ==
    {<<Sel("cmd", <<Pred("process.cmd_line", "contains", TRUE, <<"net", "whoami">>),
                    Pred("user.name", None, TRUE, <<"bob", "eve">>)>>),
       Sel("src", <<Pred("src_endpoint.ip", "re", FALSE, <<"^10">>)>>)>>,
     <<Sel("cmd", <<Pred("event_code", None, TRUE, <<"4625", "4648">>)>>), Sel("src", << >>)>>,
     <<Sel("cmd", <<Pred("user.name", "re", FALSE, <<"(bad">>)>>),
       Sel("src", <<Pred("status", None, FALSE, <<"Success">>)>>)>>,
     <<Sel("cmd", <<Pred("host.hostname", None, FALSE, <<"h">>)>>),
       Sel("src", <<Pred("file.path", None, FALSE, <<"a,b">>)>>)>>,
     <<Sel("cmd", <<Pred("user.name", "endswith", FALSE, <<"b">>)>>)>>,
     <<Sel("cmd", <<Pred("process.cmd_line", "contains", FALSE, <<"net's">>)>>)>>,
     <<Sel("cmd", <<Pred("time", None, TRUE, <<"1782858368000", "1782858370123">>)>>)>>}

Keys == {"id", "name", "severity"}
Rule(type, class, given, words, classes) ==
    [type |-> type, class |-> class, given |-> Keys \cup given, words |-> words, step_classes |-> classes]
Single(class, words) == Rule("atomic", class, {"filter"}, [filter |-> words], << >>)
Burst(given)         == Rule("threshold", "3002", {"filter"} \cup given, [filter |-> << >>], << >>)
Chain(given, first, second) ==
    Rule("chain", "1007", {"step_1", "step_2"} \cup given, [step_1 |-> first, step_2 |-> second],
         <<"3002", None>>)
File(rules, at, slot) == [rules |-> rules, at |-> at, slot |-> slot]

MCAlone == File(<<Single(None, << >>)>>, 1, "filter")
MCPlaces == {
    File(<<Single("3002", << >>)>>, 1, "filter"),
    File(<<Burst({"threshold", "window"})>>, 1, "filter"),
    File(<<Burst({"window"})>>, 1, "filter"),
    File(<<Chain({"match_on", "window"}, << >>, <<"who">>)>>, 1, "step_1"),
    File(<<Chain({"match_on", "window"}, <<"NOT", "pid">>, << >>)>>, 1, "step_2"),
    File(<<Chain({"window"}, <<"who">>, << >>)>>, 1, "step_2"),
    File(<<Single("1007", <<"who">>), Single(None, << >>)>>, 2, "filter"),
    File(<<Single(None, << >>), Single(None, <<"botched">>)>>, 1, "filter"),
    File(<<Single(None, << >>), [Single(None, <<"who">>) EXCEPT !.given = Keys]>>, 1, "filter"),
    File(<<[Single(None, << >>) EXCEPT !.type = "sequence"]>>, 1, "filter"),
    File(<<[Single(None, << >>) EXCEPT !.given = {"id", "name", "filter"}]>>, 1, "filter")}

Report(kind, version, host, says) ==
    [kind |-> kind, envelope |-> <<"acme", "1782858370123">>, version |-> version,
     clock |-> "1782858369", host |-> host, path |-> << >>, layout |-> "plain", says |-> says]
Xml(says) == Report("event", None, "h", says)
Laid(layout, says) == [Xml(says) EXCEPT !.layout = layout]
MCReports == {
    Report("network", None, "h", [protocol |-> "TCP", src_ip |-> "10.0.0.1", dst_ip |-> "10.0.0.2",
                                  pid |-> "16", process |-> "a.exe"]),
    Report("process", "3.4.8", "h", [pid |-> "7", process |-> "a.exe", user |-> "bob", parent_pid |-> "1"]),
    [Report("process", None, "h", [pid |-> "n/a", process |-> "a.exe"]) EXCEPT !.clock = "soon"],
    [Report("process", None, "h", [pid |-> "7", process |-> "a.exe"]) EXCEPT !.envelope = << >>],
    [Report("integrity", None, "h", [action |-> "MODIFIED", file_path |-> "a,b", hash |-> "f00"])
       EXCEPT !.path = <<"a", "b">>, !.clock = "soon", !.envelope = <<"acme", "-">>],
    Xml([EventID |-> "4624", TimeCreated_SystemTime |-> "2026-06-30T22:26:08Z", Computer |-> "h.local", TargetUserName |-> "bob", IpAddress |-> "10.0.0.1",
         LogonType |-> "3", AuthenticationPackageName |-> "NTLM", SubjectUserName |-> "eve"]),
    Laid("pretty", [EventID |-> "4648", TargetUserName |-> "bob", IpAddress |-> "10.0.0.2", ProcessId |-> "0x10",
                     TimeCreated_SystemTime |-> "soon", Spare |-> ""]),
    Xml([EventID |-> "4688", Computer |-> "h.local", NewProcessName |-> "net.exe",
         NewProcessId |-> "0x10", ProcessId |-> "n/a", SubjectUserName |-> "eve",
         TargetUserName |-> "-", CommandLine |-> "net user", IpAddress |-> "10.0.0.1"]),
    Xml([EventID |-> "4673", ProcessId |-> "n/a", SubjectUserName |-> "bob", PrivilegeList |-> "p"]),
    Xml([EventID |-> "04625", TargetUserName |-> "eve", LogonType |-> "3"]),
    Xml([EventID |-> "0x1210", TargetUserName |-> "bob", LogonType |-> "3"]),
    Laid("cut", [EventID |-> "4732", MemberName |-> "bob"]),
    Laid("forwarded", [EventID |-> "4732", TargetUserName |-> "eve", MemberName |-> "bob", IpPort |-> ""]),
    Xml([EventID |-> "5140", SubjectUserName |-> "bob", ShareName |-> "C$", IpAddress |-> "10.0.0.1"])}
=============================================================================
