--------------------------- MODULE MCCorrelator ---------------------------
(***************************************************************************)
(* Every batch of up to MaxEvents of these events, in every order: launch, *)
(* relaunch under the other spelling of the host, child with a known and   *)
(* an unknown parent, connections with and without a launch, two claims of *)
(* one address, logons from it, and one event of each other class.         *)
(***************************************************************************)
EXTENDS Correlator, LogEvents

MCEvents == {
    From(Proc("ws1", "p1", Absent, 1), "ip1"),
    [Proc("WS1", "p1", "p2", 3) EXCEPT !.cmd = "whoami", !.user = Renamed],
    [Proc("ws1", "p2", "p1", 2) EXCEPT !.image = "cmd.exe", !.session = "s1"],
    From(Net("WS1", "p1", "ip9", 2), "ip1"),
    Net("ws1", "p1", "ip9", 4),
    Net("ws1", "p2", "ip9", 3),
    From(Net("dc", Absent, "ip9", 2), "ip1"),
    Logon("dc", "ip1", TRUE, 3),
    Logon("dc", "ip1", FALSE, 1),
    [Blank("file", "ws1", 2) EXCEPT !.path = "x", !.change = "Deleted"],
    From([Blank("account", "fs", 2) EXCEPT !.user = Alice, !.actor = Alice], "ip1"),
    [Blank("other", "ws1", 2) EXCEPT !.pid = "p1", !.name = "cmd.exe",
        !.actor = Renamed, !.privs = [p \in {"tcb"} |-> 2]]}
=============================================================================
