----------------------------- MODULE LogEvents -----------------------------
(***************************************************************************)
(* A handful of normalized events, shared by the model-checking modules:   *)
(* two hosts (one spelled in two ways), reused pids, one remote logon.     *)
(***************************************************************************)
EXTENDS Integers

Absent == "none"
Lower(x) == IF x = "WS1" THEN "ws1" ELSE x

NoUser == [name |-> Absent, domain |-> Absent, sid |-> Absent]
Alice == [NoUser EXCEPT !.name = "alice", !.domain = "corp"]
Renamed == [NoUser EXCEPT !.name = "al", !.sid = "s-1"]
NoPrivileges == [p \in {} |-> 1]

Blank(class, host, ts) ==
    [class |-> class, ts |-> ts, host |-> host, own |-> Absent, pid |-> Absent,
     ppid |-> Absent, name |-> Absent, image |-> Absent, cmd |-> Absent,
     user |-> NoUser, actor |-> NoUser, session |-> Absent, dst |-> Absent,
     src |-> Absent, ok |-> FALSE, path |-> Absent, change |-> Absent,
     privs |-> NoPrivileges]

Proc(host, pid, ppid, ts) ==
    [Blank("process", host, ts) EXCEPT !.pid = pid, !.ppid = ppid, !.name = "cmd.exe"]
Net(host, pid, dst, ts) ==
    [Blank("network", host, ts) EXCEPT !.pid = pid, !.dst = dst]
Logon(host, src, ok, ts) ==
    [Blank("auth", host, ts) EXCEPT !.user = Alice, !.src = src, !.ok = ok]
From(e, ip) == [e EXCEPT !.own = ip]
=============================================================================
