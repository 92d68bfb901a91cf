---------------------------- MODULE Correlation ----------------------------
(***************************************************************************)
(* What the correlator makes of one normalized event                       *)
(* (crates/loghound-correlate: correlator.rs, identity.rs).                *)
(*                                                                         *)
(* An event is a record; a field that is missing, or has a spelling the    *)
(* code treats as absent (empty, "-", session "0x0"), is None.  A user is  *)
(* a record of name, domain and sid; PrivilegeList is a bag.  Keys built   *)
(* here stand for NodeId::of(kind, identity key): equal keys are one node. *)
(*                                                                         *)
(* A correlator c is a graph with the two lookup maps:                     *)
(*   nodes, edges : key -> Validity       (GraphBuilder)                   *)
(*   live         : <<host, pid>> -> process node                          *)
(*   addr         : endpoint IP -> host                                    *)
(***************************************************************************)
EXTENDS Validity, SequencesExt

CONSTANTS
    None,       \* an absent field
    Canon(_)    \* trim().to_lowercase(), what identity keys are compared by

\* What is relied on of an event: a time, privileges that are there, and of a change of
\* a file one of the three types its edge may have, whatever the log calls it.
IsEvent(e) ==
    /\ e.ts \in Int
    /\ \A p \in DOMAIN e.privs : e.privs[p] \in Nat \ {0}
    /\ e.class = "file" => e.change \in {"Created", "Deleted", "Modified"}

Host(h)       == <<"Host", Canon(h)>>
Ip(a)         == <<"IpAddress", a>>
Executable(x) == <<"Executable", Canon(x)>>
Command(x)    == <<"CommandLine", x>>
Privilege(p)  == <<"Privilege", p>>
Session(h, s) == <<"LogonSession", Canon(h), s>>
File(h, p)    == <<"File", Canon(h), Canon(p)>>

\* The SID when there is one (stable across renames), else domain\name, else name.
User(u) ==
    CASE u.sid # None    -> <<"User", Canon(u.sid)>>
      [] u.sid = None /\ u.domain # None -> <<"User", Canon(u.domain), Canon(u.name)>>
      [] OTHER           -> <<"User", Canon(u.name)>>

\* A process instance: the launch time tells reuses of a PID apart.
Launched(h, pid, ts) == <<"Process", Canon(h), pid, "at", ts>>
Unlaunched(h, pid)   == <<"Process", Canon(h), pid, "net">>
Placeholder(h, pid)  == <<"Process", Canon(h), pid, "?">>

Slot(h, pid) == <<Canon(h), pid>>
\* HashMap::insert: a later binding of a key replaces the earlier one.
BoundFirst(map, key, v) == IF key \in DOMAIN map THEN map ELSE map @@ (key :> v)
Bound(map, key, v) == [k \in DOMAIN map \cup {key} |-> IF k = key THEN v ELSE map[k]]
NewCorrelator == [nodes |-> NoObservations, edges |-> NoObservations,
                  live |-> [s \in {} |-> << >>], addr |-> [a \in {} |-> << >>]]

\* The process a slot stands for, and the node made for it if there is none.
Owner(live, slot, unknown) == IF slot \in DOMAIN live THEN live[slot] ELSE unknown
CreatedNever(live, slot, unknown) == {}
Created(live, slot, unknown) == IF slot \in DOMAIN live THEN {} ELSE {unknown}

Present(x, S) == IF x = None THEN {} ELSE S
PresentUser(u) == IF u.name = None THEN {} ELSE {User(u)}
Once(ns, es, c, ts) == Emit(c, SetToBag(ns), SetToBag(es), ts)

-----------------------------------------------------------------------------
\* register: the endpoint's own IP names its host; a later claim wins.
RegisteredRaw(addr, e) ==
    IF e.host = None \/ e.own = None THEN addr ELSE Bound(addr, e.own, e.host)
Registered(addr, e) ==
    IF e.host = None \/ e.own = None THEN addr ELSE Bound(addr, e.own, Canon(e.host))

ImageOf(e) == CASE e.image # None -> e.image
                [] e.image = None /\ e.name # None -> e.name
                [] OTHER -> "process"

\* process: the new instance replaces what its (host, pid) stood for before its
\* parent is looked up; an unknown parent gets a placeholder outside `live`.
ProcessEvent(c, e) ==
    LET host   == Host(e.host)
        proc   == Launched(e.host, e.pid, e.ts)
        live   == Bound(c.live, Slot(e.host, e.pid), proc)
        slot   == Slot(e.host, e.ppid)
        parent == Owner(live, slot, Placeholder(e.host, e.ppid))
        exe    == Executable(ImageOf(e))
        ses    == Session(e.host, e.session)
        ns == {host, proc, exe} \cup Present(e.cmd, {Command(e.cmd)})
                \cup PresentUser(e.user) \cup Present(e.session, {ses})
                \cup Present(e.ppid, Created(live, slot, parent))
        es == {<<host, proc, "Started">>, <<exe, proc, "Executed">>}
                \cup Present(e.cmd, {<<proc, Command(e.cmd), "Used">>})
                \cup {<<u, proc, "RanAs">> : u \in PresentUser(e.user)}
                \cup Present(e.ppid, {<<parent, proc, "Spawned">>})
                \cup Present(e.session, {<<ses, proc, "Owns">>, <<ses, host, "BelongsTo">>})
    IN CASE e.host = None -> c
         [] e.host # None /\ e.pid = None -> Once({host}, {}, c, e.ts)
         [] OTHER -> [Once(ns, es, c, e.ts) EXCEPT !.live = live]

\* network: owned by the live process of the pid, by a loose instance that
\* becomes live, or without a pid by the host.
NetworkEvent(c, e) ==
    LET host  == Host(e.host)
        slot  == Slot(e.host, e.pid)
        loose == Unlaunched(e.host, e.pid)
        src   == IF e.pid = None THEN host ELSE Owner(c.live, slot, loose)
        new   == Present(e.pid, Created(c.live, slot, loose))
    IN CASE e.host = None -> c
         [] e.host # None /\ e.dst = None -> Once({host}, {}, c, e.ts)
         [] OTHER -> [Once({host, Ip(e.dst)} \cup new,
                           {<<src, Ip(e.dst), "ConnectedTo">>}
                             \cup {<<host, p, "Started">> : p \in new}, c, e.ts)
                      EXCEPT !.live = IF e.pid = None THEN @ ELSE Bound(@, slot, src)]

\* auth: a logon (or an attempt), and lateral movement when the source address
\* is another monitored host's.
AuthEvent(c, e) ==
    LET host    == Host(e.host)
        logon   == <<User(e.user), host, IF e.ok THEN "LoggedInTo" ELSE "Authenticated">>
        sources == {<<"Host", c.addr[a]>> : a \in {e.src} \cap DOMAIN c.addr} \ {host}
    IN CASE e.host = None -> c
         [] e.host # None /\ e.user.name = None -> Once({host}, {}, c, e.ts)
         [] OTHER -> Once({host, User(e.user)} \cup sources,
                          {logon} \cup {<<s, host, "LateralMovement">> : s \in sources},
                          c, e.ts)

\* file: integrity logs carry no pid, so the host is the actor.
FileEvent(c, e) ==
    LET host == Host(e.host)
        f    == File(e.host, e.path)
    IN CASE e.host = None -> c
         [] e.host # None /\ e.path = None -> Once({host}, {}, c, e.ts)
         [] OTHER -> Once({host, f}, {<<host, f, e.change>>}, c, e.ts)

\* account: actor and target may be one user, observed twice and not linked.
AccountEvent(c, e) ==
    LET a == PresentUser(e.actor)
        t == PresentUser(e.user)
    IN Emit(c, SetToBag(a) (+) SetToBag(t),
            SetToBag({<<x, y, "Modified">> : x \in a, y \in t} \
                     {<<x, x, "Modified">> : x \in a}), e.ts)

\* generic: whatever else the event names. Its process does not become live.
GenericEvent(c, e) ==
    LET hosts == Present(e.host, {Host(e.host)})
        users == IF e.actor.name # None THEN PresentUser(e.actor) ELSE PresentUser(e.user)
        procs == IF e.host = None \/ e.pid = None THEN {}
                 ELSE {Launched(e.host, e.pid, e.ts)}
        exes  == IF procs = {} THEN {} ELSE Present(e.name, {Executable(e.name)})
        owner == IF users # {} THEN users ELSE procs
        privs == [p \in {Privilege(x) : x \in DOMAIN e.privs} |-> e.privs[p[2]]]
        used  == [u \in {<<o, p, "AcquiredPrivilege">> : o \in owner, p \in DOMAIN privs}
                    |-> privs[u[2]]]
    IN Emit(c, SetToBag(hosts \cup users \cup procs \cup exes) (+) privs,
            SetToBag({<<h, p, "Started">> : h \in hosts, p \in procs}
                     \cup {<<x, p, "Executed">> : x \in exes, p \in procs}
                     \cup {<<u, p, "RanAs">> : u \in users, p \in procs}) (+) used, e.ts)

Correlated(c, e) ==
    CASE e.class = "process" -> ProcessEvent(c, e)
      [] e.class = "network" -> NetworkEvent(c, e)
      [] e.class = "auth"    -> AuthEvent(c, e)
      [] e.class = "file"    -> FileEvent(c, e)
      [] e.class = "account" -> AccountEvent(c, e)
      [] OTHER               -> GenericEvent(c, e)

\* Correlator::correlate_batch, on a new correlator: the addresses of a log, and what
\* there is after each event of it.
AddressesOf(log) ==
    LET known[n \in 0 .. Len(log)] ==
          IF n = 0 THEN NewCorrelator.addr ELSE Registered(known[n - 1], log[n])
    IN known[Len(log)]
Passes(log) ==
    LET c[n \in 0 .. Len(log)] ==
          IF n = 0 THEN [NewCorrelator EXCEPT !.addr = AddressesOf(log)]
          ELSE Correlated(c[n - 1], log[n])
    IN c

\* Correlator::finish.
CorrelatedLog(log) ==
    LET c == Passes(log)[Len(log)] IN [nodes |-> c.nodes, edges |-> c.edges]

\* The nodes that event n of a log is observed in.
Observed(c, e) == DOMAIN Correlated([c EXCEPT !.nodes = NoObservations], e).nodes
BuiltBy(log, n) == Observed(Passes(log)[n - 1], log[n])
=============================================================================
