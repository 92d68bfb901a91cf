------------------------- MODULE Correlator_proofs -------------------------
(***************************************************************************)
(* Proofs about module Correlator, for every set of events and batches of  *)
(* any length.                                                             *)
(***************************************************************************)
EXTENDS Correlator, Correlation_proofs, SequenceTheorems

-----------------------------------------------------------------------------
IInv == /\ pass \in {"register", "correlate", "done"}
        /\ batch \in Seq(Event)
        /\ pos \in 0 .. Len(batch)
        /\ Fit(Graph)

LEMMA InitInv == Init => IInv
BY DEF Init, IInv, Fit, IsCorrelator, Graph, NewCorrelator, NoObservations, Sound,
       AllProper, Closed, Within, LiveKnown

\* `addr` is no part of what makes a graph fit.
LEMMA FitCarries ==
    ASSUME Fit(Graph), UNCHANGED <<nodes, edges, live>>
    PROVE  Fit(Graph)'
BY DEF Fit, Graph, IsCorrelator, Sound, Closed, Within, LiveKnown

LEMMA NextInv == IInv /\ [Next]_vars => IInv'
<1> SUFFICES ASSUME IInv, [Next]_vars PROVE IInv'
  OBVIOUS
<1> USE DEF IInv
<1>1. ASSUME NEW e \in Event, Register(e) PROVE IInv'
  BY <1>1, FitCarries DEF Register
<1>2. CASE BeginSecondPass \/ Finish
  BY <1>2, FitCarries DEF BeginSecondPass, Finish
<1>3. CASE Correlate
  <2> DEFINE d == Correlated(Graph, batch[pos + 1])
  <2>1. batch[pos + 1] \in Event
    BY <1>3 DEF Correlate
  <2>2. Fit(d)
    BY <2>1, EventAssumption, CorrelatedFit
  <2>3. nodes' = d.nodes /\ edges' = d.edges /\ live' = d.live
    BY <1>3 DEF Correlate
  <2>4. Fit(Graph)'
    <3> HIDE DEF d
    <3> QED BY <2>2, <2>3 DEF Fit, Graph, IsCorrelator, Sound, Closed, Within, LiveKnown
  <2> QED BY <1>3, <2>4 DEF Correlate
<1>4. CASE UNCHANGED vars
  BY <1>4, FitCarries DEF vars
<1> QED BY <1>1, <1>2, <1>3, <1>4 DEF Next

\* The inductive invariant holds in every reachable state.
THEOREM Invariance == Spec => []IInv
BY InitInv, NextInv, PTL DEF Spec

\* Every interval the correlator builds is proper.
THEOREM TypeCorrect == Spec => []TypeOK
<1>1. IInv => TypeOK
  BY DEF IInv, Fit, Graph, Sound, AllProper, Proper, TypeOK
<1> QED BY <1>1, Invariance, PTL

\* Whatever the log holds and in whatever order, no edge lacks an endpoint.
THEOREM EndpointsAlwaysKnown == Spec => []EndpointsKnown
<1>1. IInv => EndpointsKnown
  BY DEF IInv, Fit, Graph, Sound, LiveKnown, EndpointsKnown
<1> QED BY <1>1, Invariance, PTL

\* Edge intervals stay within those of the nodes observed with them.
THEOREM EdgesAlwaysWithinNodes == Spec => []EdgesWithinNodes
<1>1. IInv => EdgesWithinNodes
  BY DEF IInv, Fit, Graph, Sound, Within, FromLive, EdgesWithinNodes
<1> QED BY <1>1, Invariance, PTL

-----------------------------------------------------------------------------
(***************************************************************************)
(* What each handler adds to the edges that hang on an instance, and what  *)
(* it binds in `live`.                                                     *)
(***************************************************************************)
OfType(c, t) == {x \in DOMAIN c.edges : x[3] = t}

\* No edge is lost or narrowed.
Widened(c, d) ==
    \A x \in DOMAIN c.edges : x \in DOMAIN d.edges /\ Covers(d.edges[x], c.edges[x])

Evidence == {"ConnectedTo", "Spawned", "LateralMovement"}
Quiet(c, d) == /\ d.live = c.live
               /\ Widened(c, d)
               /\ \A t \in Evidence : OfType(d, t) = OfType(c, t)

LEMMA WidenedSelf ==
    ASSUME NEW c, Fit(c)
    PROVE  Quiet(c, c)
BY DEF Fit, Sound, AllProper, Proper, Interval, Widened, Covers, Quiet

LEMMA EmitAdds ==
    ASSUME NEW c, NEW ns, NEW es, NEW ts \in Int, Fit(c), Positive(es)
    PROVE  LET d == Emit(c, ns, es, ts)
           IN /\ DOMAIN d.edges = DOMAIN c.edges \cup DOMAIN es
              /\ d.live = c.live
              /\ IsCorrelator(d)
              /\ Widened(c, d)
              /\ \A x \in DOMAIN es : Covers(d.edges[x], ValidityAt(ts))
<1> DEFINE d == Emit(c, ns, es, ts)
<1>1. d.edges = Folded(c.edges, es, ts) /\ d.live = c.live /\ IsCorrelator(d)
  BY DEF Fit, IsCorrelator, Emit
<1> HIDE DEF d
<1>2. /\ DOMAIN d.edges = DOMAIN c.edges \cup DOMAIN es
      /\ \A x \in DOMAIN c.edges : Covers(d.edges[x], c.edges[x])
      /\ \A x \in DOMAIN es : d.edges[x].first <= ts /\ ts <= d.edges[x].last
  BY <1>1, FoldedProper DEF Fit, Sound
<1> QED BY <1>1, <1>2 DEF d, Widened, Covers, ValidityAt

LEMMA OnceAdds ==
    ASSUME NEW c, NEW ns, NEW es, NEW ts \in Int, Fit(c)
    PROVE  LET d == Once(ns, es, c, ts)
           IN /\ DOMAIN d.edges = DOMAIN c.edges \cup es
              /\ d.live = c.live
              /\ IsCorrelator(d)
              /\ Widened(c, d)
              /\ \A x \in es : Covers(d.edges[x], ValidityAt(ts))
<1> DEFINE B == SetToBag(es)
<1>1. DOMAIN B = es /\ Positive(B)
  BY BagOfSet
<1> HIDE DEF B
<1> QED BY <1>1, EmitAdds DEF Once, B

\* Observations of other types leave the attributed edges alone.
LEMMA OnceQuiet ==
    ASSUME NEW c, NEW ns, NEW es, NEW ts \in Int, Fit(c),
           \A x \in es : x[3] \notin Evidence
    PROVE  Quiet(c, Once(ns, es, c, ts))
BY OnceAdds DEF Quiet, OfType

LEMMA EmitQuiet ==
    ASSUME NEW c, NEW ns, NEW es, NEW ts \in Int, Fit(c), Positive(es),
           \A x \in DOMAIN es : x[3] \notin Evidence
    PROVE  Quiet(c, Emit(c, ns, es, ts))
BY EmitAdds DEF Quiet, OfType

LEMMA ProcessAdds ==
    ASSUME NEW c, NEW e \in Event, Fit(c), e.host # None, e.pid # None
    PROVE  LET d  == ProcessEvent(c, e)
               lv == Bound(c.live, Slot(e.host, e.pid), Launched(e.host, e.pid, e.ts))
               p  == Owner(lv, Slot(e.host, e.ppid), Placeholder(e.host, e.ppid))
           IN /\ d.live = lv
              /\ Widened(c, d)
              /\ OfType(d, "LateralMovement") = OfType(c, "LateralMovement")
              /\ OfType(d, "ConnectedTo") = OfType(c, "ConnectedTo")
              /\ OfType(d, "Spawned") = OfType(c, "Spawned") \cup
                   Present(e.ppid, {<<p, Launched(e.host, e.pid, e.ts), "Spawned">>})
<1> DEFINE host   == Host(e.host)
           proc   == Launched(e.host, e.pid, e.ts)
           lv     == Bound(c.live, Slot(e.host, e.pid), proc)
           slot   == Slot(e.host, e.ppid)
           parent == Owner(lv, slot, Placeholder(e.host, e.ppid))
           exe    == Executable(ImageOf(e))
           ses    == Session(e.host, e.session)
           ns == {host, proc, exe} \cup Present(e.cmd, {Command(e.cmd)})
                   \cup PresentUser(e.user) \cup Present(e.session, {ses})
                   \cup Present(e.ppid, Created(lv, slot, parent))
           spawned == Present(e.ppid, {<<parent, proc, "Spawned">>})
           es == {<<host, proc, "Started">>, <<exe, proc, "Executed">>}
                   \cup Present(e.cmd, {<<proc, Command(e.cmd), "Used">>})
                   \cup {<<u, proc, "RanAs">> : u \in PresentUser(e.user)}
                   \cup Present(e.ppid, {<<parent, proc, "Spawned">>})
                   \cup Present(e.session, {<<ses, proc, "Owns">>, <<ses, host, "BelongsTo">>})
           d  == Once(ns, es, c, e.ts)
<1>1. ProcessEvent(c, e) = [d EXCEPT !.live = lv]
  BY DEF ProcessEvent
<1>2. DOMAIN d.edges = DOMAIN c.edges \cup es /\ IsCorrelator(d) /\ Widened(c, d)
  <2> HIDE DEF es, ns
  <2> QED BY EventAssumption, OnceAdds DEF IsEvent
<1>3. /\ {x \in es : x[3] = "Spawned"} = spawned
      /\ {x \in es : x[3] = "ConnectedTo"} = {}
      /\ {x \in es : x[3] = "LateralMovement"} = {}
  <2> HIDE DEF host, proc, slot, parent, exe, ses
  <2> QED BY DEF Present
<1> HIDE DEF d, es, lv, spawned
<1>4. ProcessEvent(c, e).live = lv /\ ProcessEvent(c, e).edges = d.edges
  BY <1>1, <1>2 DEF IsCorrelator
<1> QED BY <1>2, <1>3, <1>4 DEF OfType, Widened, lv, spawned

LEMMA ProcessQuiet ==
    ASSUME NEW c, NEW e \in Event, Fit(c), e.host = None \/ e.pid = None
    PROVE  Quiet(c, ProcessEvent(c, e))
<1>1. Quiet(c, c) /\ Quiet(c, Once({Host(e.host)}, {}, c, e.ts))
  BY EventAssumption, WidenedSelf, OnceQuiet DEF IsEvent
<1> QED BY <1>1 DEF ProcessEvent

LEMMA NetworkAdds ==
    ASSUME NEW c, NEW e \in Event, Fit(c), e.host # None, e.dst # None
    PROVE  LET d    == NetworkEvent(c, e)
               slot == Slot(e.host, e.pid)
               src  == IF e.pid = None THEN Host(e.host)
                       ELSE Owner(c.live, slot, Unlaunched(e.host, e.pid))
           IN /\ d.live = IF e.pid = None THEN c.live ELSE Bound(c.live, slot, src)
              /\ Widened(c, d)
              /\ OfType(d, "LateralMovement") = OfType(c, "LateralMovement")
              /\ OfType(d, "Spawned") = OfType(c, "Spawned")
              /\ OfType(d, "ConnectedTo") =
                   OfType(c, "ConnectedTo") \cup {<<src, Ip(e.dst), "ConnectedTo">>}
<1> DEFINE host  == Host(e.host)
           slot  == Slot(e.host, e.pid)
           loose == Unlaunched(e.host, e.pid)
           src   == IF e.pid = None THEN host ELSE Owner(c.live, slot, loose)
           new   == Present(e.pid, Created(c.live, slot, loose))
           ns    == {host, Ip(e.dst)} \cup new
           es    == {<<src, Ip(e.dst), "ConnectedTo">>}
                      \cup {<<host, p, "Started">> : p \in new}
           d     == Once(ns, es, c, e.ts)
<1>1. NetworkEvent(c, e) =
        [d EXCEPT !.live = IF e.pid = None THEN @ ELSE Bound(@, slot, src)]
  BY DEF NetworkEvent
<1>2. /\ DOMAIN d.edges = DOMAIN c.edges \cup es
      /\ d.live = c.live /\ IsCorrelator(d) /\ Widened(c, d)
  <2> HIDE DEF es, ns
  <2> QED BY EventAssumption, OnceAdds DEF IsEvent
<1>3. /\ {x \in es : x[3] = "Spawned"} = {}
      /\ {x \in es : x[3] = "LateralMovement"} = {}
      /\ {x \in es : x[3] = "ConnectedTo"} = {<<src, Ip(e.dst), "ConnectedTo">>}
  <2> HIDE DEF host, src, new
  <2> QED OBVIOUS
<1> HIDE DEF d, es, src
<1>4. /\ NetworkEvent(c, e).live =
           IF e.pid = None THEN c.live ELSE Bound(c.live, slot, src)
      /\ NetworkEvent(c, e).edges = d.edges
  BY <1>1, <1>2 DEF IsCorrelator
<1> QED BY <1>2, <1>3, <1>4 DEF OfType, Widened, src

LEMMA NetworkQuiet ==
    ASSUME NEW c, NEW e \in Event, Fit(c), e.host = None \/ e.dst = None
    PROVE  Quiet(c, NetworkEvent(c, e))
<1>1. Quiet(c, c) /\ Quiet(c, Once({Host(e.host)}, {}, c, e.ts))
  BY EventAssumption, WidenedSelf, OnceQuiet DEF IsEvent
<1> QED BY <1>1 DEF NetworkEvent

LEMMA AuthQuiet ==
    ASSUME NEW c, NEW e \in Event, Fit(c), e.host = None \/ e.user.name = None
    PROVE  Quiet(c, AuthEvent(c, e))
<1>1. Quiet(c, c) /\ Quiet(c, Once({Host(e.host)}, {}, c, e.ts))
  BY EventAssumption, WidenedSelf, OnceQuiet DEF IsEvent
<1> QED BY <1>1 DEF AuthEvent

LEMMA AuthAdds ==
    ASSUME NEW c, NEW e \in Event, Fit(c), e.host # None, e.user.name # None
    PROVE  LET d     == AuthEvent(c, e)
               moves == {<<s, Host(e.host), "LateralMovement">> : s \in Sources(c.addr, e)}
           IN /\ d.live = c.live
              /\ Widened(c, d)
              /\ \A t \in FromLive : OfType(d, t) = OfType(c, t)
              /\ OfType(d, "LateralMovement") = OfType(c, "LateralMovement") \cup moves
              /\ \A x \in moves : Covers(d.edges[x], ValidityAt(e.ts))
<1> DEFINE host  == Host(e.host)
           logon == <<User(e.user), host, IF e.ok THEN "LoggedInTo" ELSE "Authenticated">>
           S     == {<<"Host", c.addr[a]>> : a \in {e.src} \cap DOMAIN c.addr} \ {host}
           ns    == {host, User(e.user)} \cup S
           moves == {<<s, host, "LateralMovement">> : s \in S}
           es    == {logon} \cup {<<s, host, "LateralMovement">> : s \in S}
           d     == Once(ns, es, c, e.ts)
<1>1. AuthEvent(c, e) = d
  BY DEF AuthEvent
<1>2. /\ DOMAIN d.edges = DOMAIN c.edges \cup es
      /\ d.live = c.live /\ Widened(c, d)
      /\ \A x \in es : Covers(d.edges[x], ValidityAt(e.ts))
  <2> HIDE DEF es, ns
  <2> QED BY EventAssumption, OnceAdds DEF IsEvent
<1>3. /\ \A x \in es : x[3] \notin FromLive
      /\ {x \in es : x[3] = "LateralMovement"} = moves
  <2> HIDE DEF host, S
  <2> QED BY DEF FromLive
<1>4. moves \subseteq es /\ S = Sources(c.addr, e)
  BY DEF Sources
<1> HIDE DEF d, es, S
<1> QED BY <1>1, <1>2, <1>3, <1>4 DEF OfType

LEMMA OthersQuiet ==
    ASSUME NEW c, NEW e \in Event, Fit(c), e.class \notin {"process", "network", "auth"}
    PROVE  Quiet(c, Correlated(c, e))
<1>0. Quiet(c, c) /\ Quiet(c, Once({Host(e.host)}, {}, c, e.ts))
  BY EventAssumption, WidenedSelf, OnceQuiet DEF IsEvent
<1>2. e.class = "file" => Quiet(c, FileEvent(c, e))
  <2> DEFINE f  == File(e.host, e.path)
             es == {<<Host(e.host), f, e.change>>}
  <2> SUFFICES ASSUME e.class = "file" PROVE Quiet(c, FileEvent(c, e))
    OBVIOUS
  <2>1. \A x \in es : x[3] \notin Evidence
    BY EventAssumption DEF IsEvent, Evidence
  <2>2. Quiet(c, Once({Host(e.host), f}, es, c, e.ts))
    <3> HIDE DEF es
    <3> QED BY EventAssumption, <2>1, OnceQuiet DEF IsEvent
  <2> QED BY <1>0, <2>2 DEF FileEvent
<1>3. Quiet(c, AccountEvent(c, e))
  <2> DEFINE a  == PresentUser(e.actor)
             t  == PresentUser(e.user)
             ns == SetToBag(a) (+) SetToBag(t)
             E  == {<<x, y, "Modified">> : x \in a, y \in t} \ {<<x, x, "Modified">> : x \in a}
             es == SetToBag(E)
  <2>1. \A x \in E : x[3] \notin Evidence
    BY DEF Evidence
  <2>2. DOMAIN es = E /\ Positive(es)
    <3> HIDE DEF E
    <3> QED BY BagOfSet
  <2>3. Quiet(c, Emit(c, ns, es, e.ts))
    <3> HIDE DEF ns, es, E
    <3> QED BY EventAssumption, <2>1, <2>2, EmitQuiet DEF IsEvent
  <2> QED BY <2>3 DEF AccountEvent
<1>4. Quiet(c, GenericEvent(c, e))
  <2> DEFINE hosts == Present(e.host, {Host(e.host)})
             users == IF e.actor.name # None THEN PresentUser(e.actor) ELSE PresentUser(e.user)
             procs == IF e.host = None \/ e.pid = None THEN {}
                      ELSE {Launched(e.host, e.pid, e.ts)}
             exes  == IF procs = {} THEN {} ELSE Present(e.name, {Executable(e.name)})
             owner == IF users # {} THEN users ELSE procs
             privs == [p \in {Privilege(x) : x \in DOMAIN e.privs} |-> e.privs[p[2]]]
             used  == [u \in {<<o, p, "AcquiredPrivilege">> : o \in owner, p \in DOMAIN privs}
                         |-> privs[u[2]]]
             ns == SetToBag(hosts \cup users \cup procs \cup exes) (+) privs
             E  == {<<h, p, "Started">> : h \in hosts, p \in procs}
                     \cup {<<x, p, "Executed">> : x \in exes, p \in procs}
                     \cup {<<u, p, "RanAs">> : u \in users, p \in procs}
             es == SetToBag(E) (+) used
  <2>1. \A x \in E : x[3] \notin Evidence
    <3> HIDE DEF hosts, procs, exes, users
    <3> QED BY DEF Evidence
  <2>2. \A x \in DOMAIN used : x[3] \notin Evidence
    <3> HIDE DEF owner, privs
    <3> QED BY DEF Evidence
  <2>3. DOMAIN es = E \cup DOMAIN used /\ Positive(es)
    <3>1. Positive(used)
      <4>1. Positive(privs)
        BY EventAssumption DEF IsEvent, Positive, Privilege
      <4>2. \A u \in DOMAIN used : u[2] \in DOMAIN privs
        <5> HIDE DEF owner, privs
        <5> QED OBVIOUS
      <4> HIDE DEF owner, privs
      <4> QED BY <4>1, <4>2 DEF Positive
    <3> HIDE DEF E, used
    <3>2. DOMAIN SetToBag(E) = E /\ Positive(SetToBag(E))
      BY BagOfSet
    <3> QED BY <3>1, <3>2, BagSum
  <2>4. Quiet(c, Emit(c, ns, es, e.ts))
    <3> HIDE DEF ns, es, E, used
    <3> QED BY EventAssumption, <2>1, <2>2, <2>3, EmitQuiet DEF IsEvent
  <2> QED BY <2>4 DEF GenericEvent
<1> QED BY <1>2, <1>3, <1>4 DEF Correlated

-----------------------------------------------------------------------------
(***************************************************************************)
(* `live` against the log: after n events a slot is bound iff it was       *)
(* launched or seen on the network, and it stands for its last launch, or  *)
(* for the loose instance when there was none.                             *)
(***************************************************************************)
LinkedAt(k, slot) == /\ Connects(k) /\ batch[k].pid # None
                     /\ Slot(batch[k].host, batch[k].pid) = slot
Linked(slot, n) == \E k \in 1 .. n : LinkedAt(k, slot)
Instance(slot, n) == IF LastLaunch(slot, n) > 0 THEN LaunchedBy(LastLaunch(slot, n))
                     ELSE <<"Process", slot[1], slot[2], "net">>

Slots == {Slot(e.host, e.pid) : e \in Event} \cup {Slot(e.host, e.ppid) : e \in Event}

Tracks(lv, n) ==
    \A s \in Slots :
        /\ LastLaunch(s, n) \in 0 .. n
        /\ s \in DOMAIN lv <=> LastLaunch(s, n) > 0 \/ Linked(s, n)
        /\ s \in DOMAIN lv => lv[s] = Instance(s, n)

Conns(n) == {<<Connector(i), Ip(batch[i].dst), "ConnectedTo">> :
                i \in {i \in 1 .. n : Connects(i)}}
Children(i) == Named(i, "process") /\ batch[i].pid # None /\ batch[i].ppid # None
Spawns(n) == {<<Parent(i), LaunchedBy(i), "Spawned">> : i \in {i \in 1 .. n : Children(i)}}

Attributed(c, n) == /\ OfType(c, "ConnectedTo") = Conns(n)
                    /\ OfType(c, "Spawned") = Spawns(n)

LEMMA LaunchStep ==
    ASSUME NEW s, NEW n \in Nat, LastLaunch(s, n) \in 0 .. n
    PROVE  LastLaunch(s, n + 1) = IF Launch(n + 1, s) THEN n + 1 ELSE LastLaunch(s, n)
<1> DEFINE L(m) == {j \in 1 .. m : Launch(j, s)}
           P(m, j) == j \in L(m) /\ \A k \in L(m) : k <= j
           M(S) == IF S = {} THEN 0 ELSE CHOOSE j \in S : \A k \in S : k <= j
<1>0. LastLaunch(s, n) = M(L(n)) /\ LastLaunch(s, n + 1) = M(L(n + 1))
  BY DEF LastLaunch
<1>1. CASE Launch(n + 1, s)
  <2>1. L(n + 1) # {} /\ P(n + 1, n + 1)
    BY <1>1
  <2>2. ASSUME NEW j, P(n + 1, j) PROVE j = n + 1
    BY <2>1, <2>2
  <2>3. (CHOOSE j \in L(n + 1) : \A k \in L(n + 1) : k <= j) = n + 1
    BY <2>1, <2>2
  <2> QED BY <1>0, <1>1, <2>1, <2>3
<1>2. CASE ~Launch(n + 1, s)
  <2>1. L(n + 1) = L(n)
    BY <1>2
  <2> HIDE DEF L, M
  <2> QED BY <1>0, <1>2, <2>1
<1> QED BY <1>1, <1>2

LEMMA LinkStep ==
    ASSUME NEW s, NEW n \in Nat
    PROVE  Linked(s, n + 1) <=> Linked(s, n) \/ LinkedAt(n + 1, s)
<1>1. 1 .. n + 1 = 1 .. n \cup {n + 1}
  OBVIOUS
<1> QED BY <1>1 DEF Linked

LEMMA ConnsStep ==
    ASSUME NEW n \in Nat
    PROVE  Conns(n + 1) = Conns(n) \cup
             (IF Connects(n + 1)
              THEN {<<Connector(n + 1), Ip(batch[n + 1].dst), "ConnectedTo">>} ELSE {})
<1>1. 1 .. n + 1 = 1 .. n \cup {n + 1}
  OBVIOUS
<1> QED BY <1>1 DEF Conns

LEMMA SpawnsStep ==
    ASSUME NEW n \in Nat
    PROVE  Spawns(n + 1) = Spawns(n) \cup
             (IF Children(n + 1)
              THEN {<<Parent(n + 1), LaunchedBy(n + 1), "Spawned">>} ELSE {})
<1>1. 1 .. n + 1 = 1 .. n \cup {n + 1}
  OBVIOUS
<1> QED BY <1>1 DEF Spawns

\* An event that is neither a launch nor a connection moves no slot.
LEMMA QuietStep ==
    ASSUME NEW c, NEW d, NEW n \in Nat,
           d.live = c.live, \A t \in FromLive : OfType(d, t) = OfType(c, t),
           Tracks(c.live, n), Attributed(c, n),
           ~Connects(n + 1), \A s \in Slots : ~Launch(n + 1, s), ~Children(n + 1)
    PROVE  Tracks(d.live, n + 1) /\ Attributed(d, n + 1)
<1>1. Attributed(d, n + 1)
  BY ConnsStep, SpawnsStep DEF Attributed, FromLive
<1>2. ASSUME NEW s \in Slots
      PROVE  /\ LastLaunch(s, n + 1) = LastLaunch(s, n) /\ LastLaunch(s, n) \in 0 .. n
             /\ Linked(s, n + 1) <=> Linked(s, n)
  BY LaunchStep, LinkStep DEF Tracks, LinkedAt
<1>3. \A s \in Slots : Instance(s, n + 1) = Instance(s, n)
  BY <1>2 DEF Instance
<1>4. d.live = c.live
  OBVIOUS
<1>5. Tracks(d.live, n + 1)
  BY <1>2, <1>3, <1>4 DEF Tracks
<1> QED BY <1>1, <1>5

LEMMA ProcessStep ==
    ASSUME NEW c, NEW n \in Nat, Fit(c), batch[n + 1] \in Event,
           Tracks(c.live, n), Attributed(c, n),
           Named(n + 1, "process"), batch[n + 1].pid # None
    PROVE  LET d == ProcessEvent(c, batch[n + 1])
           IN Tracks(d.live, n + 1) /\ Attributed(d, n + 1)
<1> DEFINE e  == batch[n + 1]
           i  == n + 1
           d  == ProcessEvent(c, e)
           se == Slot(e.host, e.pid)
           sp == Slot(e.host, e.ppid)
           proc == Launched(e.host, e.pid, e.ts)
           lv == Bound(c.live, se, proc)
           p  == Owner(lv, sp, Placeholder(e.host, e.ppid))
<1>0. e.host # None /\ e.pid # None /\ ~Connects(i) /\ LaunchedBy(i) = proc
      /\ se \in Slots /\ sp \in Slots
  BY DEF Named, Connects, LaunchedBy, Slots
<1>1. /\ d.live = lv
      /\ OfType(d, "ConnectedTo") = OfType(c, "ConnectedTo")
      /\ OfType(d, "Spawned") = OfType(c, "Spawned")
            \cup Present(e.ppid, {<<p, proc, "Spawned">>})
  BY <1>0, ProcessAdds
<1>2. \A s : Launch(i, s) <=> s = se
  BY DEF Launch
<1>3. /\ DOMAIN lv = DOMAIN c.live \cup {se}
      /\ lv[se] = proc
      /\ \A s \in DOMAIN c.live : s # se => lv[s] = c.live[s]
  BY DEF Bound
<1> HIDE DEF lv, se, sp, proc, d
<1>4. ASSUME NEW s \in Slots
      PROVE  /\ LastLaunch(s, i) \in 0 .. i
             /\ Linked(s, i) <=> Linked(s, n)
             /\ s \in DOMAIN lv <=> LastLaunch(s, i) > 0 \/ Linked(s, i)
             /\ s \in DOMAIN lv => lv[s] = Instance(s, i)
  <2>1. LastLaunch(s, n) \in 0 .. n
        /\ (s \in DOMAIN c.live <=> LastLaunch(s, n) > 0 \/ Linked(s, n))
        /\ (s \in DOMAIN c.live => c.live[s] = Instance(s, n))
    BY DEF Tracks
  <2>2. LastLaunch(s, i) = IF s = se THEN i ELSE LastLaunch(s, n)
    BY <1>2, <2>1, LaunchStep
  <2>3. Linked(s, i) <=> Linked(s, n)
    BY <1>0, LinkStep DEF LinkedAt
  <2>4. CASE s = se
    BY <1>0, <1>3, <2>1, <2>2, <2>3, <2>4 DEF Instance
  <2>5. CASE s # se
    <3>1. Instance(s, i) = Instance(s, n)
      BY <2>2, <2>5 DEF Instance
    <3> QED BY <1>3, <2>1, <2>2, <2>3, <2>5, <3>1
  <2> QED BY <2>4, <2>5
<1>5. Tracks(lv, i)
  BY <1>4 DEF Tracks
<1>6. Parent(i) = p
  <2>1. Linked(sp, n) <=> \E k \in 1 .. i - 1 :
                        /\ Connects(k) /\ batch[k].pid # None
                        /\ Slot(batch[k].host, batch[k].pid) = sp
    BY DEF Linked, LinkedAt
  <2>2. <<"Process", sp[1], sp[2], "net">> = Unlaunched(e.host, e.ppid)
    BY DEF sp, Slot, Unlaunched
  <2>3. Parent(i) = IF LastLaunch(sp, i) > 0 THEN LaunchedBy(LastLaunch(sp, i))
                    ELSE IF Linked(sp, n) THEN Unlaunched(e.host, e.ppid)
                    ELSE Placeholder(e.host, e.ppid)
    <3>1. LastLaunch(sp, i) \in Nat
      BY <1>0, <1>4
    <3> QED BY <2>1, <3>1 DEF Parent, sp
  <2>4. CASE sp \in DOMAIN lv
    BY <1>0, <1>4, <2>2, <2>3, <2>4 DEF Owner, Instance
  <2>5. CASE sp \notin DOMAIN lv
    BY <1>0, <1>4, <2>3, <2>5 DEF Owner
  <2> QED BY <2>4, <2>5
<1>7. Attributed(d, i)
  <2>1. Conns(i) = Conns(n)
    BY <1>0, ConnsStep
  <2>2. Children(i) <=> e.ppid # None
    BY DEF Children
  <2>3. Spawns(i) = Spawns(n) \cup Present(e.ppid, {<<p, proc, "Spawned">>})
    BY <1>0, <1>6, <2>2, SpawnsStep DEF Present
  <2> QED BY <1>1, <2>1, <2>3 DEF Attributed
<1> QED BY <1>1, <1>5, <1>7 DEF d

LEMMA NetworkStep ==
    ASSUME NEW c, NEW n \in Nat, Fit(c), batch[n + 1] \in Event,
           Tracks(c.live, n), Attributed(c, n), Connects(n + 1)
    PROVE  LET d == NetworkEvent(c, batch[n + 1])
           IN Tracks(d.live, n + 1) /\ Attributed(d, n + 1)
<1> DEFINE e  == batch[n + 1]
           i  == n + 1
           d  == NetworkEvent(c, e)
           se == Slot(e.host, e.pid)
           src == IF e.pid = None THEN Host(e.host)
                  ELSE Owner(c.live, se, Unlaunched(e.host, e.pid))
           lv == IF e.pid = None THEN c.live ELSE Bound(c.live, se, src)
<1>0. e.host # None /\ e.dst # None /\ se \in Slots /\ ~Children(i)
      /\ \A s : ~Launch(i, s)
  BY DEF Named, Connects, Children, Launch, Slots
<1>1. /\ d.live = lv
      /\ OfType(d, "Spawned") = OfType(c, "Spawned")
      /\ OfType(d, "ConnectedTo") =
           OfType(c, "ConnectedTo") \cup {<<src, Ip(e.dst), "ConnectedTo">>}
  BY <1>0, NetworkAdds
<1>2. \A s : LinkedAt(i, s) <=> e.pid # None /\ s = se
  BY DEF LinkedAt
<1>3. <<"Process", se[1], se[2], "net">> = Unlaunched(e.host, e.pid)
  BY DEF Slot, Unlaunched
<1>4. /\ e.pid = None => lv = c.live
      /\ e.pid # None => /\ DOMAIN lv = DOMAIN c.live \cup {se}
                         /\ lv[se] = src
                         /\ \A s \in DOMAIN c.live : s # se => lv[s] = c.live[s]
  BY DEF Bound
<1>5. e.pid # None => src = Instance(se, n)
  <2> SUFFICES ASSUME e.pid # None PROVE src = Instance(se, n)
    OBVIOUS
  <2>1. LastLaunch(se, n) \in 0 .. n
        /\ (se \in DOMAIN c.live <=> LastLaunch(se, n) > 0 \/ Linked(se, n))
        /\ (se \in DOMAIN c.live => c.live[se] = Instance(se, n))
    BY <1>0 DEF Tracks
  <2> QED BY <1>3, <2>1 DEF Owner, Instance
<1>6. Connector(i) = src
  <2>1. LastLaunch(se, i) = LastLaunch(se, n) /\ LastLaunch(se, n) \in Nat
    BY <1>0, LaunchStep DEF Tracks
  <2>2. CASE e.pid = None
    BY <2>2 DEF Connector
  <2>3. CASE e.pid # None
    BY <1>3, <1>5, <2>1, <2>3 DEF Connector, Instance
  <2> QED BY <2>2, <2>3
<1> HIDE DEF lv, se, src, d
<1>7. ASSUME NEW s \in Slots
      PROVE  /\ LastLaunch(s, i) \in 0 .. i
             /\ s \in DOMAIN lv <=> LastLaunch(s, i) > 0 \/ Linked(s, i)
             /\ s \in DOMAIN lv => lv[s] = Instance(s, i)
  <2>1. LastLaunch(s, n) \in 0 .. n
        /\ (s \in DOMAIN c.live <=> LastLaunch(s, n) > 0 \/ Linked(s, n))
        /\ (s \in DOMAIN c.live => c.live[s] = Instance(s, n))
    BY DEF Tracks
  <2>2. LastLaunch(s, i) = LastLaunch(s, n)
    BY <1>0, <2>1, LaunchStep
  <2>3. Linked(s, i) <=> Linked(s, n) \/ (e.pid # None /\ s = se)
    BY <1>2, LinkStep
  <2>4. Instance(s, i) = Instance(s, n)
    BY <2>2 DEF Instance
  <2>5. s \in DOMAIN lv <=> s \in DOMAIN c.live \/ (e.pid # None /\ s = se)
    BY <1>4
  <2>6. s \in DOMAIN lv => lv[s] = Instance(s, n)
    BY <1>4, <1>5, <2>1, <2>5
  <2> QED BY <2>1, <2>2, <2>3, <2>4, <2>5, <2>6
<1>8. Tracks(lv, i)
  BY <1>7 DEF Tracks
<1>9. Attributed(d, i)
  <2>1. Conns(i) = Conns(n) \cup {<<src, Ip(e.dst), "ConnectedTo">>}
    BY <1>6, ConnsStep
  <2>2. Spawns(i) = Spawns(n)
    BY <1>0, SpawnsStep
  <2> QED BY <1>1, <2>1, <2>2 DEF Attributed
<1> QED BY <1>1, <1>8, <1>9 DEF d


LEMMA CorrelatedStep ==
    ASSUME NEW c, NEW n \in Nat, Fit(c), batch[n + 1] \in Event,
           Tracks(c.live, n), Attributed(c, n)
    PROVE  LET d == Correlated(c, batch[n + 1])
           IN Tracks(d.live, n + 1) /\ Attributed(d, n + 1)
<1> DEFINE e == batch[n + 1]
           d == Correlated(c, e)
<1>1. CASE Named(n + 1, "process") /\ e.pid # None
  BY <1>1, ProcessStep DEF Correlated, Named
<1>2. CASE Connects(n + 1)
  BY <1>2, NetworkStep DEF Correlated, Connects, Named
<1>3. CASE ~(Named(n + 1, "process") /\ e.pid # None) /\ ~Connects(n + 1)
  <2>1. d.live = c.live /\ \A t \in FromLive : OfType(d, t) = OfType(c, t)
    <3>1. CASE e.class = "process"
      <4>1. Quiet(c, ProcessEvent(c, e))
        BY <1>3, <3>1, ProcessQuiet DEF Named
      <4> QED BY <3>1, <4>1 DEF Correlated, Quiet, Evidence, FromLive
    <3>2. CASE e.class = "network"
      <4>1. Quiet(c, NetworkEvent(c, e))
        BY <1>3, <3>2, NetworkQuiet DEF Named, Connects
      <4> QED BY <3>2, <4>1 DEF Correlated, Quiet, Evidence, FromLive
    <3>3. CASE e.class = "auth"
      <4>1. CASE e.host # None /\ e.user.name # None
        BY <3>3, <4>1, AuthAdds DEF Correlated
      <4>2. CASE e.host = None \/ e.user.name = None
        <5>1. Quiet(c, AuthEvent(c, e))
          BY <4>2, AuthQuiet
        <5> QED BY <3>3, <5>1 DEF Correlated, Quiet, Evidence, FromLive
      <4> QED BY <4>1, <4>2
    <3>4. CASE e.class \notin {"process", "network", "auth"}
      <4>1. Quiet(c, d)
        BY <3>4, OthersQuiet
      <4> QED BY <4>1 DEF Quiet, Evidence, FromLive
    <3> QED BY <3>1, <3>2, <3>3, <3>4
  <2>2. ~Children(n + 1) /\ \A s \in Slots : ~Launch(n + 1, s)
    BY <1>3 DEF Children, Launch
  <2> HIDE DEF d
  <2>3. Tracks(d.live, n + 1) /\ Attributed(d, n + 1)
    BY <1>3, <2>1, <2>2, QuietStep
  <2> QED BY <2>3 DEF d
<1> QED BY <1>1, <1>2, <1>3

-----------------------------------------------------------------------------
(***************************************************************************)
(* Lateral movements, against the addresses claimed anywhere in the batch. *)
(***************************************************************************)
LogonAt(i) == /\ Named(i, "auth") /\ batch[i].user.name # None
              /\ batch[i].src # None

Move(h, i) == <<<<"Host", h>>, Host(batch[i].host), "LateralMovement">>

MovesFound(c, n) ==
    /\ \A i \in 1 .. n : \A h \in Claims(batch[i].src) :
          (LogonAt(i) /\ Claims(batch[i].src) = {h} /\ h # Canon(batch[i].host))
          => Move(h, i) \in DOMAIN c.edges
             /\ Covers(c.edges[Move(h, i)], ValidityAt(batch[i].ts))
    /\ \A x \in OfType(c, "LateralMovement") :
          \E i \in 1 .. n : /\ LogonAt(i) /\ Host(batch[i].host) = x[2]
                            /\ \E h \in Claims(batch[i].src) : x[1] = <<"Host", h>>

AddrKnown(a) ==
    /\ \A ip \in DOMAIN a : ip # None /\ a[ip] \in Claims(ip)
    /\ \A i \in 1 .. Len(batch) :
          batch[i].host # None /\ batch[i].own # None => batch[i].own \in DOMAIN a

\* An address only one host claims is taken for that host's.
LEMMA OnlyClaim ==
    ASSUME NEW a, NEW ip, NEW h, AddrKnown(a), ip # None, Claims(ip) = {h}
    PROVE  ip \in DOMAIN a /\ a[ip] = h
<1>1. PICK i \in 1 .. Len(batch) : batch[i].host # None /\ batch[i].own = ip
  BY DEF Claims
<1>2. ip \in DOMAIN a
  BY <1>1 DEF AddrKnown
<1>3. a[ip] \in Claims(ip)
  BY <1>2 DEF AddrKnown
<1> QED BY <1>2, <1>3

\* What was found stays found while edges only widen.
LEMMA MovesKept ==
    ASSUME NEW c, NEW d, NEW n \in Nat, NEW i \in 1 .. n, NEW h \in Claims(batch[i].src),
           batch[i] \in Event, Fit(c), Fit(d), Widened(c, d), MovesFound(c, n), LogonAt(i),
           Claims(batch[i].src) = {h}, h # Canon(batch[i].host)
    PROVE  Move(h, i) \in DOMAIN d.edges
           /\ Covers(d.edges[Move(h, i)], ValidityAt(batch[i].ts))
<1> DEFINE x == Move(h, i)
<1>1. x \in DOMAIN c.edges /\ Covers(c.edges[x], ValidityAt(batch[i].ts))
  BY DEF MovesFound
<1>2. x \in DOMAIN d.edges /\ Covers(d.edges[x], c.edges[x])
  BY <1>1 DEF Widened
<1>3. Proper(c.edges[x]) /\ Proper(d.edges[x])
  BY <1>1, <1>2 DEF Fit, Sound, AllProper
<1>4. batch[i].ts \in Int
  BY EventAssumption DEF IsEvent
<1> HIDE DEF x
<1>5. Covers(d.edges[x], ValidityAt(batch[i].ts))
  BY <1>1, <1>2, <1>3, <1>4 DEF Covers, Proper, Interval, ValidityAt
<1> QED BY <1>2, <1>5 DEF x

LEMMA MovesStep ==
    ASSUME NEW c, NEW n \in Nat, Fit(c), n + 1 \in 1 .. Len(batch), batch \in Seq(Event),
           AddrKnown(c.addr), MovesFound(c, n)
    PROVE  MovesFound(Correlated(c, batch[n + 1]), n + 1)
<1> DEFINE e == batch[n + 1]
           d == Correlated(c, e)
<1>0. e \in Event /\ Fit(d) /\ \A i \in 1 .. n : batch[i] \in Event
  BY EventAssumption, CorrelatedFit
<1>1. CASE e.class = "auth" /\ e.host # None /\ e.user.name # None
  <2> DEFINE moves == {<<s, Host(e.host), "LateralMovement">> : s \in Sources(c.addr, e)}
  <2>1. /\ Widened(c, d)
        /\ OfType(d, "LateralMovement") = OfType(c, "LateralMovement") \cup moves
        /\ \A x \in moves : Covers(d.edges[x], ValidityAt(e.ts))
    BY <1>0, <1>1, AuthAdds DEF Correlated
  <2> HIDE DEF d
  <2>2. ASSUME NEW i \in 1 .. n + 1, NEW h \in Claims(batch[i].src),
               LogonAt(i), Claims(batch[i].src) = {h}, h # Canon(batch[i].host)
        PROVE  /\ Move(h, i) \in DOMAIN d.edges
               /\ Covers(d.edges[Move(h, i)], ValidityAt(batch[i].ts))
    <3>1. CASE i \in 1 .. n
      BY <1>0, <2>1, <2>2, <3>1, MovesKept
    <3>2. CASE i = n + 1
      <4>1. e.src \in DOMAIN c.addr /\ c.addr[e.src] = h
        BY <2>2, <3>2, OnlyClaim DEF LogonAt
      <4>2. <<"Host", h>> # Host(e.host)
        BY <2>2, <3>2 DEF Host
      <4>3. <<"Host", h>> \in Sources(c.addr, e)
        BY <4>1, <4>2 DEF Sources
      <4>4. Move(h, i) \in moves
        BY <3>2, <4>3 DEF Move
      <4>5. moves \subseteq DOMAIN d.edges
        BY <2>1 DEF OfType
      <4> HIDE DEF moves
      <4> QED BY <2>1, <3>2, <4>4, <4>5
    <3> QED BY <3>1, <3>2
  <2>3. ASSUME NEW x \in OfType(d, "LateralMovement")
        PROVE  \E i \in 1 .. n + 1 :
                  /\ LogonAt(i) /\ Host(batch[i].host) = x[2]
                  /\ \E h \in Claims(batch[i].src) : x[1] = <<"Host", h>>
    <3>1. CASE x \in OfType(c, "LateralMovement")
      <4>1. \A i \in 1 .. n : i \in 1 .. n + 1
        OBVIOUS
      <4> QED BY <3>1, <4>1 DEF MovesFound
    <3>2. CASE x \in moves
      <4>1. PICK s \in Sources(c.addr, e) : x = <<s, Host(e.host), "LateralMovement">>
        BY <3>2
      <4>2. e.src \in DOMAIN c.addr /\ s = <<"Host", c.addr[e.src]>>
        BY <4>1 DEF Sources
      <4>3. e.src # None /\ c.addr[e.src] \in Claims(e.src)
        BY <4>2 DEF AddrKnown
      <4>4. LogonAt(n + 1)
        BY <1>1, <4>3 DEF LogonAt, Named
      <4> QED BY <4>1, <4>2, <4>3, <4>4
    <3> QED BY <2>1, <3>1, <3>2
  <2>4. MovesFound(d, n + 1)
    BY <2>2, <2>3 DEF MovesFound
  <2> QED BY <2>4 DEF d
<1>2. CASE ~(e.class = "auth" /\ e.host # None /\ e.user.name # None)
  <2>1. Widened(c, d) /\ OfType(d, "LateralMovement") = OfType(c, "LateralMovement")
    <3>1. CASE e.class = "process"
      <4>1. CASE e.host # None /\ e.pid # None
        BY <1>0, <3>1, <4>1, ProcessAdds DEF Correlated
      <4>2. CASE e.host = None \/ e.pid = None
        <5>1. Quiet(c, ProcessEvent(c, e))
          BY <1>0, <4>2, ProcessQuiet
        <5> QED BY <3>1, <5>1 DEF Correlated, Quiet, Evidence
      <4> QED BY <4>1, <4>2
    <3>2. CASE e.class = "network"
      <4>1. CASE e.host # None /\ e.dst # None
        BY <1>0, <3>2, <4>1, NetworkAdds DEF Correlated
      <4>2. CASE e.host = None \/ e.dst = None
        <5>1. Quiet(c, NetworkEvent(c, e))
          BY <1>0, <4>2, NetworkQuiet
        <5> QED BY <3>2, <5>1 DEF Correlated, Quiet, Evidence
      <4> QED BY <4>1, <4>2
    <3>3. CASE e.class = "auth"
      <4>1. Quiet(c, AuthEvent(c, e))
        BY <1>0, <1>2, <3>3, AuthQuiet
      <4> QED BY <3>3, <4>1 DEF Correlated, Quiet, Evidence
    <3>4. CASE e.class \notin {"process", "network", "auth"}
      <4>1. Quiet(c, d)
        BY <1>0, <3>4, OthersQuiet
      <4> QED BY <4>1 DEF Quiet, Evidence
    <3> QED BY <3>1, <3>2, <3>3, <3>4
  <2>2. ~LogonAt(n + 1)
    BY <1>2 DEF LogonAt, Named
  <2> HIDE DEF d
  <2>3. ASSUME NEW i \in 1 .. n + 1, NEW h \in Claims(batch[i].src),
               LogonAt(i), Claims(batch[i].src) = {h}, h # Canon(batch[i].host)
        PROVE  /\ Move(h, i) \in DOMAIN d.edges
               /\ Covers(d.edges[Move(h, i)], ValidityAt(batch[i].ts))
    <3>1. i \in 1 .. n
      BY <2>2, <2>3
    <3> QED BY <1>0, <2>1, <2>3, <3>1, MovesKept
  <2>4. \A i \in 1 .. n : i \in 1 .. n + 1
    OBVIOUS
  <2>5. MovesFound(d, n + 1)
    BY <2>1, <2>3, <2>4 DEF MovesFound
  <2> QED BY <2>5 DEF d
<1> QED BY <1>1, <1>2

-----------------------------------------------------------------------------
(***************************************************************************)
(* The evidence invariant.                                                 *)
(***************************************************************************)
EInv == /\ IInv
        /\ pass = "register" => pos = 0
        /\ Tracks(live, pos)
        /\ Attributed(Graph, pos)
        /\ MovesFound(Graph, pos)
        /\ AddrKnown(addr)

LEMMA EInit == Init => EInv
<1> SUFFICES ASSUME Init PROVE EInv
  OBVIOUS
<1>1. IInv /\ pos = 0 /\ pass = "register" /\ batch = << >>
  BY InitInv DEF Init
<1>2. DOMAIN live = {} /\ DOMAIN edges = {} /\ DOMAIN addr = {}
  BY DEF Init, NewCorrelator, NoObservations
<1>3. 1 .. 0 = {} /\ Len(batch) = 0
  BY <1>1
<1>4. Tracks(live, 0)
  <2>1. \A s : LastLaunch(s, 0) = 0 /\ ~Linked(s, 0)
    BY <1>3 DEF LastLaunch, Linked
  <2> QED BY <1>2, <2>1 DEF Tracks
<1>5. Attributed(Graph, 0)
  BY <1>2, <1>3 DEF Attributed, OfType, Graph, Conns, Spawns
<1>6. MovesFound(Graph, 0)
  BY <1>2, <1>3 DEF MovesFound, OfType, Graph
<1>7. AddrKnown(addr)
  BY <1>2, <1>3 DEF AddrKnown
<1> QED BY <1>1, <1>4, <1>5, <1>6, <1>7 DEF EInv

\* Reading another event: nothing is built yet, and an address it names is claimed.
LEMMA ERegister ==
    ASSUME EInv, NEW e \in Event, Register(e), IInv'
    PROVE  EInv'
<1>1. /\ pos = 0 /\ pos' = 0 /\ batch \in Seq(Event) /\ batch' = Append(batch, e)
      /\ live' = live /\ edges' = edges /\ nodes' = nodes /\ addr' = Registered(addr, e)
  BY DEF EInv, IInv, Register
<1>2. 1 .. 0 = {}
  OBVIOUS
<1>3. Tracks(live, pos)'
  <2>1. ASSUME NEW s \in Slots PROVE s \notin DOMAIN live
    <3>1. LastLaunch(s, 0) = 0 /\ ~Linked(s, 0)
      BY <1>2 DEF LastLaunch, Linked
    <3> QED BY <1>1, <3>1 DEF EInv, Tracks
  <2>2. ASSUME NEW CONSTANT s PROVE LastLaunch(s, 0)' = 0 /\ ~Linked(s, 0)'
    BY <1>2 DEF LastLaunch, Linked
  <2>3. PICK l : l = live'
    OBVIOUS
  <2>4. Tracks(l, 0)'
    BY <1>1, <2>1, <2>2, <2>3 DEF Tracks, Slots
  <2> QED BY <1>1, <2>3, <2>4
<1>4. Attributed(Graph, pos)'
  <2>1. OfType(Graph, "ConnectedTo") = {} /\ OfType(Graph, "Spawned") = {}
    BY <1>1, <1>2 DEF EInv, Attributed, Conns, Spawns
  <2> QED BY <1>1, <1>2, <2>1 DEF Attributed, Conns, Spawns, OfType, Graph
<1>5. MovesFound(Graph, pos)'
  <2>1. OfType(Graph, "LateralMovement") = {}
    BY <1>1, <1>2 DEF EInv, MovesFound
  <2> QED BY <1>1, <1>2, <2>1 DEF MovesFound, OfType, Graph
<1>6. AddrKnown(addr)'
  <2>1. /\ Len(batch') = Len(batch) + 1 /\ Len(batch) \in Nat
        /\ batch'[Len(batch) + 1] = e
        /\ \A i \in 1 .. Len(batch) : i \in 1 .. Len(batch') /\ batch'[i] = batch[i]
    BY <1>1
  <2>2. AddrKnown(addr)
    BY DEF EInv
  <2>3. ASSUME NEW CONSTANT ip, NEW CONSTANT h, h \in Claims(ip) PROVE h \in Claims(ip)'
    BY <2>1, <2>3 DEF Claims
  <2>4. CASE e.host = None \/ e.own = None
    <3>1. addr' = addr
      BY <1>1, <2>4 DEF Registered
    <3>2. ASSUME NEW CONSTANT ip, ip \in DOMAIN addr PROVE ip # None /\ addr[ip] \in Claims(ip)'
      <4>1. ip # None /\ addr[ip] \in Claims(ip)
        BY <2>2, <3>2 DEF AddrKnown
      <4>2. PICK h : h = addr[ip]
        OBVIOUS
      <4> QED BY <2>3, <4>1, <4>2
    <3>3. ASSUME NEW CONSTANT i, i \in 1 .. Len(batch'), batch'[i].host # None,
                 batch'[i].own # None
          PROVE  batch'[i].own \in DOMAIN addr
      BY <2>1, <2>2, <2>4, <3>3 DEF AddrKnown
    <3> QED BY <3>1, <3>2, <3>3 DEF AddrKnown
  <2>5. CASE e.host # None /\ e.own # None
    <3>1. /\ DOMAIN addr' = DOMAIN addr \cup {e.own}
          /\ addr'[e.own] = Canon(e.host)
          /\ \A ip \in DOMAIN addr : ip # e.own => addr'[ip] = addr[ip]
      BY <1>1, <2>5 DEF Registered, Bound
    <3>2. ASSUME NEW CONSTANT ip, ip \in DOMAIN addr'
          PROVE ip # None /\ addr'[ip] \in Claims(ip)'
      <4>1. CASE ip = e.own
        BY <2>1, <2>5, <3>1, <4>1 DEF Claims
      <4>2. CASE ip # e.own
        <5>1. ip # None /\ addr[ip] \in Claims(ip) /\ addr'[ip] = addr[ip]
          BY <2>2, <3>1, <3>2, <4>2 DEF AddrKnown
        <5>2. PICK h : h = addr[ip]
          OBVIOUS
        <5> QED BY <2>3, <5>1, <5>2
      <4> QED BY <4>1, <4>2
    <3>3. ASSUME NEW CONSTANT i, i \in 1 .. Len(batch'), batch'[i].host # None,
                 batch'[i].own # None
          PROVE  batch'[i].own \in DOMAIN addr'
      BY <2>1, <2>2, <3>1, <3>3 DEF AddrKnown
    <3> QED BY <3>2, <3>3 DEF AddrKnown
  <2> QED BY <2>4, <2>5
<1>7. pass' = "register"
  BY DEF Register
<1> QED BY <1>1, <1>3, <1>4, <1>5, <1>6 DEF EInv

\* What is said of the log stays said while the log stays the same.
LEMMA SameLog ==
    ASSUME batch' = batch, NEW CONSTANT n
    PROVE  /\ \A c : Attributed(c, n)' <=> Attributed(c, n)
           /\ \A c : MovesFound(c, n)' <=> MovesFound(c, n)
           /\ \A l : Tracks(l, n)' <=> Tracks(l, n)
           /\ \A a : AddrKnown(a)' <=> AddrKnown(a)
BY DEF Attributed, MovesFound, Tracks, AddrKnown, Conns, Spawns, Connector, Parent, Children,
       LastLaunch, Launch, LaunchedBy, Named, Connects, Linked, LinkedAt, Instance, Claims,
       LogonAt, Move

LEMMA ECorrelate ==
    ASSUME EInv, Correlate, IInv'
    PROVE  EInv'
<1> DEFINE d == Correlated(Graph, batch[pos + 1])
<1>1. /\ batch' = batch /\ pos' = pos + 1 /\ addr' = addr /\ pass' = "correlate"
      /\ nodes' = d.nodes /\ edges' = d.edges /\ live' = d.live
      /\ pos \in Nat /\ pos + 1 \in 1 .. Len(batch) /\ batch \in Seq(Event)
      /\ batch[pos + 1] \in Event /\ Fit(Graph)
  BY DEF EInv, IInv, Correlate
<1>2. Tracks(d.live, pos + 1) /\ Attributed(d, pos + 1)
  <2>1. Tracks(Graph.live, pos) /\ Attributed(Graph, pos)
    BY DEF EInv, Graph
  <2> QED BY <1>1, <2>1, CorrelatedStep
<1>3. MovesFound(d, pos + 1)
  BY <1>1, MovesStep DEF EInv, Graph
<1> HIDE DEF d
<1>4. PICK m : m = pos + 1
  OBVIOUS
<1>5. PICK g : g = Graph'
  OBVIOUS
<1>6. g.edges = d.edges /\ g.live = d.live
  BY <1>1, <1>5 DEF Graph
<1>7. Tracks(g.live, m) /\ Attributed(g, m) /\ MovesFound(g, m)
  BY <1>2, <1>3, <1>4, <1>6 DEF Attributed, MovesFound, OfType
<1>8. Tracks(g.live, m)' /\ Attributed(g, m)' /\ MovesFound(g, m)'
  BY <1>1, <1>7, SameLog
<1>9. Tracks(live, pos)' /\ Attributed(Graph, pos)' /\ MovesFound(Graph, pos)'
  BY <1>1, <1>4, <1>5, <1>6, <1>8
<1>10. AddrKnown(addr)'
  <2>1. PICK a : a = addr
    OBVIOUS
  <2>2. AddrKnown(a)'
    BY <1>1, <2>1, SameLog DEF EInv
  <2> QED BY <1>1, <2>1, <2>2
<1> QED BY <1>1, <1>9, <1>10 DEF EInv

LEMMA EStutter ==
    ASSUME EInv, IInv', UNCHANGED <<batch, pos, nodes, edges, live, addr>>,
           pass' = "register" => pass = "register"
    PROVE  EInv'
<1>1. PICK m, g, a, l : m = pos /\ g = Graph /\ a = addr /\ l = live
  OBVIOUS
<1>2. Tracks(l, m)' /\ Attributed(g, m)' /\ MovesFound(g, m)' /\ AddrKnown(a)'
  BY <1>1, SameLog DEF EInv
<1>3. m = pos' /\ g = Graph' /\ a = addr' /\ l = live'
  BY <1>1 DEF Graph
<1> QED BY <1>1, <1>2, <1>3 DEF EInv

\* What `live`, `addr` and the graph say agrees with the log in every reachable state.
THEOREM EvidenceInvariance == Spec => []EInv
<1>1. EInv /\ [Next]_vars => EInv'
  <2> SUFFICES ASSUME EInv, [Next]_vars PROVE EInv'
    OBVIOUS
  <2>0. IInv'
    BY NextInv DEF EInv
  <2>1. ASSUME NEW e \in Event, Register(e) PROVE EInv'
    BY <2>0, <2>1, ERegister
  <2>2. CASE BeginSecondPass \/ Finish
    BY <2>0, <2>2, EStutter DEF BeginSecondPass, Finish
  <2>3. CASE Correlate
    BY <2>0, <2>3, ECorrelate
  <2>4. CASE UNCHANGED vars
    BY <2>0, <2>4, EStutter DEF vars
  <2> QED BY <2>1, <2>2, <2>3, <2>4 DEF Next
<1> QED BY <1>1, EInit, PTL DEF Spec

\* Every connection and every child hangs on the instance its pid stood for at that
\* point of the log, whatever reuses of the pid the log holds (correlator.rs:115-207).
THEOREM AttributionAlwaysExact == Spec => []AttributionExact
<1>1. EInv => AttributionExact
  BY DEF EInv, Attributed, OfType, Graph, Conns, Spawns, Children, AttributionExact, Done
<1> QED BY <1>1, EvidenceInvariance, PTL

\* A logon from an address that one other host claims, before or after it in the
\* batch, is a lateral movement, and there is no other (correlator.rs:39-56, 209-238).
THEOREM LateralMovementAlwaysFound == Spec => []LateralMovementFound
<1>1. EInv => LateralMovementFound
  BY DEF EInv, MovesFound, OfType, Graph, LogonAt, Move, LateralMovementFound, Done
<1> QED BY <1>1, EvidenceInvariance, PTL

-----------------------------------------------------------------------------
(***************************************************************************)
(* The machine builds what the passes, as functions of the log, build.     *)
(***************************************************************************)
FoldInv == /\ IInv
           /\ pass = "register" => pos = 0
           /\ pass = "done" => pos = Len(batch)
           /\ Graph = Passes(batch)[pos]

LEMMA BatchEvents ==
    ASSUME NEW b \in Seq(Event)
    PROVE  Events(b)
BY EventAssumption DEF Events

LEMMA GraphFields ==
    ASSUME NEW c, Graph = c
    PROVE  nodes = c.nodes /\ edges = c.edges /\ live = c.live /\ addr = c.addr
BY DEF Graph

LEMMA FoldInit == Init => FoldInv
<1> SUFFICES ASSUME Init PROVE FoldInv
  OBVIOUS
<1>1. IInv /\ pos = 0 /\ batch = << >> /\ Len(<< >>) = 0
  BY InitInv DEF Init
<1>2. AddressesOf(<< >>) = NewCorrelator.addr
  <2>1. << >> \in Seq({0})
    OBVIOUS
  <2> QED BY <2>1, AddressesStep
<1>3. Passes(<< >>)[0] = [NewCorrelator EXCEPT !.addr = NewCorrelator.addr]
  BY <1>1, <1>2, PassesStep
<1>4. [NewCorrelator EXCEPT !.addr = NewCorrelator.addr] = NewCorrelator
  BY DEF NewCorrelator
<1>5. Graph = NewCorrelator
  BY DEF Init, Graph, NewCorrelator
<1> QED BY <1>1, <1>3, <1>4, <1>5 DEF FoldInv

LEMMA FoldRegister ==
    ASSUME FoldInv, NEW e \in Event, Register(e)
    PROVE  (Graph = Passes(batch)[pos])'
<1>1. /\ pos = 0 /\ pos' = 0 /\ batch \in Seq(Event) /\ batch' = Append(batch, e)
      /\ addr' = Registered(addr, e) /\ nodes' = nodes /\ edges' = edges /\ live' = live
  BY DEF FoldInv, IInv, Register
<1>2. PICK b, more : b = batch /\ more = Append(b, e)
  OBVIOUS
<1>3. b \in Seq(Event) /\ more \in Seq(Event) /\ Len(b) \in Nat /\ Len(more) \in Nat
  BY <1>1, <1>2
<1>4. PICK g : g = Passes(b)[0]
  OBVIOUS
<1>5. /\ nodes = g.nodes /\ edges = g.edges /\ live = g.live /\ addr = g.addr
  BY <1>1, <1>2, <1>4, GraphFields DEF FoldInv
<1>6. g = [NewCorrelator EXCEPT !.addr = AddressesOf(b)]
  BY <1>3, <1>4, PassesStep
<1>7. AddressesOf(more) = Registered(AddressesOf(b), e)
  BY <1>2, <1>3, AddressesStep
<1>8. Passes(more)[0] = [NewCorrelator EXCEPT !.addr = AddressesOf(more)]
  BY <1>3, PassesStep
<1>9. /\ g.nodes = NewCorrelator.nodes /\ g.edges = NewCorrelator.edges
      /\ g.live = NewCorrelator.live /\ g.addr = AddressesOf(b)
  BY <1>6 DEF NewCorrelator
<1>10. [NewCorrelator EXCEPT !.addr = AddressesOf(more)]
         = [nodes |-> NewCorrelator.nodes, edges |-> NewCorrelator.edges,
            live |-> NewCorrelator.live, addr |-> AddressesOf(more)]
  BY DEF NewCorrelator
<1>11. Graph' = Passes(more)[0]
  BY <1>1, <1>5, <1>7, <1>8, <1>9, <1>10 DEF Graph
<1>12. batch' = more /\ pos' = 0
  BY <1>1, <1>2
<1> QED BY <1>11, <1>12

LEMMA FoldCorrelate ==
    ASSUME FoldInv, Correlate
    PROVE  (Graph = Passes(batch)[pos])'
<1>1. PICK b, n, c : b = batch /\ n = pos + 1 /\ c = Graph
  OBVIOUS
<1>2. /\ b \in Seq(Event) /\ pos \in Nat /\ n \in 1 .. Len(b) /\ pos = n - 1 /\ pos \in 0 .. Len(b)
      /\ Len(b) \in Nat /\ batch' = b /\ pos' = n /\ addr' = addr
  BY <1>1 DEF FoldInv, IInv, Correlate
<1>3. c = Passes(b)[n - 1]
  BY <1>1, <1>2 DEF FoldInv
<1>4. PICK d : d = Correlated(c, b[n])
  OBVIOUS
<1>5. nodes' = d.nodes /\ edges' = d.edges /\ live' = d.live
  BY <1>1, <1>4 DEF Correlate
<1>6. Passes(b)[n] = d
  BY <1>2, <1>3, <1>4, PassesStep
<1>7. Shaped(d) /\ d.addr = c.addr
  <2>1. PassedWell(b, n) /\ PassedWell(b, n - 1)
    BY <1>2, BatchEvents, PassesRecord
  <2> QED BY <1>3, <1>6, <2>1 DEF PassedWell
<1>8. addr = c.addr
  BY <1>1 DEF Graph
<1>9. Graph' = d
  BY <1>2, <1>5, <1>7, <1>8 DEF Graph, Shaped
<1> QED BY <1>2, <1>6, <1>9

\* Whatever is read and built so far is what the functions give for it.
THEOREM FoldInvariance == Spec => []FoldInv
<1>1. FoldInv /\ [Next]_vars => FoldInv'
  <2> SUFFICES ASSUME FoldInv, [Next]_vars PROVE FoldInv'
    OBVIOUS
  <2>0. IInv'
    BY NextInv DEF FoldInv
  <2>1. ASSUME NEW e \in Event, Register(e) PROVE FoldInv'
    <3>1. (Graph = Passes(batch)[pos])'
      BY <2>1, FoldRegister
    <3> QED BY <2>0, <2>1, <3>1 DEF FoldInv, Register
  <2>2. CASE Correlate
    <3>1. (Graph = Passes(batch)[pos])'
      BY <2>2, FoldCorrelate
    <3> QED BY <2>0, <2>2, <3>1 DEF FoldInv, Correlate
  <2>3. CASE BeginSecondPass \/ Finish \/ UNCHANGED vars
    <3>1. /\ UNCHANGED <<batch, pos, Graph>> /\ (pass' = "register" => pass = "register")
          /\ pass' = "done" => pos = Len(batch)
      BY <2>3 DEF BeginSecondPass, Finish, vars, Graph, FoldInv
    <3>2. PICK b, n, g : b = batch /\ n = pos /\ g = Graph
      OBVIOUS
    <3>3. g = Passes(b)[n]
      BY <3>2 DEF FoldInv
    <3>4. b = batch' /\ n = pos' /\ g = Graph'
      BY <3>1, <3>2
    <3>5. (Graph = Passes(batch)[pos])'
      BY <3>3, <3>4
    <3> QED BY <2>0, <3>1, <3>5 DEF FoldInv
  <2> QED BY <2>1, <2>2, <2>3 DEF Next
<1> QED BY <1>1, FoldInit, PTL DEF Spec

-----------------------------------------------------------------------------
(***************************************************************************)
(* A log cut in two.  An event is observed in the same things whatever the *)
(* lookup maps hold, up to which instance of a pid is meant, but for the   *)
(* hosts behind remote logons; a half that has not seen a pid before makes *)
(* another process for it, whose slot the whole log has seen.              *)
(***************************************************************************)
ProcOf(s) == <<"Process", s[1], s[2]>>
StartOf(s) == <<<<"Host", s[1]>>, ProcOf(s), "Started">>

\* The lookup map names processes by the slot they stand for.
NamedLive(lv) == \A s \in DOMAIN lv : OfPid(lv[s]) = ProcOf(s)

\* a is what an event is observed in with more pids bound, in lv, than b.
Alike(a, b, lv) ==
    /\ \A k \in a.nodes :
          \/ \E j \in b.nodes : OfPid(j) = OfPid(k)
          \/ OfPid(k) = k /\ \E y \in a.edges : y[3] = "LateralMovement" /\ Ends(y)[1] = k
    /\ \A k \in b.nodes :
          \/ \E j \in a.nodes : OfPid(j) = OfPid(k)
          \/ OfPid(k) = k /\ \E y \in b.edges : y[3] = "LateralMovement" /\ Ends(y)[1] = k
          \/ \E s \in DOMAIN lv : OfPid(k) = ProcOf(s)
    /\ \A y \in a.edges : y[3] = "LateralMovement" \/ \E z \in b.edges : Ends(z) = Ends(y)
    /\ \A y \in b.edges :
          \/ y[3] = "LateralMovement"
          \/ \E z \in a.edges : Ends(z) = Ends(y)
          \/ \E s \in DOMAIN lv : Ends(y) = StartOf(s)

LEMMA SameAlike ==
    ASSUME NEW a, NEW lv
    PROVE  Alike(a, a, lv)
BY DEF Alike

\* What a slot stands for is a process of its host and pid.
LEMMA OwnerNamed ==
    ASSUME NEW lv, NamedLive(lv), NEW h, NEW p,
           NEW unknown \in {Unlaunched(h, p), Placeholder(h, p)}
    PROVE  OfPid(Owner(lv, Slot(h, p), unknown)) = ProcOf(Slot(h, p))
<1>1. OfPid(unknown) = ProcOf(Slot(h, p))
  BY DEF OfPid, ProcOf, Slot, Unlaunched, Placeholder
<1> QED BY <1>1 DEF Owner, NamedLive

LEMMA ProcessAlike ==
    ASSUME NEW more, NEW less, NEW e, NamedLive(more), NamedLive(less),
           DOMAIN less \subseteq DOMAIN more
    PROVE  Alike(ProcessSees(more, e), ProcessSees(less, e), more)
<1> DEFINE host   == Host(e.host)
           proc   == Launched(e.host, e.pid, e.ts)
           own    == Slot(e.host, e.pid)
           slot   == Slot(e.host, e.ppid)
           hold   == Placeholder(e.host, e.ppid)
           lv(l)  == Bound(l, own, proc)
           parent(l) == Owner(lv(l), slot, hold)
           exe    == Executable(ImageOf(e))
           ses    == Session(e.host, e.session)
           N      == {host, proc, exe} \cup Present(e.cmd, {Command(e.cmd)})
                       \cup PresentUser(e.user) \cup Present(e.session, {ses})
           ns(l)  == N \cup Present(e.ppid, Created(lv(l), slot, parent(l)))
           A      == {<<host, proc, "Started">>, <<exe, proc, "Executed">>}
                       \cup Present(e.cmd, {<<proc, Command(e.cmd), "Used">>})
                       \cup {<<u, proc, "RanAs">> : u \in PresentUser(e.user)}
           B      == Present(e.session, {<<ses, proc, "Owns">>, <<ses, host, "BelongsTo">>})
           S(l)   == Present(e.ppid, {<<parent(l), proc, "Spawned">>})
           es(l)  == A \cup S(l) \cup B
<1>1. CASE e.host = None \/ e.pid = None
  <2>1. ProcessSees(more, e) = ProcessSees(less, e)
    BY <1>1 DEF ProcessSees
  <2> QED BY <2>1, SameAlike
<1>2. CASE e.host # None /\ e.pid # None
  <2>1. ProcessSees(more, e) = Sees(ns(more), es(more))
        /\ ProcessSees(less, e) = Sees(ns(less), es(less))
    BY <1>2 DEF ProcessSees
  <2>2. OfPid(parent(more)) = ProcOf(slot) /\ OfPid(parent(less)) = ProcOf(slot)
    <3>1. OfPid(proc) = ProcOf(own)
      BY DEF OfPid, ProcOf, Slot, Launched
    <3>2. NamedLive(lv(more)) /\ NamedLive(lv(less))
      <4> HIDE DEF proc, own
      <4> QED BY <3>1 DEF NamedLive, Bound
    <3> HIDE DEF lv
    <3> QED BY <3>2, OwnerNamed
  <2>3. /\ DOMAIN lv(more) = DOMAIN more \cup {own}
        /\ DOMAIN lv(less) = DOMAIN less \cup {own}
    BY DEF Bound
  <2>4. \A k \in Present(e.ppid, Created(lv(more), slot, parent(more))) :
            k \in Present(e.ppid, Created(lv(less), slot, parent(less)))
    <3> HIDE DEF lv, slot, own, hold
    <3> QED BY <2>3 DEF Present, Created, Owner
  <2>5. \A k \in Present(e.ppid, Created(lv(less), slot, parent(less))) :
            \/ k \in Present(e.ppid, Created(lv(more), slot, parent(more)))
            \/ slot \in DOMAIN more /\ OfPid(k) = ProcOf(slot)
    <3> HIDE DEF lv, slot, own, hold
    <3> QED BY <2>2, <2>3 DEF Present, Created, Owner
  <2>6. /\ \A y \in S(more) : \E z \in S(less) : Ends(z) = Ends(y)
        /\ \A y \in S(less) : \E z \in S(more) : Ends(z) = Ends(y)
    <3> DEFINE x(l) == <<parent(l), proc, "Spawned">>
    <3>1. S(more) \in {{}, {x(more)}} /\ S(less) \in {{}, {x(less)}}
          /\ (S(more) = {} <=> S(less) = {})
      BY DEF Present
    <3>2. Ends(x(more)) = Ends(x(less))
      <4> HIDE DEF parent, proc, slot
      <4> QED BY <2>2 DEF Ends
    <3> HIDE DEF x, S
    <3> QED BY <3>1, <3>2
  <2> HIDE DEF N, A, B, S, parent, lv, slot, own
  <2>7. /\ \A k \in ns(more) : k \in ns(less)
        /\ \A k \in ns(less) : k \in ns(more) \/ \E s \in DOMAIN more : OfPid(k) = ProcOf(s)
    BY <2>4, <2>5
  <2>8. /\ \A y \in es(more) : \E z \in es(less) : Ends(z) = Ends(y)
        /\ \A y \in es(less) : \E z \in es(more) : Ends(z) = Ends(y)
    BY <2>6
  <2> HIDE DEF ns, es
  <2> QED BY <2>1, <2>7, <2>8 DEF Alike, Sees
<1> QED BY <1>1, <1>2

LEMMA NetworkAlike ==
    ASSUME NEW more, NEW less, NEW e, NamedLive(more), NamedLive(less),
           DOMAIN less \subseteq DOMAIN more
    PROVE  Alike(NetworkSees(more, e), NetworkSees(less, e), more)
<1> DEFINE host   == Host(e.host)
           slot   == Slot(e.host, e.pid)
           loose  == Unlaunched(e.host, e.pid)
           src(l) == IF e.pid = None THEN host ELSE Owner(l, slot, loose)
           new(l) == Present(e.pid, Created(l, slot, loose))
           ns(l)  == {host, Ip(e.dst)} \cup new(l)
           C(l)   == {<<src(l), Ip(e.dst), "ConnectedTo">>}
           S(l)   == {<<host, p, "Started">> : p \in new(l)}
           es(l)  == C(l) \cup S(l)
<1>1. CASE e.host = None \/ e.dst = None
  <2>1. NetworkSees(more, e) = NetworkSees(less, e)
    BY <1>1 DEF NetworkSees
  <2> QED BY <2>1, SameAlike
<1>2. CASE e.host # None /\ e.dst # None
  <2>1. NetworkSees(more, e) = Sees(ns(more), es(more))
        /\ NetworkSees(less, e) = Sees(ns(less), es(less))
    BY <1>2 DEF NetworkSees
  <2>2. OfPid(src(more)) = OfPid(src(less))
    BY OwnerNamed
  <2>3. \A k \in new(more) : k \in new(less)
    <3> HIDE DEF slot, loose
    <3> QED BY DEF Present, Created
  <2>4. OfPid(loose) = ProcOf(slot) /\ OfPid(host) = <<"Host", slot[1]>>
    BY DEF OfPid, ProcOf, Slot, Unlaunched, Host
  <2>5. \A k \in new(less) : k \in new(more) \/ (slot \in DOMAIN more /\ k = loose)
    <3> HIDE DEF slot, loose
    <3> QED BY DEF Present, Created
  <2>6. /\ \A y \in C(more) : \E z \in C(less) : Ends(z) = Ends(y)
        /\ \A y \in C(less) : \E z \in C(more) : Ends(z) = Ends(y)
    <3> HIDE DEF src
    <3> QED BY <2>2 DEF Ends
  <2>7. \A y \in S(more) : y \in S(less)
    <3> HIDE DEF new, host
    <3> QED BY <2>3
  <2>8. \A y \in S(less) : y \in S(more) \/ (slot \in DOMAIN more /\ Ends(y) = StartOf(slot))
    <3> HIDE DEF new, host, loose, slot
    <3> QED BY <2>4, <2>5 DEF Ends, StartOf
  <2> HIDE DEF C, S, new, slot, loose, host
  <2>9. /\ \A k \in ns(more) : k \in ns(less)
        /\ \A k \in ns(less) : k \in ns(more) \/ \E s \in DOMAIN more : OfPid(k) = ProcOf(s)
    BY <2>3, <2>4, <2>5
  <2>10. /\ \A y \in es(more) : \E z \in es(less) : Ends(z) = Ends(y)
         /\ \A y \in es(less) : \/ \E z \in es(more) : Ends(z) = Ends(y)
                                \/ \E s \in DOMAIN more : Ends(y) = StartOf(s)
    BY <2>6, <2>7, <2>8
  <2> HIDE DEF ns, es
  <2> QED BY <2>1, <2>9, <2>10 DEF Alike, Sees
<1> QED BY <1>1, <1>2

LEMMA AuthAlike ==
    ASSUME NEW a, NEW b, NEW e, NEW lv
    PROVE  Alike(AuthSees(a, e), AuthSees(b, e), lv)
<1> DEFINE host  == Host(e.host)
           N     == {host, User(e.user)}
           logon == <<User(e.user), host, IF e.ok THEN "LoggedInTo" ELSE "Authenticated">>
           M(x)  == {<<s, host, "LateralMovement">> : s \in Sources(x, e)}
<1>1. CASE e.host = None \/ e.user.name = None
  <2>1. AuthSees(a, e) = AuthSees(b, e)
    BY <1>1 DEF AuthSees
  <2> QED BY <2>1, SameAlike
<1>2. CASE e.host # None /\ e.user.name # None
  <2>1. /\ AuthSees(a, e) = Sees(N \cup Sources(a, e), {logon} \cup M(a))
        /\ AuthSees(b, e) = Sees(N \cup Sources(b, e), {logon} \cup M(b))
    BY <1>2 DEF AuthSees
  <2>2. ASSUME NEW x, NEW k \in Sources(x, e)
        PROVE OfPid(k) = k /\ \E y \in M(x) : y[3] = "LateralMovement" /\ Ends(y)[1] = k
    <3>1. OfPid(k) = k
      BY DEF Sources, OfPid
    <3>2. <<k, host, "LateralMovement">> \in M(x)
      OBVIOUS
    <3>3. Ends(<<k, host, "LateralMovement">>)[1] = k
      BY <3>1 DEF Ends
    <3> HIDE DEF M, host
    <3> QED BY <3>1, <3>2, <3>3
  <2>3. \A x : \A y \in M(x) : y[3] = "LateralMovement"
    OBVIOUS
  <2> HIDE DEF N, logon, M
  <2> QED BY <2>1, <2>2, <2>3 DEF Alike, Sees
<1> QED BY <1>1, <1>2

LEMMA EventAlike ==
    ASSUME NEW more, NEW less, NEW a, NEW b, NEW e, NamedLive(more), NamedLive(less),
           DOMAIN less \subseteq DOMAIN more
    PROVE  Alike(EventSees(more, a, e), EventSees(less, b, e), more)
BY ProcessAlike, NetworkAlike, AuthAlike, SameAlike DEF EventSees

\* What is bound names its slot, and was seen when the slot was bound first.
SeenNode(log, i, x) == \E k \in SeesAt(log, i).nodes : OfPid(k) = x
SeenEdge(log, i, x) == \E k \in SeesAt(log, i).edges : Ends(k) = x

BindingSeen(log, n) ==
    /\ NamedLive(Passes(log)[n].live)
    /\ \A s \in BoundBy(log, n) :
          \E j \in 1 .. n : SeenNode(log, j, ProcOf(s)) /\ SeenEdge(log, j, StartOf(s))

LEMMA BindsSeen ==
    ASSUME NEW lv, NEW addrs, NEW e, NEW s \in Binds(e), s \notin DOMAIN lv
    PROVE  LET seen == EventSees(lv, addrs, e)
           IN /\ \E k \in seen.nodes : OfPid(k) = ProcOf(s)
              /\ \E k \in seen.edges : Ends(k) = StartOf(s)
<1> DEFINE seen == EventSees(lv, addrs, e)
           h == Host(e.host)
<1>1. /\ e.host # None /\ e.pid # None /\ s = Slot(e.host, e.pid)
      /\ e.class = "process" \/ (e.class = "network" /\ e.dst # None)
  BY DEF Binds
<1>2. OfPid(h) = <<"Host", s[1]>>
  BY <1>1 DEF OfPid, Host, Slot
<1>3. ASSUME NEW p, OfPid(p) = ProcOf(s), p \in seen.nodes, <<h, p, "Started">> \in seen.edges
      PROVE  /\ \E k \in seen.nodes : OfPid(k) = ProcOf(s)
             /\ \E k \in seen.edges : Ends(k) = StartOf(s)
  <2>1. Ends(<<h, p, "Started">>) = StartOf(s)
    <3> HIDE DEF h
    <3> QED BY <1>2, <1>3 DEF Ends, StartOf
  <2> HIDE DEF seen, h
  <2> QED BY <1>3, <2>1
<1>4. CASE e.class = "process"
  <2> DEFINE p == Launched(e.host, e.pid, e.ts)
  <2>1. OfPid(p) = ProcOf(s)
    BY <1>1 DEF OfPid, ProcOf, Slot, Launched
  <2>2. seen = ProcessSees(lv, e)
    BY <1>4 DEF EventSees
  <2>3. p \in seen.nodes /\ <<h, p, "Started">> \in seen.edges
    <3> HIDE DEF seen, p, h
    <3> QED BY <1>1, <2>2 DEF ProcessSees, Sees, p, h
  <2> HIDE DEF seen, p, h
  <2> QED BY <1>3, <2>1, <2>3 DEF seen
<1>5. CASE e.class = "network"
  <2> DEFINE p == Unlaunched(e.host, e.pid)
  <2>1. OfPid(p) = ProcOf(s)
    BY <1>1 DEF OfPid, ProcOf, Slot, Unlaunched
  <2>2. seen = NetworkSees(lv, e)
    BY <1>5 DEF EventSees
  <2>3. Present(e.pid, Created(lv, s, p)) = {p}
    BY <1>1 DEF Present, Created
  <2>4. p \in seen.nodes /\ <<h, p, "Started">> \in seen.edges
    <3> HIDE DEF seen, p, h
    <3> QED BY <1>1, <1>5, <2>2, <2>3 DEF NetworkSees, Sees, p, h
  <2> HIDE DEF seen, p, h
  <2> QED BY <1>3, <2>1, <2>4 DEF seen
<1> QED BY <1>1, <1>4, <1>5

LEMMA BindingsSeen ==
    ASSUME NEW log, Events(log)
    PROVE  \A n \in 0 .. Len(log) : BindingSeen(log, n)
<1> DEFINE T == {k \in Nat : k <= Len(log) => BindingSeen(log, k)}
<1>1. 0 \in T
  <2>1. BoundBy(log, 0) = {}
    BY DEF BoundBy
  <2>2. PassedWell(log, 0)
    BY PassesRecord DEF Events
  <2>3. BindingSeen(log, 0)
    BY <2>1, <2>2 DEF BindingSeen, PassedWell, NamedLive
  <2> QED BY <2>3
<1>2. ASSUME NEW k \in T PROVE k + 1 \in T
  <2> SUFFICES ASSUME k + 1 <= Len(log) PROVE BindingSeen(log, k + 1)
    OBVIOUS
  <2>1. PICK n \in Nat : n = k + 1
    OBVIOUS
  <2>2. /\ k \in Nat /\ n \in 1 .. Len(log) /\ k = n - 1 /\ BindingSeen(log, k)
        /\ \A i : i \in 1 .. n <=> i \in 1 .. k \/ i = n
    BY <2>1 DEF Events
  <2>3. PassedWell(log, k) /\ PassedWell(log, n)
    BY <2>2, PassesRecord DEF Events
  <2>4. PICK c, d, e : c = Passes(log)[k] /\ d = Passes(log)[n] /\ e = log[n]
    OBVIOUS
  <2>5. d = Correlated(c, e) /\ IsEvent(e) /\ SeesAt(log, n) = EventSees(c.live, c.addr, e)
    BY <2>2, <2>4, PassesStep DEF Events, SeesAt
  <2>6. Shaped(c) /\ DOMAIN c.live = BoundBy(log, k)
    BY <2>3, <2>4 DEF PassedWell
  <2>7. Rebound(c.live, d.live, e)
    BY <2>5, <2>6, CorrelatedEmits
  <2>8. NamedLive(d.live)
    <3>1. NamedLive(c.live)
      BY <2>2, <2>4 DEF BindingSeen
    <3>2. ASSUME NEW s \in DOMAIN d.live PROVE OfPid(d.live[s]) = ProcOf(s)
      <4>1. CASE s \in DOMAIN c.live /\ d.live[s] = c.live[s]
        BY <3>1, <4>1 DEF NamedLive
      <4>2. CASE /\ s \in Binds(e)
                 /\ d.live[s] \in {Launched(e.host, e.pid, e.ts), Unlaunched(e.host, e.pid)}
        <5>1. s = Slot(e.host, e.pid)
          BY <4>2 DEF Binds
        <5> QED BY <4>2, <5>1 DEF OfPid, ProcOf, Slot, Launched, Unlaunched
      <4> QED BY <2>7, <4>1, <4>2 DEF Rebound
    <3> QED BY <3>2 DEF NamedLive
  <2>9. ASSUME NEW s \in BoundBy(log, n)
        PROVE \E j \in 1 .. n : SeenNode(log, j, ProcOf(s)) /\ SeenEdge(log, j, StartOf(s))
    <3>1. CASE s \in BoundBy(log, k)
      BY <2>2, <3>1 DEF BindingSeen
    <3>2. CASE s \notin BoundBy(log, k)
      <4>1. s \in Binds(e) /\ s \notin DOMAIN c.live
        BY <2>2, <2>4, <2>6, <3>2 DEF BoundBy
      <4>2. SeenNode(log, n, ProcOf(s)) /\ SeenEdge(log, n, StartOf(s))
        BY <2>5, <4>1, BindsSeen DEF SeenNode, SeenEdge
      <4> QED BY <2>2, <4>2
    <3> QED BY <3>1, <3>2
  <2> QED BY <2>1, <2>4, <2>8, <2>9 DEF BindingSeen
<1>3. T = Nat
  <2>1. T \in SUBSET Nat
    OBVIOUS
  <2> HIDE DEF T
  <2> QED BY <1>1, <1>2, <2>1, AllNat
<1> QED BY <1>3 DEF Events

-----------------------------------------------------------------------------
(***************************************************************************)
(* The spans of Lives: the least and the greatest time something is seen.  *)
(***************************************************************************)
\* x was seen at times U, and l says so.
Spanned(l, x, U) ==
    /\ x \in DOMAIN l <=> U # {}
    /\ x \in DOMAIN l =>
          /\ l[x] = [first |-> l[x].first, last |-> l[x].last]
          /\ l[x].first \in U /\ l[x].last \in U
          /\ \A t \in U : t \in Int /\ l[x].first <= t /\ t <= l[x].last

LEMMA SpannedAlike ==
    ASSUME NEW l, NEW m, NEW x, NEW U, Spanned(l, x, U), Spanned(m, x, U)
    PROVE  /\ x \in DOMAIN l <=> x \in DOMAIN m
           /\ x \in DOMAIN l => l[x] = m[x]
BY DEF Spanned

LEMMA SpannedCovers ==
    ASSUME NEW l, NEW m, NEW x, NEW U, NEW V, Spanned(l, x, U), Spanned(m, x, V),
           U \subseteq V, x \in DOMAIN l
    PROVE  x \in DOMAIN m /\ Covers(m[x], l[x])
BY DEF Spanned, Covers

\* Times of a log have a least and a greatest.
TimesUpTo(f, n) == n \in Nat /\ \A i \in 1 .. n : f[i] \in Int
SomeOf(S, f, n) == S # {} /\ \A t \in S : \E i \in 1 .. n : t = f[i]
Limited(S) == \E lo \in S, hi \in S : \A t \in S : lo <= t /\ t <= hi

LEMMA TimesBounded ==
    ASSUME NEW n, NEW f, TimesUpTo(f, n), NEW S, SomeOf(S, f, n)
    PROVE  Limited(S)
<1> DEFINE Among(V, k) == \A t \in V : \E i \in 1 .. k : t = f[i]
           HasEnds(V) == \E lo \in V, hi \in V : \A t \in V : lo <= t /\ t <= hi
           P(k) == \A V : V # {} /\ Among(V, k) => HasEnds(V)
           T == {k \in Nat : k <= n => P(k)}
<1> USE DEF TimesUpTo
<1>0. P(0)
  OBVIOUS
<1> HIDE DEF P
<1>1. 0 \in T
  BY <1>0
<1>2. ASSUME NEW k \in T PROVE k + 1 \in T
  <2> SUFFICES ASSUME k + 1 <= n PROVE P(k + 1)
    OBVIOUS
  <2>0. P(k)
    OBVIOUS
  <2> SUFFICES ASSUME NEW V, V # {}, Among(V, k + 1) PROVE HasEnds(V)
    BY DEF P
  <2>1. PICK v : v = f[k + 1]
    OBVIOUS
  <2>2. v \in Int /\ \A t \in V : t \in Int
    BY <2>1
  <2>3. \A i \in 1 .. k + 1 : i \in 1 .. k \/ i = k + 1
    OBVIOUS
  <2>4. Among(V \ {v}, k)
    BY <2>1, <2>3
  <2>5. CASE V \ {v} = {}
    <3>1. V = {v}
      BY <2>5
    <3> QED BY <2>2, <3>1
  <2>6. CASE V \ {v} # {}
    <3>1. HasEnds(V \ {v})
      <4> HIDE DEF Among, HasEnds
      <4> QED BY <2>0, <2>4, <2>6 DEF P
    <3>2. PICK lo \in V \ {v}, hi \in V \ {v} : \A t \in V \ {v} : lo <= t /\ t <= hi
      BY <3>1
    <3>3. CASE v \notin V
      BY <3>2, <3>3
    <3>4. CASE v \in V /\ lo <= v /\ v <= hi
      BY <3>2, <3>4
    <3>5. CASE v \in V /\ v < lo
      <4>1. \A t \in V : v <= t /\ t <= hi
        BY <2>2, <3>2, <3>5
      <4> QED BY <3>2, <3>5, <4>1
    <3>6. CASE v \in V /\ hi < v
      <4>1. \A t \in V : lo <= t /\ t <= v
        BY <2>2, <3>2, <3>6
      <4> QED BY <3>2, <3>6, <4>1
    <3>7. lo \in Int /\ hi \in Int
      BY <2>2, <3>2
    <3> QED BY <2>2, <3>3, <3>4, <3>5, <3>6, <3>7
  <2> QED BY <2>5, <2>6
<1>3. T = Nat
  <2>1. T \in SUBSET Nat
    OBVIOUS
  <2> HIDE DEF T
  <2> QED BY <1>1, <1>2, <2>1, AllNat
<1>4. P(n)
  BY <1>3
<1> HIDE DEF T
<1> QED BY <1>4 DEF P, SomeOf, Limited

\* The ends of a set of spans, of which each end is a time and each time is in one.
LEMMA EndsOfSpans ==
    ASSUME NEW V, NEW U, \A t \in U : t \in Int,
           \A v \in V : v.first \in U /\ v.last \in U,
           \A t \in U : \E v \in V : v.first <= t /\ t <= v.last,
           NEW lo \in U, NEW hi \in U, \A t \in U : lo <= t /\ t <= hi
    PROVE  Min({v.first : v \in V}) = lo /\ Max({v.last : v \in V}) = hi
<1>1. PICK v \in V : v.first <= lo
  OBVIOUS
<1>2. PICK w \in V : hi <= w.last
  OBVIOUS
<1>3. v.first = lo /\ w.last = hi
  <2>1. v.first \in U /\ w.last \in U
    OBVIOUS
  <2>2. v.first \in Int /\ w.last \in Int /\ lo \in Int /\ hi \in Int
    BY <2>1
  <2>3. lo <= v.first /\ w.last <= hi
    BY <2>1
  <2> QED BY <1>1, <1>2, <2>2, <2>3
<1> DEFINE A == {x.first : x \in V}
           B == {x.last : x \in V}
<1>4. /\ lo \in A /\ \A y \in A : y \in Int /\ lo <= y
      /\ hi \in B /\ \A y \in B : y \in Int /\ y <= hi
  BY <1>3
<1> HIDE DEF A, B
<1>5. Min(A) = lo
  <2>1. lo \in A /\ \A y \in A : lo <= y
    BY <1>4
  <2>2. Min(A) \in A /\ \A y \in A : Min(A) <= y
    BY <2>1 DEF Min
  <2>3. Min(A) \in Int /\ Min(A) <= lo /\ lo <= Min(A) /\ lo \in Int
    BY <1>4, <2>2
  <2> QED BY <2>3
<1>6. Max(B) = hi
  <2>1. hi \in B /\ \A y \in B : hi >= y
    BY <1>4
  <2>2. Max(B) \in B /\ \A y \in B : Max(B) >= y
    BY <2>1 DEF Max
  <2>3. Max(B) \in Int /\ Max(B) <= hi /\ hi <= Max(B) /\ hi \in Int
    BY <1>4, <2>2
  <2> QED BY <2>3
<1> QED BY <1>5, <1>6 DEF A, B

NodeAt(log, x) == {log[i].ts : i \in {i \in 1 .. Len(log) : SeenNode(log, i, x)}}
EdgeAt(log, x) == {log[i].ts : i \in {i \in 1 .. Len(log) : SeenEdge(log, i, x)}}

LEMMA TimesOfUnion ==
    ASSUME NEW log, Events(log), NEW U, U # {},
           \A t \in U : \E i \in 1 .. Len(log) : t = log[i].ts
    PROVE  /\ \A t \in U : t \in Int
           /\ \E lo \in U, hi \in U : \A t \in U : lo <= t /\ t <= hi
<1>1. PICK n \in Nat : n = Len(log)
  BY DEF Events
<1>2. PICK f : f = [i \in 1 .. n |-> log[i].ts]
  OBVIOUS
<1>3. \A i \in 1 .. n : f[i] \in Int /\ f[i] = log[i].ts
  BY <1>1, <1>2 DEF Events, IsEvent
<1>4. \A t \in U : t \in Int /\ \E i \in 1 .. n : t = f[i]
  BY <1>1, <1>3
<1>5. TimesUpTo(f, n) /\ SomeOf(U, f, n)
  BY <1>3, <1>4 DEF TimesUpTo, SomeOf
<1>6. Limited(U)
  BY <1>5, TimesBounded
<1> QED BY <1>4, <1>6 DEF Limited

\* The logs W are events of the log.
PartsOf(W, log) == \A w \in W : /\ Events(w)
                                /\ \A i \in 1 .. Len(w) : \E j \in 1 .. Len(log) :
                                      w[i].ts = log[j].ts

LEMMA NodesSpanned ==
    ASSUME NEW log, Events(log), NEW W,
           PartsOf(W, log),
           NEW x
    PROVE  Spanned(Lives({CorrelatedLog(w).nodes : w \in W}, OfPid), x,
                   UNION {NodeAt(w, x) : w \in W})
<1> DEFINE G == {CorrelatedLog(w).nodes : w \in W}
           l == Lives(G, OfPid)
           U == UNION {NodeAt(w, x) : w \in W}
           V == UNION {{m[k] : k \in {k \in DOMAIN m : OfPid(k) = x}} : m \in G}
           D == UNION {{OfPid(k) : k \in DOMAIN m} : m \in G}
<1>0. \A w \in W : Events(w) /\ \A i \in 1 .. Len(w) : \E j \in 1 .. Len(log) :
                                    w[i].ts = log[j].ts
  BY DEF PartsOf
<1>1. DOMAIN l = D
  BY DEF Lives
<1>2. x \in D => l[x] = [first |-> Min({v.first : v \in V}), last |-> Max({v.last : v \in V})]
  BY DEF Lives
<1>3. ASSUME NEW w \in W, NEW k, NEW t
      PROVE <<k, t>> \in NodeTimes(w, Len(w)) =>
               /\ OfPid(k) = x => t \in U
               /\ t \in Int
  <2>0. Events(w) /\ Len(w) \in Nat
    BY <1>0 DEF Events
  <2>1. <<k, t>> \in NodeTimes(w, Len(w)) <=>
           \E i \in 1 .. Len(w) : k \in SeesAt(w, i).nodes /\ t = w[i].ts
    BY <2>0, TimesStep
  <2>2. ASSUME NEW i \in 1 .. Len(w), k \in SeesAt(w, i).nodes, t = w[i].ts
        PROVE (OfPid(k) = x => t \in U) /\ t \in Int
    <3>1. OfPid(k) = x => t \in NodeAt(w, x)
      BY <2>2 DEF NodeAt, SeenNode
    <3> QED BY <2>0, <2>2, <3>1 DEF Events, IsEvent
  <2> QED BY <2>1, <2>2
<1>4. ASSUME NEW m \in G, NEW k \in DOMAIN m, OfPid(k) = x
      PROVE m[k].first \in U /\ m[k].last \in U
  <2>1. PICK w \in W : m = CorrelatedLog(w).nodes
    OBVIOUS
  <2>2. Records(m, NodeTimes(w, Len(w)))
    BY <1>0, <2>1, CorrelatedRecords
  <2> HIDE DEF U, G
  <2> QED BY <1>3, <1>4, <2>2 DEF Records
<1>5. ASSUME NEW t \in U
      PROVE \E m \in G : \E k \in DOMAIN m : OfPid(k) = x /\ m[k].first <= t /\ t <= m[k].last
  <2>1. PICK w \in W : t \in NodeAt(w, x)
    OBVIOUS
  <2>2. PICK i \in 1 .. Len(w) : SeenNode(w, i, x) /\ t = w[i].ts
    BY <2>1 DEF NodeAt
  <2>3. PICK k \in SeesAt(w, i).nodes : OfPid(k) = x
    BY <2>2 DEF SeenNode
  <2>4. <<k, t>> \in NodeTimes(w, Len(w))
    BY <1>0, <2>2, TimesStep DEF Events
  <2>5. PICK m : m = CorrelatedLog(w).nodes
    OBVIOUS
  <2>6. m \in G /\ Records(m, NodeTimes(w, Len(w)))
    BY <1>0, <2>5, CorrelatedRecords
  <2> HIDE DEF G
  <2> QED BY <2>3, <2>4, <2>6 DEF Records
<1>6. \A t \in U : \E i \in 1 .. Len(log) : t = log[i].ts
  BY <1>0 DEF NodeAt
<1>7. x \in D <=> U # {}
  <2>1. x \in D <=> \E m \in G : \E k \in DOMAIN m : OfPid(k) = x
    <3> HIDE DEF G
    <3> QED OBVIOUS
  <2> HIDE DEF G, D, U
  <2> QED BY <1>4, <1>5, <2>1
<1>8. ASSUME U # {}
      PROVE /\ \A t \in U : t \in Int /\ l[x].first <= t /\ t <= l[x].last
            /\ l[x].first \in U /\ l[x].last \in U
            /\ l[x] = [first |-> l[x].first, last |-> l[x].last]
  <2>1. /\ \A t \in U : t \in Int
        /\ \E lo \in U, hi \in U : \A t \in U : lo <= t /\ t <= hi
    <3> HIDE DEF U
    <3> QED BY <1>6, <1>8, TimesOfUnion
  <2>2. PICK lo \in U, hi \in U : \A t \in U : lo <= t /\ t <= hi
    BY <2>1
  <2>3. \A v \in V : v.first \in U /\ v.last \in U
    <3> HIDE DEF G, U
    <3> QED BY <1>4
  <2>4. \A t \in U : \E v \in V : v.first <= t /\ t <= v.last
    <3> HIDE DEF G, U
    <3> QED BY <1>5
  <2>5. Min({v.first : v \in V}) = lo /\ Max({v.last : v \in V}) = hi
    <3> HIDE DEF U, V
    <3> QED BY <2>1, <2>2, <2>3, <2>4, EndsOfSpans
  <2>6. l[x] = [first |-> lo, last |-> hi]
    BY <1>2, <1>7, <1>8, <2>5
  <2> HIDE DEF U, l, V
  <2> QED BY <2>1, <2>2, <2>6
<1> HIDE DEF U, l, D
<1>9. Spanned(l, x, U)
  BY <1>1, <1>7, <1>8 DEF Spanned
<1> QED BY <1>9 DEF U, l

LEMMA EdgesSpanned ==
    ASSUME NEW log, Events(log), NEW W,
           PartsOf(W, log),
           NEW x
    PROVE  Spanned(Lives({CorrelatedLog(w).edges : w \in W}, Ends), x,
                   UNION {EdgeAt(w, x) : w \in W})
<1> DEFINE G == {CorrelatedLog(w).edges : w \in W}
           l == Lives(G, Ends)
           U == UNION {EdgeAt(w, x) : w \in W}
           V == UNION {{m[k] : k \in {k \in DOMAIN m : Ends(k) = x}} : m \in G}
           D == UNION {{Ends(k) : k \in DOMAIN m} : m \in G}
<1>0. \A w \in W : Events(w) /\ \A i \in 1 .. Len(w) : \E j \in 1 .. Len(log) :
                                    w[i].ts = log[j].ts
  BY DEF PartsOf
<1>1. DOMAIN l = D
  BY DEF Lives
<1>2. x \in D => l[x] = [first |-> Min({v.first : v \in V}), last |-> Max({v.last : v \in V})]
  BY DEF Lives
<1>3. ASSUME NEW w \in W, NEW k, NEW t
      PROVE <<k, t>> \in EdgeTimes(w, Len(w)) =>
               /\ Ends(k) = x => t \in U
               /\ t \in Int
  <2>0. Events(w) /\ Len(w) \in Nat
    BY <1>0 DEF Events
  <2>1. <<k, t>> \in EdgeTimes(w, Len(w)) <=>
           \E i \in 1 .. Len(w) : k \in SeesAt(w, i).edges /\ t = w[i].ts
    BY <2>0, TimesStep
  <2>2. ASSUME NEW i \in 1 .. Len(w), k \in SeesAt(w, i).edges, t = w[i].ts
        PROVE (Ends(k) = x => t \in U) /\ t \in Int
    <3>1. Ends(k) = x => t \in EdgeAt(w, x)
      BY <2>2 DEF EdgeAt, SeenEdge
    <3> QED BY <2>0, <2>2, <3>1 DEF Events, IsEvent
  <2> QED BY <2>1, <2>2
<1>4. ASSUME NEW m \in G, NEW k \in DOMAIN m, Ends(k) = x
      PROVE m[k].first \in U /\ m[k].last \in U
  <2>1. PICK w \in W : m = CorrelatedLog(w).edges
    OBVIOUS
  <2>2. Records(m, EdgeTimes(w, Len(w)))
    BY <1>0, <2>1, CorrelatedRecords
  <2> HIDE DEF U, G
  <2> QED BY <1>3, <1>4, <2>2 DEF Records
<1>5. ASSUME NEW t \in U
      PROVE \E m \in G : \E k \in DOMAIN m : Ends(k) = x /\ m[k].first <= t /\ t <= m[k].last
  <2>1. PICK w \in W : t \in EdgeAt(w, x)
    OBVIOUS
  <2>2. PICK i \in 1 .. Len(w) : SeenEdge(w, i, x) /\ t = w[i].ts
    BY <2>1 DEF EdgeAt
  <2>3. PICK k \in SeesAt(w, i).edges : Ends(k) = x
    BY <2>2 DEF SeenEdge
  <2>4. <<k, t>> \in EdgeTimes(w, Len(w))
    BY <1>0, <2>2, TimesStep DEF Events
  <2>5. PICK m : m = CorrelatedLog(w).edges
    OBVIOUS
  <2>6. m \in G /\ Records(m, EdgeTimes(w, Len(w)))
    BY <1>0, <2>5, CorrelatedRecords
  <2> HIDE DEF G
  <2> QED BY <2>3, <2>4, <2>6 DEF Records
<1>6. \A t \in U : \E i \in 1 .. Len(log) : t = log[i].ts
  BY <1>0 DEF EdgeAt
<1>7. x \in D <=> U # {}
  <2>1. x \in D <=> \E m \in G : \E k \in DOMAIN m : Ends(k) = x
    <3> HIDE DEF G
    <3> QED OBVIOUS
  <2> HIDE DEF G, D, U
  <2> QED BY <1>4, <1>5, <2>1
<1>8. ASSUME U # {}
      PROVE /\ \A t \in U : t \in Int /\ l[x].first <= t /\ t <= l[x].last
            /\ l[x].first \in U /\ l[x].last \in U
            /\ l[x] = [first |-> l[x].first, last |-> l[x].last]
  <2>1. /\ \A t \in U : t \in Int
        /\ \E lo \in U, hi \in U : \A t \in U : lo <= t /\ t <= hi
    <3> HIDE DEF U
    <3> QED BY <1>6, <1>8, TimesOfUnion
  <2>2. PICK lo \in U, hi \in U : \A t \in U : lo <= t /\ t <= hi
    BY <2>1
  <2>3. \A v \in V : v.first \in U /\ v.last \in U
    <3> HIDE DEF G, U
    <3> QED BY <1>4
  <2>4. \A t \in U : \E v \in V : v.first <= t /\ t <= v.last
    <3> HIDE DEF G, U
    <3> QED BY <1>5
  <2>5. Min({v.first : v \in V}) = lo /\ Max({v.last : v \in V}) = hi
    <3> HIDE DEF U, V
    <3> QED BY <2>1, <2>2, <2>3, <2>4, EndsOfSpans
  <2>6. l[x] = [first |-> lo, last |-> hi]
    BY <1>2, <1>7, <1>8, <2>5
  <2> HIDE DEF U, l, V
  <2> QED BY <2>1, <2>2, <2>6
<1> HIDE DEF U, l, D
<1>9. Spanned(l, x, U)
  BY <1>1, <1>7, <1>8 DEF Spanned
<1> QED BY <1>9 DEF U, l

\* w is a part of log, from its event off + 1 on.
IsPart(w, log, off) ==
    /\ off \in Nat /\ Len(w) + off <= Len(log)
    /\ \A j \in 1 .. Len(w) : w[j] = log[off + j]

LEMMA PartAlike ==
    ASSUME NEW log, Events(log), NEW w, Events(w), NEW off, IsPart(w, log, off),
           NEW j \in 1 .. Len(w), NEW i, i = off + j
    PROVE  /\ i \in 1 .. Len(log) /\ w[j] = log[i]
           /\ Alike(SeesAt(log, i), SeesAt(w, j), Passes(log)[i - 1].live)
           /\ DOMAIN Passes(log)[i - 1].live = BoundBy(log, i - 1)
<1>2. /\ j \in Nat /\ off \in Nat /\ Len(w) \in Nat /\ Len(log) \in Nat /\ i \in 1 .. Len(log)
      /\ i - 1 \in 0 .. Len(log) /\ j - 1 \in 0 .. Len(w) /\ w[j] = log[i]
  BY DEF IsPart, Events
<1>3. PassedWell(log, i - 1) /\ PassedWell(w, j - 1)
  BY <1>2, PassesRecord
<1>4. BindingSeen(log, i - 1) /\ BindingSeen(w, j - 1)
  BY <1>2, BindingsSeen
<1>5. PICK c, d : c = Passes(log)[i - 1] /\ d = Passes(w)[j - 1]
  OBVIOUS
<1>6. BoundBy(w, j - 1) \subseteq BoundBy(log, i - 1)
  <2>1. ASSUME NEW k \in 1 .. j - 1 PROVE off + k \in 1 .. i - 1 /\ w[k] = log[off + k]
    BY <1>2 DEF IsPart
  <2> QED BY <2>1 DEF BoundBy
<1>7. /\ NamedLive(c.live) /\ NamedLive(d.live) /\ DOMAIN d.live \subseteq DOMAIN c.live
      /\ DOMAIN c.live = BoundBy(log, i - 1)
  BY <1>3, <1>4, <1>5, <1>6 DEF PassedWell, BindingSeen
<1>8. Alike(EventSees(c.live, c.addr, log[i]), EventSees(d.live, d.addr, log[i]), c.live)
  BY <1>7, EventAlike
<1>9. /\ SeesAt(log, i) = EventSees(c.live, c.addr, log[i])
      /\ SeesAt(w, j) = EventSees(d.live, d.addr, log[i])
  BY <1>2, <1>5 DEF SeesAt
<1> QED BY <1>2, <1>5, <1>7, <1>8, <1>9

\* What the parts show of something, against what the whole log shows.
LEMMA PartShows ==
    ASSUME NEW log, Events(log), NEW w, Events(w), NEW off, IsPart(w, log, off),
           NEW j \in 1 .. Len(w), NEW i, i = off + j, NEW x
    PROVE  /\ SeenNode(log, i, x) =>
                \/ SeenNode(w, j, x)
                \/ \E y \in SeesAt(log, i).edges : y[3] = "LateralMovement" /\ Ends(y)[1] = x
           /\ SeenNode(w, j, x) =>
                \/ SeenNode(log, i, x)
                \/ \E y \in SeesAt(w, j).edges : y[3] = "LateralMovement" /\ Ends(y)[1] = x
                \/ x[1] = "Process" /\ NodeAt(log, x) # {}
           /\ SeenEdge(log, i, x) /\ x[3] # "LateralMovement" => SeenEdge(w, j, x)
           /\ SeenEdge(w, j, x) /\ x[3] # "LateralMovement" =>
                \/ SeenEdge(log, i, x)
                \/ x[3] = "Started" /\ EdgeAt(log, x) # {}
<1> DEFINE lv == Passes(log)[i - 1].live
<1>1. /\ i \in 1 .. Len(log) /\ w[j] = log[i]
      /\ Alike(SeesAt(log, i), SeesAt(w, j), lv) /\ DOMAIN lv = BoundBy(log, i - 1)
  BY PartAlike
<1>2. ASSUME NEW s \in DOMAIN lv
      PROVE  NodeAt(log, ProcOf(s)) # {} /\ EdgeAt(log, StartOf(s)) # {}
  <2>1. i - 1 \in 0 .. Len(log) /\ Len(log) \in Nat
    BY <1>1 DEF Events
  <2>2. BindingSeen(log, i - 1)
    BY <2>1, BindingsSeen
  <2>3. PICK k \in 1 .. i - 1 : SeenNode(log, k, ProcOf(s)) /\ SeenEdge(log, k, StartOf(s))
    BY <1>1, <2>2 DEF BindingSeen
  <2>4. k \in 1 .. Len(log)
    BY <2>1, <2>3
  <2> QED BY <2>3, <2>4 DEF NodeAt, EdgeAt
<1>3. \A y : Ends(y)[3] = y[3]
  BY DEF Ends
<1>4. \A s : ProcOf(s)[1] = "Process" /\ StartOf(s)[3] = "Started"
  BY DEF ProcOf, StartOf
<1> HIDE DEF lv
<1>5. SeenNode(log, i, x) =>
        \/ SeenNode(w, j, x)
        \/ \E y \in SeesAt(log, i).edges : y[3] = "LateralMovement" /\ Ends(y)[1] = x
  BY <1>1 DEF SeenNode, Alike
<1>6. SeenNode(w, j, x) =>
        \/ SeenNode(log, i, x)
        \/ \E y \in SeesAt(w, j).edges : y[3] = "LateralMovement" /\ Ends(y)[1] = x
        \/ x[1] = "Process" /\ NodeAt(log, x) # {}
  BY <1>1, <1>2, <1>4 DEF SeenNode, Alike
<1>7. SeenEdge(log, i, x) /\ x[3] # "LateralMovement" => SeenEdge(w, j, x)
  BY <1>1, <1>3 DEF SeenEdge, Alike
<1>8. SeenEdge(w, j, x) /\ x[3] # "LateralMovement" =>
        \/ SeenEdge(log, i, x)
        \/ x[3] = "Started" /\ EdgeAt(log, x) # {}
  BY <1>1, <1>2, <1>3, <1>4 DEF SeenEdge, Alike
<1> QED BY <1>5, <1>6, <1>7, <1>8

\* The remote logons of the log start at the hosts moved.
MovesIn(log, moved) == \A i \in 1 .. Len(log) : \A y \in SeesAt(log, i).edges :
                          y[3] = "LateralMovement" => Ends(y)[1] \in moved

\* A time at which the whole log shows x is one at which a part shows it, and the other
\* way round, but for what SplitKeepsGraph excepts.
KeptTimes(log, parts, moved, x) ==
    LET U == NodeAt(log, x)
        V == UNION {NodeAt(w, x) : w \in parts}
        E == EdgeAt(log, x)
        F == UNION {EdgeAt(w, x) : w \in parts}
    IN /\ x \notin moved => /\ U \subseteq V
                            /\ U = {} => V = {}
                            /\ x[1] # "Process" => U = V
       /\ x[3] # "LateralMovement" => /\ E \subseteq F
                                      /\ E = {} => F = {}
                                      /\ x[3] # "Started" => E = F

LEMMA TimesKept ==
    ASSUME NEW log, Events(log), NEW a, Events(a), NEW b, Events(b),
           IsPart(a, log, 0), IsPart(b, log, Len(a)), Len(log) = Len(a) + Len(b),
           NEW moved, NEW x,
           MovesIn(log, moved), MovesIn(a, moved), MovesIn(b, moved)
    PROVE  KeptTimes(log, {a, b}, moved, x)
<1> DEFINE U == NodeAt(log, x)
           V == UNION {NodeAt(w, x) : w \in {a, b}}
           E == EdgeAt(log, x)
           F == UNION {EdgeAt(w, x) : w \in {a, b}}
<1>0. Len(a) \in Nat /\ Len(b) \in Nat /\ Len(log) \in Nat
  BY DEF Events
<1>moves. /\ \A i \in 1 .. Len(log) : \A y \in SeesAt(log, i).edges :
            y[3] = "LateralMovement" => Ends(y)[1] \in moved
      /\ \A w \in {a, b} : \A i \in 1 .. Len(w) : \A y \in SeesAt(w, i).edges :
            y[3] = "LateralMovement" => Ends(y)[1] \in moved
  BY DEF MovesIn
\* Each event of the log is one of a part, and each of a part is one of the log.
<1>1. ASSUME NEW i \in 1 .. Len(log)
      PROVE  \E w \in {a, b} : \E j \in 1 .. Len(w) : \E off :
                IsPart(w, log, off) /\ i = off + j
  <2>1. CASE i <= Len(a)
    <3>1. i \in 1 .. Len(a) /\ i = 0 + i
      BY <1>0, <2>1
    <3> QED BY <3>1
  <2>2. CASE ~(i <= Len(a))
    <3>1. i - Len(a) \in 1 .. Len(b) /\ i = Len(a) + (i - Len(a))
      BY <1>0, <2>2
    <3> QED BY <3>1
  <2> QED BY <2>1, <2>2
<1>2. ASSUME NEW w \in {a, b}, NEW j \in 1 .. Len(w)
      PROVE  \E i \in 1 .. Len(log) : \E off : IsPart(w, log, off) /\ i = off + j
  <2>1. CASE w = a
    <3>1. j \in 1 .. Len(log) /\ j = 0 + j
      BY <1>0, <2>1
    <3> QED BY <2>1, <3>1
  <2>2. CASE w = b
    <3>1. Len(a) + j \in 1 .. Len(log)
      BY <1>0, <2>2
    <3> QED BY <2>2, <3>1
  <2> QED BY <2>1, <2>2
<1>3. ASSUME NEW i \in 1 .. Len(log), NEW w \in {a, b}, NEW j \in 1 .. Len(w), NEW off,
             IsPart(w, log, off), i = off + j
      PROVE  /\ w[j].ts = log[i].ts
             /\ x \notin moved => /\ SeenNode(log, i, x) => SeenNode(w, j, x)
                                  /\ SeenNode(w, j, x) =>
                                       SeenNode(log, i, x) \/ (x[1] = "Process" /\ U # {})
             /\ x[3] # "LateralMovement" =>
                   /\ SeenEdge(log, i, x) => SeenEdge(w, j, x)
                   /\ SeenEdge(w, j, x) =>
                        SeenEdge(log, i, x) \/ (x[3] = "Started" /\ E # {})
  <2>1. Events(w)
    OBVIOUS
  <2>2. w[j] = log[i]
    BY <1>3, <2>1, PartAlike
  <2>3. /\ SeenNode(log, i, x) =>
             \/ SeenNode(w, j, x)
             \/ \E y \in SeesAt(log, i).edges : y[3] = "LateralMovement" /\ Ends(y)[1] = x
        /\ SeenNode(w, j, x) =>
             \/ SeenNode(log, i, x)
             \/ \E y \in SeesAt(w, j).edges : y[3] = "LateralMovement" /\ Ends(y)[1] = x
             \/ x[1] = "Process" /\ NodeAt(log, x) # {}
        /\ SeenEdge(log, i, x) /\ x[3] # "LateralMovement" => SeenEdge(w, j, x)
        /\ SeenEdge(w, j, x) /\ x[3] # "LateralMovement" =>
             \/ SeenEdge(log, i, x)
             \/ x[3] = "Started" /\ EdgeAt(log, x) # {}
    BY <1>3, <2>1, PartShows
  <2>4. /\ ~\E y \in SeesAt(log, i).edges :
               y[3] = "LateralMovement" /\ Ends(y)[1] = x /\ x \notin moved
        /\ ~\E y \in SeesAt(w, j).edges :
               y[3] = "LateralMovement" /\ Ends(y)[1] = x /\ x \notin moved
    BY <1>moves
  <2> QED BY <2>2, <2>3, <2>4
<1>4. ASSUME x \notin moved
      PROVE  /\ U \subseteq V
             /\ \A t \in V : t \in U \/ (x[1] = "Process" /\ U # {})
  <2>1. ASSUME NEW t \in U PROVE t \in V
    <3>1. PICK i \in 1 .. Len(log) : SeenNode(log, i, x) /\ t = log[i].ts
      BY DEF NodeAt
    <3>2. PICK w \in {a, b} : \E j \in 1 .. Len(w) : \E off :
                 IsPart(w, log, off) /\ i = off + j
      BY <1>1
    <3>3. PICK j \in 1 .. Len(w) : \E off : IsPart(w, log, off) /\ i = off + j
      BY <3>2
    <3>4. SeenNode(w, j, x) /\ w[j].ts = t
      BY <1>3, <1>4, <3>1, <3>3
    <3> QED BY <3>4 DEF NodeAt
  <2>2. ASSUME NEW t \in V PROVE t \in U \/ (x[1] = "Process" /\ U # {})
    <3>1. PICK w \in {a, b} : t \in NodeAt(w, x)
      OBVIOUS
    <3>2. PICK j \in 1 .. Len(w) : SeenNode(w, j, x) /\ t = w[j].ts
      BY <3>1 DEF NodeAt
    <3>3. PICK i \in 1 .. Len(log) : \E off : IsPart(w, log, off) /\ i = off + j
      BY <1>2
    <3>4. log[i].ts = t /\ (SeenNode(log, i, x) \/ (x[1] = "Process" /\ U # {}))
      BY <1>3, <1>4, <3>2, <3>3
    <3> QED BY <3>4 DEF NodeAt
  <2> QED BY <2>1, <2>2
<1>5. ASSUME x[3] # "LateralMovement"
      PROVE  /\ E \subseteq F
             /\ \A t \in F : t \in E \/ (x[3] = "Started" /\ E # {})
  <2>1. ASSUME NEW t \in E PROVE t \in F
    <3>1. PICK i \in 1 .. Len(log) : SeenEdge(log, i, x) /\ t = log[i].ts
      BY DEF EdgeAt
    <3>2. PICK w \in {a, b} : \E j \in 1 .. Len(w) : \E off :
                 IsPart(w, log, off) /\ i = off + j
      BY <1>1
    <3>3. PICK j \in 1 .. Len(w) : \E off : IsPart(w, log, off) /\ i = off + j
      BY <3>2
    <3>4. SeenEdge(w, j, x) /\ w[j].ts = t
      BY <1>3, <1>5, <3>1, <3>3
    <3> QED BY <3>4 DEF EdgeAt
  <2>2. ASSUME NEW t \in F PROVE t \in E \/ (x[3] = "Started" /\ E # {})
    <3>1. PICK w \in {a, b} : t \in EdgeAt(w, x)
      OBVIOUS
    <3>2. PICK j \in 1 .. Len(w) : SeenEdge(w, j, x) /\ t = w[j].ts
      BY <3>1 DEF EdgeAt
    <3>3. PICK i \in 1 .. Len(log) : \E off : IsPart(w, log, off) /\ i = off + j
      BY <1>2
    <3>4. log[i].ts = t /\ (SeenEdge(log, i, x) \/ (x[3] = "Started" /\ E # {}))
      BY <1>3, <1>5, <3>2, <3>3
    <3> QED BY <3>4 DEF EdgeAt
  <2> QED BY <2>1, <2>2
<1> HIDE DEF U, V, E, F
<1>6. /\ x \notin moved => /\ U \subseteq V
                           /\ U = {} => V = {}
                           /\ x[1] # "Process" => U = V
      /\ x[3] # "LateralMovement" => /\ E \subseteq F
                                     /\ E = {} => F = {}
                                     /\ x[3] # "Started" => E = F
  BY <1>4, <1>5
<1> QED BY <1>6 DEF U, V, E, F, KeptTimes

\* What SplitKeepsGraph says of the log and its cut after event n.
KeptByCut(log, n, N, E) ==
    LET parts  == {CorrelatedLog(SubSeq(log, 1, n)),
                   CorrelatedLog(SubSeq(log, n + 1, Len(log)))}
        whole  == Lives({N}, OfPid)
        halves == Lives({g.nodes : g \in parts}, OfPid)
        joined == Lives({E}, Ends)
        split  == Lives({g.edges : g \in parts}, Ends)
        moves  == {e \in DOMAIN joined \cup DOMAIN split : e[3] = "LateralMovement"}
        movers == {e[1] : e \in moves}
    IN /\ DOMAIN halves \ movers = DOMAIN whole \ movers
       /\ \A k \in DOMAIN whole \ movers :
             IF k[1] = "Process" THEN Covers(halves[k], whole[k])
                                 ELSE halves[k] = whole[k]
       /\ DOMAIN split \ moves = DOMAIN joined \ moves
       /\ \A e \in DOMAIN joined \ moves :
             IF e[3] = "Started" THEN Covers(split[e], joined[e])
                                 ELSE split[e] = joined[e]

LEMMA CutKept ==
    ASSUME NEW log \in Seq(Event), NEW n \in 1 .. Len(log) - 1, NEW N, NEW E,
           CorrelatedLog(log) = [nodes |-> N, edges |-> E]
    PROVE  KeptByCut(log, n, N, E)
<1> DEFINE parts  == {CorrelatedLog(SubSeq(log, 1, n)),
                      CorrelatedLog(SubSeq(log, n + 1, Len(log)))}
           whole  == Lives({N}, OfPid)
           halves == Lives({g.nodes : g \in parts}, OfPid)
           joined == Lives({E}, Ends)
           split  == Lives({g.edges : g \in parts}, Ends)
           moves  == {e \in DOMAIN joined \cup DOMAIN split : e[3] = "LateralMovement"}
           movers == {e[1] : e \in moves}
<1>1. PICK a, b : a = SubSeq(log, 1, n) /\ b = SubSeq(log, n + 1, Len(log))
  OBVIOUS
<1>2. /\ a \in Seq(Event) /\ Len(a) = n /\ \A i \in 1 .. n : a[i] = log[i]
      /\ b \in Seq(Event) /\ Len(b) = Len(log) - n
      /\ \A i \in 1 .. Len(log) - n : b[i] = log[n + i]
      /\ Len(log) \in Nat /\ n \in Nat
  <2>1. /\ 1 \in Int /\ n \in Int /\ n + 1 \in Int /\ Len(log) \in Int /\ 1 <= n
        /\ n + 1 <= Len(log) /\ Len(log) \in Nat /\ n \in Nat
        /\ \A i \in 1 .. n : log[i] \in Event
        /\ \A i \in n + 1 .. Len(log) : log[i] \in Event
    OBVIOUS
  <2>2. /\ a \in Seq(Event)
        /\ Len(a) = IF 1 <= n THEN n - 1 + 1 ELSE 0
        /\ \A i \in 1 .. n - 1 + 1 : a[i] = log[1 + i - 1]
    BY <1>1, <2>1, SubSeqProperties
  <2>3. /\ b \in Seq(Event)
        /\ Len(b) = IF n + 1 <= Len(log) THEN Len(log) - (n + 1) + 1 ELSE 0
        /\ \A i \in 1 .. Len(log) - (n + 1) + 1 : b[i] = log[n + 1 + i - 1]
    BY <1>1, <2>1, SubSeqProperties
  <2>4. n - 1 + 1 = n /\ Len(log) - (n + 1) + 1 = Len(log) - n
    BY <2>1
  <2>5. \A i \in 1 .. n : 1 + i - 1 = i
    BY <2>1
  <2>6. \A i \in 1 .. Len(log) - n : n + 1 + i - 1 = n + i
    BY <2>1
  <2> QED BY <2>1, <2>2, <2>3, <2>4, <2>5, <2>6
<1>3. Events(log) /\ Events(a) /\ Events(b)
  BY <1>2, BatchEvents
<1>4. IsPart(a, log, 0) /\ IsPart(b, log, Len(a)) /\ Len(log) = Len(a) + Len(b)
  BY <1>2 DEF IsPart
<1>5. /\ {N} = {CorrelatedLog(w).nodes : w \in {log}}
      /\ {E} = {CorrelatedLog(w).edges : w \in {log}}
  OBVIOUS
<1>6. /\ {g.nodes : g \in parts} = {CorrelatedLog(w).nodes : w \in {a, b}}
      /\ {g.edges : g \in parts} = {CorrelatedLog(w).edges : w \in {a, b}}
  BY <1>1
<1>7. PartsOf({log}, log) /\ PartsOf({a, b}, log)
  <2>1. \A i \in 1 .. Len(a) : \E j \in 1 .. Len(log) : a[i].ts = log[j].ts
    <3> SUFFICES ASSUME NEW i \in 1 .. Len(a)
                 PROVE  \E j \in 1 .. Len(log) : a[i].ts = log[j].ts
      OBVIOUS
    <3>1. i \in 1 .. n /\ i \in 1 .. Len(log)
      BY <1>2
    <3> QED BY <1>2, <3>1
  <2>2. \A i \in 1 .. Len(b) : \E j \in 1 .. Len(log) : b[i].ts = log[j].ts
    <3> SUFFICES ASSUME NEW i \in 1 .. Len(b)
                 PROVE  \E j \in 1 .. Len(log) : b[i].ts = log[j].ts
      OBVIOUS
    <3>1. i \in 1 .. Len(log) - n /\ n + i \in 1 .. Len(log)
      BY <1>2
    <3> QED BY <1>2, <3>1
  <2> QED BY <1>3, <2>1, <2>2 DEF PartsOf
<1>8. ASSUME NEW x
      PROVE  /\ Spanned(whole, x, NodeAt(log, x))
             /\ Spanned(joined, x, EdgeAt(log, x))
  <2>1. /\ NodeAt(log, x) = UNION {NodeAt(w, x) : w \in {log}}
        /\ EdgeAt(log, x) = UNION {EdgeAt(w, x) : w \in {log}}
    OBVIOUS
  <2>2. Spanned(Lives({CorrelatedLog(w).nodes : w \in {log}}, OfPid), x,
                UNION {NodeAt(w, x) : w \in {log}})
    BY <1>3, <1>7, NodesSpanned
  <2>3. Spanned(Lives({CorrelatedLog(w).edges : w \in {log}}, Ends), x,
                UNION {EdgeAt(w, x) : w \in {log}})
    BY <1>3, <1>7, EdgesSpanned
  <2> QED BY <1>5, <2>1, <2>2, <2>3
<1>9. ASSUME NEW x
      PROVE  /\ Spanned(halves, x, UNION {NodeAt(w, x) : w \in {a, b}})
             /\ Spanned(split, x, UNION {EdgeAt(w, x) : w \in {a, b}})
  <2>1. Spanned(Lives({CorrelatedLog(w).nodes : w \in {a, b}}, OfPid), x,
                UNION {NodeAt(w, x) : w \in {a, b}})
    BY <1>3, <1>7, NodesSpanned
  <2>2. Spanned(Lives({CorrelatedLog(w).edges : w \in {a, b}}, Ends), x,
                UNION {EdgeAt(w, x) : w \in {a, b}})
    BY <1>3, <1>7, EdgesSpanned
  <2> HIDE DEF parts
  <2> QED BY <1>6, <2>1, <2>2
<1> HIDE DEF whole, halves, joined, split
<1>10. MovesIn(log, movers)
  <2> SUFFICES ASSUME NEW i \in 1 .. Len(log), NEW y \in SeesAt(log, i).edges,
                      y[3] = "LateralMovement"
               PROVE  Ends(y)[1] \in movers
    BY DEF MovesIn
  <2>1. EdgeAt(log, Ends(y)) # {}
    BY DEF EdgeAt, SeenEdge
  <2>2. Ends(y) \in DOMAIN joined
    BY <1>8, <2>1 DEF Spanned
  <2>3. Ends(y)[3] = "LateralMovement"
    BY DEF Ends
  <2> QED BY <2>2, <2>3
<1>11. MovesIn(a, movers) /\ MovesIn(b, movers)
  <2> SUFFICES ASSUME NEW w \in {a, b}, NEW i \in 1 .. Len(w), NEW y \in SeesAt(w, i).edges,
                      y[3] = "LateralMovement"
               PROVE  Ends(y)[1] \in movers
    BY DEF MovesIn
  <2>1. EdgeAt(w, Ends(y)) # {}
    BY DEF EdgeAt, SeenEdge
  <2>2. UNION {EdgeAt(v, Ends(y)) : v \in {a, b}} # {}
    BY <2>1
  <2>3. Ends(y) \in DOMAIN split
    BY <1>9, <2>2 DEF Spanned
  <2>4. Ends(y)[3] = "LateralMovement"
    BY DEF Ends
  <2> QED BY <2>3, <2>4
<1>kept. ASSUME NEW x PROVE KeptTimes(log, {a, b}, movers, x)
  <2> HIDE DEF movers
  <2> QED BY <1>3, <1>4, <1>10, <1>11, TimesKept
<1>12. ASSUME NEW x, x \notin movers
       PROVE  /\ x \in DOMAIN halves <=> x \in DOMAIN whole
              /\ x \in DOMAIN whole => IF x[1] = "Process" THEN Covers(halves[x], whole[x])
                                                           ELSE halves[x] = whole[x]
  <2> DEFINE U == NodeAt(log, x)
             V == UNION {NodeAt(w, x) : w \in {a, b}}
  <2>1. U \subseteq V /\ (U = {} => V = {}) /\ (x[1] # "Process" => U = V)
    <3> HIDE DEF movers
    <3> QED BY <1>12, <1>kept DEF KeptTimes
  <2>2. Spanned(whole, x, U) /\ Spanned(halves, x, V)
    BY <1>8, <1>9
  <2> HIDE DEF U, V, movers
  <2>3. x \in DOMAIN halves <=> x \in DOMAIN whole
    BY <2>1, <2>2 DEF Spanned
  <2>4. x \in DOMAIN whole => Covers(halves[x], whole[x])
    BY <2>1, <2>2, SpannedCovers
  <2>5. x \in DOMAIN whole /\ x[1] # "Process" => halves[x] = whole[x]
    BY <2>1, <2>2, SpannedAlike
  <2> QED BY <2>3, <2>4, <2>5
<1>13. ASSUME NEW x, x[3] # "LateralMovement"
       PROVE  /\ x \in DOMAIN split <=> x \in DOMAIN joined
              /\ x \in DOMAIN joined => IF x[3] = "Started" THEN Covers(split[x], joined[x])
                                                            ELSE split[x] = joined[x]
  <2> DEFINE U == EdgeAt(log, x)
             V == UNION {EdgeAt(w, x) : w \in {a, b}}
  <2>1. x[3] # "LateralMovement" =>
          U \subseteq V /\ (U = {} => V = {}) /\ (x[3] # "Started" => U = V)
    <3> HIDE DEF movers
    <3> QED BY <1>kept DEF KeptTimes
  <2>2. Spanned(joined, x, U) /\ Spanned(split, x, V)
    BY <1>8, <1>9
  <2> HIDE DEF U, V, movers
  <2>3. x \in DOMAIN split <=> x \in DOMAIN joined
    BY <1>13, <2>1, <2>2 DEF Spanned
  <2>4. x \in DOMAIN joined => Covers(split[x], joined[x])
    BY <1>13, <2>1, <2>2, SpannedCovers
  <2>5. x \in DOMAIN joined /\ x[3] # "Started" => split[x] = joined[x]
    BY <1>13, <2>1, <2>2, SpannedAlike
  <2> QED BY <2>3, <2>4, <2>5
<1>14. /\ DOMAIN halves \ movers = DOMAIN whole \ movers
       /\ \A k \in DOMAIN whole \ movers :
             IF k[1] = "Process" THEN Covers(halves[k], whole[k])
                                 ELSE halves[k] = whole[k]
  <2> HIDE DEF movers
  <2> QED BY <1>12
<1>15. /\ DOMAIN split \ moves = DOMAIN joined \ moves
       /\ \A e \in DOMAIN joined \ moves :
             IF e[3] = "Started" THEN Covers(split[e], joined[e])
                                 ELSE split[e] = joined[e]
  BY <1>13
<1> QED BY <1>14, <1>15 DEF whole, halves, joined, split, KeptByCut

\* A log cut in two and ingested part by part shows the same things at the same times,
\* but for the instances of pids and the hosts behind remote logons (main.rs:165,
\* correlator.rs:39-238).
THEOREM SplitAlwaysKeepsGraph == Spec => []SplitKeepsGraph
<1>1. FoldInv => SplitKeepsGraph
  <2> SUFFICES ASSUME FoldInv, pass = "done" PROVE SplitKeepsGraph
    BY DEF SplitKeepsGraph
  <2>1. PICK b, N, E, m : b = batch /\ N = nodes /\ E = edges /\ m = Len(b)
    OBVIOUS
  <2>2. b \in Seq(Event) /\ pos = m /\ Graph = Passes(b)[m]
    BY <2>1 DEF FoldInv, IInv
  <2>3. PICK g : g = Passes(b)[m]
    OBVIOUS
  <2>4. N = g.nodes /\ E = g.edges
    BY <2>1, <2>2, <2>3, GraphFields
  <2>5. CorrelatedLog(b) = [nodes |-> N, edges |-> E]
    BY <2>1, <2>3, <2>4 DEF CorrelatedLog
  <2>6. \A n \in 1 .. Len(b) - 1 : KeptByCut(b, n, N, E)
    BY <2>2, <2>5, CutKept
  <2>7. \A n \in 1 .. Len(batch) - 1 : KeptByCut(batch, n, nodes, edges)
    BY <2>1, <2>6
  <2> HIDE DEF FoldInv
  <2> QED BY <2>7 DEF SplitKeepsGraph, KeptByCut
<1> QED BY <1>1, FoldInvariance, PTL
=============================================================================
