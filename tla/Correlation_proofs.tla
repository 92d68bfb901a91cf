------------------------- MODULE Correlation_proofs -------------------------
(***************************************************************************)
(* What is proved of one handler of the correlator, and of the passes over *)
(* a log as functions of the log: shared by the proofs about the           *)
(* correlator as a machine and those about an ingest.                      *)
(***************************************************************************)
EXTENDS Correlation, NatRecursion

\* A proper validity: what TypeOK asks of every node and edge.
Proper(v) == v \in Interval /\ v.first <= v.last /\ v.count > 0
AllProper(map) == \A k \in DOMAIN map : Proper(map[k])
Positive(bag) == \A k \in DOMAIN bag : bag[k] \in Nat \ {0}

\* The edge types whose source is looked up and not observed.
FromLive == {"Spawned", "ConnectedTo"}

Within(c) ==
    \A e \in DOMAIN c.edges :
        /\ Covers(c.nodes[e[2]], c.edges[e])
        /\ e[3] \notin FromLive => Covers(c.nodes[e[1]], c.edges[e])

LiveKnown(c) == \A s \in DOMAIN c.live : c.live[s] \in DOMAIN c.nodes

IsCorrelator(c) == {"nodes", "edges", "live", "addr"} \subseteq DOMAIN c

\* A graph every handler can extend.
Sound(c) == AllProper(c.nodes) /\ AllProper(c.edges) /\ Closed(c) /\ Within(c)

-----------------------------------------------------------------------------
LEMMA BagOfSet ==
    ASSUME NEW S
    PROVE  DOMAIN SetToBag(S) = S /\ Positive(SetToBag(S))
BY DEF SetToBag, Positive

LEMMA BagSum ==
    ASSUME NEW A, NEW B, Positive(A), Positive(B)
    PROVE  DOMAIN (A (+) B) = DOMAIN A \cup DOMAIN B /\ Positive(A (+) B)
BY DEF (+), Positive

\* Folding one event's observations widens what is there and keeps it proper.
LEMMA FoldedProper ==
    ASSUME NEW map, NEW seen, NEW ts \in Int, AllProper(map), Positive(seen)
    PROVE  /\ DOMAIN Folded(map, seen, ts) = DOMAIN map \cup DOMAIN seen
           /\ AllProper(Folded(map, seen, ts))
           /\ \A k \in DOMAIN map : Covers(Folded(map, seen, ts)[k], map[k])
           /\ \A k \in DOMAIN seen : /\ Folded(map, seen, ts)[k].first <= ts
                                     /\ ts <= Folded(map, seen, ts)[k].last
<1> DEFINE f == Folded(map, seen, ts)
<1>1. DOMAIN f = DOMAIN map \cup DOMAIN seen
  BY DEF Folded
<1>2. ASSUME NEW k \in DOMAIN f
      PROVE  /\ Proper(f[k])
             /\ k \in DOMAIN map => Covers(f[k], map[k])
             /\ k \in DOMAIN seen => f[k].first <= ts /\ ts <= f[k].last
  <2>1. CASE k \notin DOMAIN seen
    <3>1. k \in DOMAIN map /\ f[k] = map[k]
      BY <1>1, <2>1 DEF Folded
    <3> QED BY <2>1, <3>1 DEF AllProper, Proper, Covers, Interval
  <2>2. CASE k \in DOMAIN seen /\ k \in DOMAIN map
    <3>1. f[k] = Observe(map[k], ts, seen[k])
      BY <2>2 DEF Folded
    <3>2. Proper(map[k]) /\ seen[k] \in Nat \ {0}
      BY <2>2 DEF AllProper, Positive
    <3> QED BY <3>1, <3>2 DEF Observe, Proper, Covers, Interval, Earlier, Later
  <2>3. CASE k \in DOMAIN seen /\ k \notin DOMAIN map
    <3>1. f[k] = Observe(ValidityAt(ts), ts, seen[k] - 1)
      BY <2>3 DEF Folded
    <3>2. seen[k] \in Nat \ {0}
      BY <2>3 DEF Positive
    <3> QED BY <2>3, <3>1, <3>2 DEF Observe, ValidityAt, Proper, Covers, Interval, Earlier, Later
  <2> QED BY <1>1, <2>1, <2>2, <2>3
<1> QED BY <1>1, <1>2 DEF AllProper

\* Where an edge is new, or seen again, its ends are known; those it is observed
\* with cover it.
LEMMA EmitSound ==
    ASSUME NEW c, NEW ns, NEW es, NEW ts \in Int, IsCorrelator(c),
           Sound(c), Positive(ns), Positive(es),
           \A e \in DOMAIN es :
              /\ e[2] \in DOMAIN ns
              /\ e[1] \in DOMAIN ns \cup DOMAIN c.nodes
              /\ e[3] \notin FromLive => e[1] \in DOMAIN ns
    PROVE  LET d == Emit(c, ns, es, ts)
           IN /\ Sound(d)
              /\ DOMAIN d.nodes = DOMAIN c.nodes \cup DOMAIN ns
              /\ IsCorrelator(d)
              /\ d.live = c.live
<1> DEFINE d == Emit(c, ns, es, ts)
           N == Folded(c.nodes, ns, ts)
           E == Folded(c.edges, es, ts)
<1>1. d.nodes = N /\ d.edges = E /\ d.live = c.live /\ IsCorrelator(d)
  BY DEF Emit, IsCorrelator
<1>2. /\ DOMAIN N = DOMAIN c.nodes \cup DOMAIN ns
      /\ AllProper(N)
      /\ \A k \in DOMAIN c.nodes : Covers(N[k], c.nodes[k])
      /\ \A k \in DOMAIN ns : N[k].first <= ts /\ ts <= N[k].last
  BY FoldedProper DEF Sound
<1>3. DOMAIN E = DOMAIN c.edges \cup DOMAIN es /\ AllProper(E)
  BY FoldedProper DEF Sound
<1>4. Closed(d)
  BY <1>1, <1>2, <1>3 DEF Sound, Closed
<1>5. ASSUME NEW e \in DOMAIN E, NEW k \in DOMAIN N,
             e \in DOMAIN c.edges => k \in DOMAIN c.nodes /\ Covers(c.nodes[k], c.edges[e]),
             e \in DOMAIN es => k \in DOMAIN ns
      PROVE  Covers(N[k], E[e])
  <2>1. Proper(N[k]) /\ Proper(E[e])
    BY <1>2, <1>3 DEF AllProper
  <2>2. CASE e \notin DOMAIN es
    <3>1. e \in DOMAIN c.edges /\ E[e] = c.edges[e]
      BY <1>3, <2>2 DEF Folded
    <3>2. Proper(c.nodes[k]) /\ Proper(c.edges[e]) /\ Covers(N[k], c.nodes[k])
      BY <1>2, <1>5, <3>1 DEF Sound, AllProper
    <3> QED BY <1>5, <2>1, <3>1, <3>2 DEF Covers, Proper, Interval
  <2>3. CASE e \in DOMAIN es /\ e \in DOMAIN c.edges
    <3>1. E[e] = Observe(c.edges[e], ts, es[e])
      BY <2>3 DEF Folded
    <3>2. Proper(c.nodes[k]) /\ Proper(c.edges[e]) /\ Covers(N[k], c.nodes[k])
      BY <1>2, <1>5, <2>3 DEF Sound, AllProper
    <3>3. N[k].first <= ts /\ ts <= N[k].last
      BY <1>2, <1>5, <2>3
    <3> QED
      BY <1>5, <2>1, <2>3, <3>1, <3>2, <3>3
      DEF Covers, Proper, Interval, Observe, Earlier, Later
  <2>4. CASE e \in DOMAIN es /\ e \notin DOMAIN c.edges
    <3>1. E[e] = Observe(ValidityAt(ts), ts, es[e] - 1)
      BY <2>4 DEF Folded
    <3>2. N[k].first <= ts /\ ts <= N[k].last
      BY <1>2, <1>5, <2>4
    <3> QED BY <2>1, <3>1, <3>2 DEF Covers, Proper, Interval, Observe, ValidityAt, Earlier, Later
  <2> QED BY <2>2, <2>3, <2>4
<1>6. Within(d)
  <2> SUFFICES ASSUME NEW e \in DOMAIN E
               PROVE  /\ Covers(N[e[2]], E[e])
                      /\ e[3] \notin FromLive => Covers(N[e[1]], E[e])
    BY <1>1 DEF Within
  <2>1. e[1] \in DOMAIN N /\ e[2] \in DOMAIN N
    BY <1>1, <1>4 DEF Closed
  <2>2. e \in DOMAIN c.edges =>
          /\ e[1] \in DOMAIN c.nodes /\ e[2] \in DOMAIN c.nodes
          /\ Covers(c.nodes[e[2]], c.edges[e])
          /\ e[3] \notin FromLive => Covers(c.nodes[e[1]], c.edges[e])
    BY DEF Sound, Closed, Within
  <2>3. Covers(N[e[2]], E[e])
    BY <1>5, <2>1, <2>2
  <2>4. e[3] \notin FromLive => Covers(N[e[1]], E[e])
    BY <1>5, <2>1, <2>2
  <2> QED BY <2>3, <2>4
<1>7. Sound(d)
  BY <1>1, <1>2, <1>3, <1>4, <1>6 DEF Sound
<1> QED BY <1>1, <1>2, <1>7

-----------------------------------------------------------------------------
(***************************************************************************)
(* One lemma per handler: it keeps the graph sound and `live` known.       *)
(***************************************************************************)
Fit(c) == IsCorrelator(c) /\ Sound(c) /\ LiveKnown(c)

LEMMA OnceSound ==
    ASSUME NEW c, NEW ns, NEW es, NEW ts \in Int, Fit(c),
           \A e \in es :
              /\ e[2] \in ns
              /\ e[1] \in ns \cup DOMAIN c.nodes
              /\ e[3] \notin FromLive => e[1] \in ns
    PROVE  LET d == Once(ns, es, c, ts)
           IN /\ Fit(d)
              /\ DOMAIN d.nodes = DOMAIN c.nodes \cup ns
              /\ d.live = c.live
<1>1. /\ DOMAIN SetToBag(ns) = ns /\ Positive(SetToBag(ns))
      /\ DOMAIN SetToBag(es) = es /\ Positive(SetToBag(es))
  BY BagOfSet
<1> QED BY <1>1, EmitSound DEF Once, Fit, LiveKnown

\* Rebinding one slot to a known process keeps `live` known.
LEMMA RebindFit ==
    ASSUME NEW c, NEW slot, NEW p, NEW l, Fit(c),
           DOMAIN l = DOMAIN c.live \cup {slot},
           \A s \in DOMAIN l : l[s] = (IF s = slot THEN p ELSE c.live[s]),
           p \in DOMAIN c.nodes
    PROVE  Fit([c EXCEPT !.live = l])
<1> DEFINE d == [c EXCEPT !.live = l]
<1>1. d.nodes = c.nodes /\ d.edges = c.edges /\ d.live = l /\ IsCorrelator(d)
  BY DEF Fit, IsCorrelator
<1>2. Sound(d)
  BY <1>1 DEF Fit, Sound, Closed, Within
<1>3. LiveKnown(d)
  BY <1>1 DEF Fit, LiveKnown
<1> QED BY <1>1, <1>2, <1>3 DEF Fit

LEMMA ProcessFit ==
    ASSUME NEW c, NEW e, IsEvent(e), Fit(c)
    PROVE  Fit(ProcessEvent(c, e))
<1> DEFINE host   == Host(e.host)
           proc   == Launched(e.host, e.pid, e.ts)
           lv     == Bound(c.live, Slot(e.host, e.pid), proc)
           slot   == Slot(e.host, e.ppid)
           parent == Owner(lv, slot, Placeholder(e.host, e.ppid))
           exe    == Executable(ImageOf(e))
           ses    == Session(e.host, e.session)
           ns == {host, proc, exe} \cup Present(e.cmd, {Command(e.cmd)})
                   \cup PresentUser(e.user) \cup Present(e.session, {ses})
                   \cup Present(e.ppid, Created(lv, slot, parent))
           es == {<<host, proc, "Started">>, <<exe, proc, "Executed">>}
                   \cup Present(e.cmd, {<<proc, Command(e.cmd), "Used">>})
                   \cup {<<u, proc, "RanAs">> : u \in PresentUser(e.user)}
                   \cup Present(e.ppid, {<<parent, proc, "Spawned">>})
                   \cup Present(e.session, {<<ses, proc, "Owns">>, <<ses, host, "BelongsTo">>})
           d  == Once(ns, es, c, e.ts)
<1>0. e.ts \in Int
  BY DEF IsEvent
<1>1. CASE e.host = None
  BY <1>1 DEF ProcessEvent
<1>2. CASE e.host # None /\ e.pid = None
  <2>1. Fit(Once({host}, {}, c, e.ts))
    BY <1>0, OnceSound
  <2> QED BY <1>2, <2>1 DEF ProcessEvent
<1>3. CASE e.host # None /\ e.pid # None
  <2>1. e.ppid # None => parent \in ns \cup DOMAIN c.nodes
    <3>1. DOMAIN lv = DOMAIN c.live \cup {Slot(e.host, e.pid)}
          /\ \A s \in DOMAIN lv : lv[s] = proc \/ (s \in DOMAIN c.live /\ lv[s] = c.live[s])
      BY DEF Bound
    <3>2. CASE slot \in DOMAIN lv
      <4>1. parent = lv[slot]
        BY <3>2 DEF Owner
      <4> QED BY <3>1, <3>2, <4>1 DEF Fit, LiveKnown
    <3>3. CASE slot \notin DOMAIN lv
      <4>1. Created(lv, slot, parent) = {parent}
        BY <3>3 DEF Created
      <4> QED BY <4>1 DEF Present
    <3> QED BY <3>2, <3>3
  <2>2. ASSUME NEW x \in es
        PROVE  /\ x[2] \in ns
               /\ x[1] \in ns \cup DOMAIN c.nodes
               /\ x[3] \notin FromLive => x[1] \in ns
    <3>1. CASE x = <<host, proc, "Started">> \/ x = <<exe, proc, "Executed">>
      BY <3>1
    <3>2. CASE x \in Present(e.cmd, {<<proc, Command(e.cmd), "Used">>})
      BY <3>2 DEF Present
    <3>3. CASE x \in {<<u, proc, "RanAs">> : u \in PresentUser(e.user)}
      BY <3>3
    <3>4. CASE x \in Present(e.ppid, {<<parent, proc, "Spawned">>})
      BY <2>1, <3>4 DEF Present, FromLive
    <3>5. CASE x \in Present(e.session, {<<ses, proc, "Owns">>, <<ses, host, "BelongsTo">>})
      BY <3>5 DEF Present
    <3> QED BY <3>1, <3>2, <3>3, <3>4, <3>5
  <2>3. Fit(d) /\ DOMAIN d.nodes = DOMAIN c.nodes \cup ns /\ d.live = c.live
    <3> HIDE DEF ns, es
    <3> QED BY <1>0, <2>2, OnceSound
  <2>4. Fit([d EXCEPT !.live = lv])
    <3>1. proc \in DOMAIN d.nodes
      BY <2>3
    <3>2. DOMAIN lv = DOMAIN d.live \cup {Slot(e.host, e.pid)}
          /\ \A s \in DOMAIN lv :
                lv[s] = (IF s = Slot(e.host, e.pid) THEN proc ELSE d.live[s])
      BY <2>3 DEF Bound
    <3> QED BY <2>3, <3>1, <3>2, RebindFit
  <2>5. ProcessEvent(c, e) = [d EXCEPT !.live = lv]
    BY <1>3 DEF ProcessEvent
  <2> QED BY <2>4, <2>5
<1> QED BY <1>1, <1>2, <1>3

LEMMA NetworkFit ==
    ASSUME NEW c, NEW e, IsEvent(e), Fit(c)
    PROVE  Fit(NetworkEvent(c, e))
<1> DEFINE host  == Host(e.host)
           slot  == Slot(e.host, e.pid)
           loose == Unlaunched(e.host, e.pid)
           src   == IF e.pid = None THEN host ELSE Owner(c.live, slot, loose)
           new   == Present(e.pid, Created(c.live, slot, loose))
           ns    == {host, Ip(e.dst)} \cup new
           es    == {<<src, Ip(e.dst), "ConnectedTo">>}
                      \cup {<<host, p, "Started">> : p \in new}
           d     == Once(ns, es, c, e.ts)
<1>0. e.ts \in Int
  BY DEF IsEvent
<1>1. CASE e.host = None
  BY <1>1 DEF NetworkEvent
<1>2. CASE e.host # None /\ e.dst = None
  <2>1. Fit(Once({host}, {}, c, e.ts))
    BY <1>0, OnceSound
  <2> QED BY <1>2, <2>1 DEF NetworkEvent
<1>3. CASE e.host # None /\ e.dst # None
  <2>1. src \in ns \cup DOMAIN c.nodes
    BY DEF Owner, Created, Present, Fit, LiveKnown
  <2>2. \A x \in es : /\ x[2] \in ns
                      /\ x[1] \in ns \cup DOMAIN c.nodes
                      /\ x[3] \notin FromLive => x[1] \in ns
    BY <2>1 DEF FromLive
  <2>3. Fit(d) /\ DOMAIN d.nodes = DOMAIN c.nodes \cup ns /\ d.live = c.live
    <3> HIDE DEF ns, es
    <3> QED BY <1>0, <2>2, OnceSound
  <2>4. NetworkEvent(c, e) =
          [d EXCEPT !.live = IF e.pid = None THEN @ ELSE Bound(@, slot, src)]
    BY <1>3 DEF NetworkEvent
  <2>5. CASE e.pid = None
    <3>1. Fit([d EXCEPT !.live = d.live])
      <4>1. LET f == [d EXCEPT !.live = d.live]
            IN f.nodes = d.nodes /\ f.edges = d.edges /\ f.live = d.live /\ IsCorrelator(f)
        BY <2>3 DEF Fit, IsCorrelator
      <4> QED BY <2>3, <4>1 DEF Fit, Sound, Closed, Within, LiveKnown
    <3> QED BY <2>4, <2>5, <3>1
  <2>6. CASE e.pid # None
    <3>1. src \in DOMAIN d.nodes
      BY <2>1, <2>3
    <3> DEFINE l == Bound(d.live, slot, src)
    <3>2. /\ DOMAIN l = DOMAIN d.live \cup {slot}
          /\ \A s \in DOMAIN l : l[s] = (IF s = slot THEN src ELSE d.live[s])
      BY DEF Bound
    <3>3. Fit([d EXCEPT !.live = l])
      <4> HIDE DEF l, d, src, slot
      <4> QED BY <2>3, <3>1, <3>2, RebindFit
    <3> QED BY <2>4, <2>6, <3>3
  <2> QED BY <2>5, <2>6
<1> QED BY <1>1, <1>2, <1>3

LEMMA AuthFit ==
    ASSUME NEW c, NEW e, IsEvent(e), Fit(c)
    PROVE  Fit(AuthEvent(c, e))
<1> DEFINE host    == Host(e.host)
           logon   == <<User(e.user), host, IF e.ok THEN "LoggedInTo" ELSE "Authenticated">>
           sources == {<<"Host", c.addr[a]>> : a \in {e.src} \cap DOMAIN c.addr} \ {host}
           ns      == {host, User(e.user)} \cup sources
           es      == {logon} \cup {<<s, host, "LateralMovement">> : s \in sources}
<1>0. e.ts \in Int
  BY DEF IsEvent
<1>1. Fit(c) /\ Fit(Once({host}, {}, c, e.ts))
  BY <1>0, OnceSound
<1>2. \A x \in es : x[2] \in ns /\ x[1] \in ns
  OBVIOUS
<1>3. Fit(Once(ns, es, c, e.ts))
  <2> HIDE DEF ns, es
  <2> QED BY <1>0, <1>2, OnceSound
<1> QED BY <1>1, <1>3 DEF AuthEvent

LEMMA FileFit ==
    ASSUME NEW c, NEW e, IsEvent(e), Fit(c)
    PROVE  Fit(FileEvent(c, e))
<1> DEFINE host == Host(e.host)
           f    == File(e.host, e.path)
           es   == {<<host, f, e.change>>}
<1>0. e.ts \in Int
  BY DEF IsEvent
<1>1. Fit(c) /\ Fit(Once({host}, {}, c, e.ts))
  BY <1>0, OnceSound
<1>2. \A x \in es : x[2] \in {host, f} /\ x[1] \in {host, f}
  OBVIOUS
<1>3. Fit(Once({host, f}, es, c, e.ts))
  <2> HIDE DEF es
  <2> QED BY <1>0, <1>2, OnceSound
<1> QED BY <1>1, <1>3 DEF FileEvent

\* The same for observations that are bags.
LEMMA EmitFit ==
    ASSUME NEW c, NEW ns, NEW es, NEW ts \in Int, Fit(c), Positive(ns), Positive(es),
           \A e \in DOMAIN es : e[2] \in DOMAIN ns /\ e[1] \in DOMAIN ns
    PROVE  Fit(Emit(c, ns, es, ts))
BY EmitSound DEF Fit, LiveKnown

LEMMA AccountFit ==
    ASSUME NEW c, NEW e, IsEvent(e), Fit(c)
    PROVE  Fit(AccountEvent(c, e))
<1> DEFINE a  == PresentUser(e.actor)
           t  == PresentUser(e.user)
           ns == SetToBag(a) (+) SetToBag(t)
           E  == {<<x, y, "Modified">> : x \in a, y \in t} \ {<<x, x, "Modified">> : x \in a}
           es == SetToBag(E)
<1>0. e.ts \in Int
  BY DEF IsEvent
<1>1. DOMAIN ns = a \cup t /\ Positive(ns)
  <2> HIDE DEF a, t
  <2>1. /\ DOMAIN SetToBag(a) = a /\ Positive(SetToBag(a))
        /\ DOMAIN SetToBag(t) = t /\ Positive(SetToBag(t))
    BY BagOfSet
  <2> DEFINE A == SetToBag(a)
             B == SetToBag(t)
  <2> HIDE DEF A, B
  <2> QED BY <2>1, BagSum DEF A, B
<1>2. DOMAIN es = E /\ Positive(es)
  <2> HIDE DEF E
  <2> QED BY BagOfSet
<1>3. \A x \in E : x[1] \in a /\ x[2] \in t
  OBVIOUS
<1>4. Fit(Emit(c, ns, es, e.ts))
  <2> HIDE DEF ns, es, E, a, t
  <2> QED BY <1>0, <1>1, <1>2, <1>3, EmitFit
<1> QED BY <1>4 DEF AccountEvent

LEMMA GenericFit ==
    ASSUME NEW c, NEW e, IsEvent(e), Fit(c)
    PROVE  Fit(GenericEvent(c, e))
<1> DEFINE hosts == Present(e.host, {Host(e.host)})
           users == IF e.actor.name # None THEN PresentUser(e.actor) ELSE PresentUser(e.user)
           procs == IF e.host = None \/ e.pid = None THEN {}
                    ELSE {Launched(e.host, e.pid, e.ts)}
           exes  == IF procs = {} THEN {} ELSE Present(e.name, {Executable(e.name)})
           owner == IF users # {} THEN users ELSE procs
           privs == [p \in {Privilege(x) : x \in DOMAIN e.privs} |-> e.privs[p[2]]]
           used  == [u \in {<<o, p, "AcquiredPrivilege">> : o \in owner, p \in DOMAIN privs}
                       |-> privs[u[2]]]
           N  == hosts \cup users \cup procs \cup exes
           ns == SetToBag(N) (+) privs
           E  == {<<h, p, "Started">> : h \in hosts, p \in procs}
                   \cup {<<x, p, "Executed">> : x \in exes, p \in procs}
                   \cup {<<u, p, "RanAs">> : u \in users, p \in procs}
           es == SetToBag(E) (+) used
<1>0. e.ts \in Int
  BY DEF IsEvent
<1>1. Positive(privs)
  BY DEF IsEvent, Positive, Privilege
<1>2. Positive(used) /\ \A u \in DOMAIN used : u[1] \in N /\ u[2] \in DOMAIN privs
  <2>1. \A u \in DOMAIN used : u[1] \in owner /\ u[2] \in DOMAIN privs
    <3> HIDE DEF owner, privs
    <3> QED OBVIOUS
  <2>2. owner \subseteq N
    <3> HIDE DEF users, procs, hosts, exes
    <3> QED OBVIOUS
  <2>3. Positive(used)
    <3> HIDE DEF owner, privs
    <3> QED BY <1>1, <2>1 DEF Positive
  <2> HIDE DEF used, N, owner, privs
  <2> QED BY <2>1, <2>2, <2>3
<1>3. \A x \in E : x[1] \in N /\ x[2] \in N
  <2> HIDE DEF users, procs, hosts, exes
  <2> QED OBVIOUS
<1>4. DOMAIN ns = N \cup DOMAIN privs /\ Positive(ns)
  <2> HIDE DEF N, privs
  <2>1. DOMAIN SetToBag(N) = N /\ Positive(SetToBag(N))
    BY BagOfSet
  <2> QED BY <1>1, <2>1, BagSum
<1>5. DOMAIN es = E \cup DOMAIN used /\ Positive(es)
  <2> HIDE DEF E, used
  <2>1. DOMAIN SetToBag(E) = E /\ Positive(SetToBag(E))
    BY BagOfSet
  <2> QED BY <1>2, <2>1, BagSum
<1>6. Fit(Emit(c, ns, es, e.ts))
  <2> HIDE DEF ns, es, E, N, used, privs
  <2> QED BY <1>0, <1>2, <1>3, <1>4, <1>5, EmitFit
<1> QED BY <1>6 DEF GenericEvent

LEMMA CorrelatedFit ==
    ASSUME NEW c, NEW e, IsEvent(e), Fit(c)
    PROVE  Fit(Correlated(c, e))
BY ProcessFit, NetworkFit, AuthFit, FileFit, AccountFit, GenericFit DEF Correlated

-----------------------------------------------------------------------------
(***************************************************************************)
(* What an event is observed in, by the lookup maps, and that this is all  *)
(* a handler adds to the graph.                                            *)
(***************************************************************************)
Sees(ns, es) == [nodes |-> ns, edges |-> es]

ProcessSees(live, e) ==
    LET host   == Host(e.host)
        proc   == Launched(e.host, e.pid, e.ts)
        lv     == Bound(live, Slot(e.host, e.pid), proc)
        slot   == Slot(e.host, e.ppid)
        parent == Owner(lv, slot, Placeholder(e.host, e.ppid))
        exe    == Executable(ImageOf(e))
        ses    == Session(e.host, e.session)
    IN CASE e.host = None -> Sees({}, {})
         [] e.host # None /\ e.pid = None -> Sees({host}, {})
         [] OTHER -> Sees(
              {host, proc, exe} \cup Present(e.cmd, {Command(e.cmd)})
                \cup PresentUser(e.user) \cup Present(e.session, {ses})
                \cup Present(e.ppid, Created(lv, slot, parent)),
              {<<host, proc, "Started">>, <<exe, proc, "Executed">>}
                \cup Present(e.cmd, {<<proc, Command(e.cmd), "Used">>})
                \cup {<<u, proc, "RanAs">> : u \in PresentUser(e.user)}
                \cup Present(e.ppid, {<<parent, proc, "Spawned">>})
                \cup Present(e.session, {<<ses, proc, "Owns">>, <<ses, host, "BelongsTo">>}))

NetworkSees(live, e) ==
    LET host  == Host(e.host)
        slot  == Slot(e.host, e.pid)
        loose == Unlaunched(e.host, e.pid)
        src   == IF e.pid = None THEN host ELSE Owner(live, slot, loose)
        new   == Present(e.pid, Created(live, slot, loose))
    IN CASE e.host = None -> Sees({}, {})
         [] e.host # None /\ e.dst = None -> Sees({host}, {})
         [] OTHER -> Sees({host, Ip(e.dst)} \cup new,
                          {<<src, Ip(e.dst), "ConnectedTo">>}
                            \cup {<<host, p, "Started">> : p \in new})

\* The one host a remote logon may come from.
Sources(addr, e) == {<<"Host", addr[a]>> : a \in {e.src} \cap DOMAIN addr} \ {Host(e.host)}

AuthSees(addr, e) ==
    LET host  == Host(e.host)
        logon == <<User(e.user), host, IF e.ok THEN "LoggedInTo" ELSE "Authenticated">>
    IN CASE e.host = None -> Sees({}, {})
         [] e.host # None /\ e.user.name = None -> Sees({host}, {})
         [] OTHER -> Sees({host, User(e.user)} \cup Sources(addr, e),
                          {logon} \cup {<<s, host, "LateralMovement">> : s \in Sources(addr, e)})

\* The other handlers look nothing up: what they add to a new correlator they add to any.
OwnSees(e) ==
    LET d == Correlated(NewCorrelator, e) IN Sees(DOMAIN d.nodes, DOMAIN d.edges)

EventSees(live, addr, e) ==
    CASE e.class = "process" -> ProcessSees(live, e)
      [] e.class = "network" -> NetworkSees(live, e)
      [] e.class = "auth"    -> AuthSees(addr, e)
      [] OTHER               -> OwnSees(e)

\* The slots an event binds.
Binds(e) ==
    IF /\ e.host # None /\ e.pid # None
       /\ e.class = "process" \/ (e.class = "network" /\ e.dst # None)
    THEN {Slot(e.host, e.pid)} ELSE {}

\* A map after its keys S were observed at ts.
Grown(old, new, S, ts) ==
    /\ DOMAIN new = DOMAIN old \cup S
    /\ \A k \in DOMAIN old \ S : new[k] = old[k]
    /\ \A k \in S \cap DOMAIN old : /\ new[k].first = Earlier(old[k].first, ts)
                                    /\ new[k].last = Later(old[k].last, ts)
    /\ \A k \in S \ DOMAIN old : new[k].first = ts /\ new[k].last = ts

Shaped(c) == c = [nodes |-> c.nodes, edges |-> c.edges, live |-> c.live, addr |-> c.addr]

Emitted(c, d, s, ts) ==
    /\ Shaped(d)
    /\ Grown(c.nodes, d.nodes, s.nodes, ts)
    /\ Grown(c.edges, d.edges, s.edges, ts)
    /\ d.addr = c.addr

Rebound(old, new, e) ==
    /\ DOMAIN new = DOMAIN old \cup Binds(e)
    /\ \A s \in DOMAIN new :
          \/ s \in DOMAIN old /\ new[s] = old[s]
          \/ /\ s \in Binds(e)
             /\ new[s] \in {Launched(e.host, e.pid, e.ts), Unlaunched(e.host, e.pid)}

LEMMA FoldedGrown ==
    ASSUME NEW map, NEW seen, NEW ts \in Int
    PROVE  Grown(map, Folded(map, seen, ts), DOMAIN seen, ts)
BY DEF Grown, Folded, Observe, ValidityAt, Earlier, Later

LEMMA NothingGrown ==
    ASSUME NEW map, NEW ts
    PROVE  Grown(map, map, {}, ts)
BY DEF Grown

LEMMA EmitEmits ==
    ASSUME NEW c, NEW ns, NEW es, NEW ts \in Int, Shaped(c)
    PROVE  LET d == Emit(c, ns, es, ts)
           IN Emitted(c, d, Sees(DOMAIN ns, DOMAIN es), ts) /\ d.live = c.live
<1> DEFINE d == Emit(c, ns, es, ts)
<1>1. d = [nodes |-> Folded(c.nodes, ns, ts), edges |-> Folded(c.edges, es, ts),
           live |-> c.live, addr |-> c.addr]
  <2> DEFINE N == Folded(c.nodes, ns, ts)
             E == Folded(c.edges, es, ts)
  <2>1. d = [c EXCEPT !.nodes = N, !.edges = E]
    BY DEF Emit
  <2> HIDE DEF N, E
  <2>2. [c EXCEPT !.nodes = N, !.edges = E]
          = [nodes |-> N, edges |-> E, live |-> c.live, addr |-> c.addr]
    <3>1. DOMAIN c = {"nodes", "edges", "live", "addr"}
      BY DEF Shaped
    <3> DEFINE f == [c EXCEPT !.nodes = N, !.edges = E]
               r == [nodes |-> N, edges |-> E, live |-> c.live, addr |-> c.addr]
    <3>2. /\ f = [x \in DOMAIN f |-> f[x]]
          /\ r = [x \in DOMAIN r |-> r[x]]
      OBVIOUS
    <3>3. DOMAIN f = DOMAIN c /\ DOMAIN r = DOMAIN c
      BY <3>1
    <3>4. f.nodes = r.nodes /\ f.edges = r.edges /\ f.live = r.live /\ f.addr = r.addr
      BY <3>1
    <3>5. \A x \in DOMAIN c : f[x] = r[x]
      BY <3>1, <3>4
    <3> HIDE DEF f, r
    <3>6. f = r
      BY <3>2, <3>3, <3>5
    <3> QED BY <3>6 DEF f, r
  <2> QED BY <2>1, <2>2 DEF N, E
<1> HIDE DEF d
<1>2. Shaped(d) /\ d.addr = c.addr /\ d.live = c.live
      /\ d.nodes = Folded(c.nodes, ns, ts) /\ d.edges = Folded(c.edges, es, ts)
  BY <1>1 DEF Shaped
<1>3. Grown(c.nodes, d.nodes, DOMAIN ns, ts) /\ Grown(c.edges, d.edges, DOMAIN es, ts)
  BY <1>2, FoldedGrown
<1> QED BY <1>2, <1>3 DEF d, Emitted, Sees

LEMMA OnceEmits ==
    ASSUME NEW c, NEW ns, NEW es, NEW ts \in Int, Shaped(c)
    PROVE  LET d == Once(ns, es, c, ts)
           IN Emitted(c, d, Sees(ns, es), ts) /\ d.live = c.live
<1> DEFINE A == SetToBag(ns)
           B == SetToBag(es)
<1>1. DOMAIN A = ns /\ DOMAIN B = es
  BY BagOfSet
<1> HIDE DEF A, B
<1> QED BY <1>1, EmitEmits DEF Once, A, B

LEMMA NothingEmitted ==
    ASSUME NEW c, NEW ts, Shaped(c)
    PROVE  Emitted(c, c, Sees({}, {}), ts)
BY NothingGrown DEF Emitted, Sees

LEMMA RebindEmitted ==
    ASSUME NEW c, NEW d, NEW s, NEW ts, NEW l, Emitted(c, d, s, ts)
    PROVE  Emitted(c, [d EXCEPT !.live = l], s, ts) /\ [d EXCEPT !.live = l].live = l
<1> DEFINE f == [d EXCEPT !.live = l]
<1>1. f = [nodes |-> d.nodes, edges |-> d.edges, live |-> l, addr |-> d.addr]
  BY DEF Emitted, Shaped
<1> HIDE DEF f
<1>2. Shaped(f) /\ f.nodes = d.nodes /\ f.edges = d.edges /\ f.addr = d.addr /\ f.live = l
  BY <1>1 DEF Shaped
<1> QED BY <1>2 DEF Emitted, f

LEMMA ProcessEmits ==
    ASSUME NEW c, NEW e, Shaped(c), IsEvent(e), e.class = "process"
    PROVE  LET d == ProcessEvent(c, e)
           IN Emitted(c, d, ProcessSees(c.live, e), e.ts) /\ Rebound(c.live, d.live, e)
<1> DEFINE host   == Host(e.host)
           proc   == Launched(e.host, e.pid, e.ts)
           lv     == Bound(c.live, Slot(e.host, e.pid), proc)
           slot   == Slot(e.host, e.ppid)
           parent == Owner(lv, slot, Placeholder(e.host, e.ppid))
           exe    == Executable(ImageOf(e))
           ses    == Session(e.host, e.session)
           ns == {host, proc, exe} \cup Present(e.cmd, {Command(e.cmd)})
                   \cup PresentUser(e.user) \cup Present(e.session, {ses})
                   \cup Present(e.ppid, Created(lv, slot, parent))
           es == {<<host, proc, "Started">>, <<exe, proc, "Executed">>}
                   \cup Present(e.cmd, {<<proc, Command(e.cmd), "Used">>})
                   \cup {<<u, proc, "RanAs">> : u \in PresentUser(e.user)}
                   \cup Present(e.ppid, {<<parent, proc, "Spawned">>})
                   \cup Present(e.session, {<<ses, proc, "Owns">>, <<ses, host, "BelongsTo">>})
           d  == Once(ns, es, c, e.ts)
<1>0. e.ts \in Int
  BY DEF IsEvent
<1>1. CASE e.host = None
  <2>1. Binds(e) = {}
    BY <1>1 DEF Binds
  <2>2. ProcessEvent(c, e) = c /\ ProcessSees(c.live, e) = Sees({}, {})
    BY <1>1 DEF ProcessEvent, ProcessSees
  <2> QED BY <2>1, <2>2, NothingEmitted DEF Rebound
<1>2. CASE e.host # None /\ e.pid = None
  <2>1. Binds(e) = {}
    BY <1>2 DEF Binds
  <2>2. ProcessEvent(c, e) = Once({host}, {}, c, e.ts)
        /\ ProcessSees(c.live, e) = Sees({host}, {})
    BY <1>2 DEF ProcessEvent, ProcessSees
  <2> QED BY <1>0, <2>1, <2>2, OnceEmits DEF Rebound
<1>3. CASE e.host # None /\ e.pid # None
  <2>1. Binds(e) = {Slot(e.host, e.pid)}
    BY <1>3 DEF Binds
  <2>2. ProcessEvent(c, e) = [d EXCEPT !.live = lv] /\ ProcessSees(c.live, e) = Sees(ns, es)
    BY <1>3 DEF ProcessEvent, ProcessSees
  <2>3. Emitted(c, d, Sees(ns, es), e.ts)
    <3> HIDE DEF ns, es
    <3> QED BY <1>0, OnceEmits
  <2>4. Rebound(c.live, lv, e)
    BY <2>1 DEF Rebound, Bound
  <2> HIDE DEF d, ns, es, lv
  <2> QED BY <2>2, <2>3, <2>4, RebindEmitted
<1> QED BY <1>1, <1>2, <1>3

LEMMA NetworkEmits ==
    ASSUME NEW c, NEW e, Shaped(c), IsEvent(e), e.class = "network"
    PROVE  LET d == NetworkEvent(c, e)
           IN Emitted(c, d, NetworkSees(c.live, e), e.ts) /\ Rebound(c.live, d.live, e)
<1> DEFINE host  == Host(e.host)
           slot  == Slot(e.host, e.pid)
           loose == Unlaunched(e.host, e.pid)
           src   == IF e.pid = None THEN host ELSE Owner(c.live, slot, loose)
           new   == Present(e.pid, Created(c.live, slot, loose))
           ns    == {host, Ip(e.dst)} \cup new
           es    == {<<src, Ip(e.dst), "ConnectedTo">>}
                      \cup {<<host, p, "Started">> : p \in new}
           d     == Once(ns, es, c, e.ts)
           lv    == IF e.pid = None THEN d.live ELSE Bound(d.live, slot, src)
<1>0. e.ts \in Int
  BY DEF IsEvent
<1>1. CASE e.host = None
  <2>1. Binds(e) = {}
    BY <1>1 DEF Binds
  <2>2. NetworkEvent(c, e) = c /\ NetworkSees(c.live, e) = Sees({}, {})
    BY <1>1 DEF NetworkEvent, NetworkSees
  <2> QED BY <2>1, <2>2, NothingEmitted DEF Rebound
<1>2. CASE e.host # None /\ e.dst = None
  <2>1. Binds(e) = {}
    BY <1>2 DEF Binds
  <2>2. NetworkEvent(c, e) = Once({host}, {}, c, e.ts)
        /\ NetworkSees(c.live, e) = Sees({host}, {})
    BY <1>2 DEF NetworkEvent, NetworkSees
  <2> QED BY <1>0, <2>1, <2>2, OnceEmits DEF Rebound
<1>3. CASE e.host # None /\ e.dst # None
  <2>1. Binds(e) = IF e.pid = None THEN {} ELSE {slot}
    BY <1>3 DEF Binds
  <2>2. NetworkEvent(c, e) = [d EXCEPT !.live = IF e.pid = None THEN @ ELSE Bound(@, slot, src)]
        /\ NetworkSees(c.live, e) = Sees(ns, es)
    BY <1>3 DEF NetworkEvent, NetworkSees
  <2>3. Emitted(c, d, Sees(ns, es), e.ts) /\ d.live = c.live
    <3> HIDE DEF ns, es
    <3> QED BY <1>0, OnceEmits
  <2>4. [d EXCEPT !.live = IF e.pid = None THEN @ ELSE Bound(@, slot, src)]
          = [d EXCEPT !.live = lv]
    OBVIOUS
  <2>5. Rebound(c.live, lv, e)
    <3>1. CASE e.pid = None
      BY <2>1, <2>3, <3>1 DEF Rebound
    <3>2. CASE e.pid # None
      <4>1. lv = Bound(c.live, slot, src)
        BY <2>3, <3>2
      <4>2. slot \in DOMAIN c.live => src = c.live[slot]
        BY <3>2 DEF Owner
      <4>3. slot \notin DOMAIN c.live => src = loose
        BY <3>2 DEF Owner
      <4> HIDE DEF d, lv, src
      <4> QED BY <2>1, <3>2, <4>1, <4>2, <4>3 DEF Rebound, Bound
    <3> QED BY <3>1, <3>2
  <2>6. NetworkEvent(c, e) = [d EXCEPT !.live = lv]
    BY <2>2, <2>4
  <2> HIDE DEF d, ns, es, lv
  <2>7. /\ Emitted(c, [d EXCEPT !.live = lv], Sees(ns, es), e.ts)
        /\ [d EXCEPT !.live = lv].live = lv
    BY <2>3, RebindEmitted
  <2> QED BY <2>2, <2>5, <2>6, <2>7
<1> QED BY <1>1, <1>2, <1>3

LEMMA AuthEmits ==
    ASSUME NEW c, NEW e, Shaped(c), IsEvent(e)
    PROVE  LET d == AuthEvent(c, e)
           IN Emitted(c, d, AuthSees(c.addr, e), e.ts) /\ d.live = c.live
<1> DEFINE host    == Host(e.host)
           logon   == <<User(e.user), host, IF e.ok THEN "LoggedInTo" ELSE "Authenticated">>
           sources == {<<"Host", c.addr[a]>> : a \in {e.src} \cap DOMAIN c.addr} \ {host}
           ns      == {host, User(e.user)} \cup sources
           es      == {logon} \cup {<<s, host, "LateralMovement">> : s \in sources}
<1>0. e.ts \in Int
  BY DEF IsEvent
<1>1. CASE e.host = None
  BY <1>1, NothingEmitted DEF AuthEvent, AuthSees
<1>2. CASE e.host # None /\ e.user.name = None
  <2>1. AuthEvent(c, e) = Once({host}, {}, c, e.ts) /\ AuthSees(c.addr, e) = Sees({host}, {})
    BY <1>2 DEF AuthEvent, AuthSees
  <2> QED BY <1>0, <2>1, OnceEmits
<1>3. CASE e.host # None /\ e.user.name # None
  <2>1. AuthEvent(c, e) = Once(ns, es, c, e.ts) /\ AuthSees(c.addr, e) = Sees(ns, es)
    BY <1>3 DEF AuthEvent, AuthSees, Sources
  <2> HIDE DEF ns, es
  <2> QED BY <1>0, <2>1, OnceEmits
<1> QED BY <1>1, <1>2, <1>3

\* What the other handlers observe is the same whatever there is.
LEMMA OwnSame ==
    ASSUME NEW e, IsEvent(e), e.class \notin {"process", "network", "auth"}
    PROVE  \E s : \A c : Shaped(c) => /\ Emitted(c, Correlated(c, e), s, e.ts)
                                      /\ Correlated(c, e).live = c.live
<1>0. e.ts \in Int
  BY DEF IsEvent
<1>1. CASE e.class = "file"
  <2> DEFINE host == Host(e.host)
             f    == File(e.host, e.path)
             es   == {<<host, f, e.change>>}
  <2>1. \A c : Correlated(c, e) = FileEvent(c, e)
    BY <1>1 DEF Correlated
  <2>2. CASE e.host = None
    <3>1. \A c : FileEvent(c, e) = c
      BY <2>2 DEF FileEvent
    <3> QED BY <2>1, <3>1, NothingEmitted
  <2>3. CASE e.host # None /\ e.path = None
    <3>1. \A c : FileEvent(c, e) = Once({host}, {}, c, e.ts)
      BY <2>3 DEF FileEvent
    <3> QED BY <1>0, <2>1, <3>1, OnceEmits
  <2>4. CASE e.host # None /\ e.path # None
    <3>1. \A c : FileEvent(c, e) = Once({host, f}, es, c, e.ts)
      BY <2>4 DEF FileEvent
    <3> HIDE DEF es, host, f
    <3> QED BY <1>0, <2>1, <3>1, OnceEmits
  <2> QED BY <2>2, <2>3, <2>4
<1>2. CASE e.class = "account"
  <2> DEFINE a  == PresentUser(e.actor)
             t  == PresentUser(e.user)
             ns == SetToBag(a) (+) SetToBag(t)
             es == SetToBag({<<x, y, "Modified">> : x \in a, y \in t} \
                            {<<x, x, "Modified">> : x \in a})
  <2>1. \A c : Correlated(c, e) = Emit(c, ns, es, e.ts)
    BY <1>2 DEF Correlated, AccountEvent
  <2> HIDE DEF ns, es
  <2> QED BY <1>0, <2>1, EmitEmits
<1>3. CASE e.class \notin {"file", "account"}
  <2> DEFINE hosts == Present(e.host, {Host(e.host)})
             users == IF e.actor.name # None THEN PresentUser(e.actor) ELSE PresentUser(e.user)
             procs == IF e.host = None \/ e.pid = None THEN {}
                      ELSE {Launched(e.host, e.pid, e.ts)}
             exes  == IF procs = {} THEN {} ELSE Present(e.name, {Executable(e.name)})
             owner == IF users # {} THEN users ELSE procs
             privs == [p \in {Privilege(x) : x \in DOMAIN e.privs} |-> e.privs[p[2]]]
             used  == [u \in {<<o, p, "AcquiredPrivilege">> : o \in owner, p \in DOMAIN privs}
                         |-> privs[u[2]]]
             ns == SetToBag(hosts \cup users \cup procs \cup exes) (+) privs
             es == SetToBag({<<h, p, "Started">> : h \in hosts, p \in procs}
                             \cup {<<x, p, "Executed">> : x \in exes, p \in procs}
                             \cup {<<u, p, "RanAs">> : u \in users, p \in procs}) (+) used
  <2>1. \A c : Correlated(c, e) = Emit(c, ns, es, e.ts)
    BY <1>3 DEF Correlated, GenericEvent
  <2> HIDE DEF ns, es
  <2> QED BY <1>0, <2>1, EmitEmits
<1> QED BY <1>1, <1>2, <1>3

LEMMA OwnEmits ==
    ASSUME NEW c, NEW e, Shaped(c), IsEvent(e), e.class \notin {"process", "network", "auth"}
    PROVE  Emitted(c, Correlated(c, e), OwnSees(e), e.ts) /\ Correlated(c, e).live = c.live
<1>1. PICK s : \A d : Shaped(d) => /\ Emitted(d, Correlated(d, e), s, e.ts)
                                   /\ Correlated(d, e).live = d.live
  BY OwnSame
<1>2. Shaped(NewCorrelator) /\ DOMAIN NewCorrelator.nodes = {} /\ DOMAIN NewCorrelator.edges = {}
  BY DEF Shaped, NewCorrelator, NoObservations
<1>3. OwnSees(e).nodes = s.nodes /\ OwnSees(e).edges = s.edges
  BY <1>1, <1>2 DEF Emitted, Grown, OwnSees, Sees
<1> QED BY <1>1, <1>3 DEF Emitted

\* A handler widens what the event is observed in, and rebinds its slot.
LEMMA CorrelatedEmits ==
    ASSUME NEW c, NEW e, Shaped(c), IsEvent(e)
    PROVE  LET d == Correlated(c, e)
           IN Emitted(c, d, EventSees(c.live, c.addr, e), e.ts) /\ Rebound(c.live, d.live, e)
<1>1. CASE e.class = "process"
  BY <1>1, ProcessEmits DEF Correlated, EventSees
<1>2. CASE e.class = "network"
  BY <1>2, NetworkEmits DEF Correlated, EventSees
<1>3. CASE e.class = "auth"
  <2>1. Binds(e) = {}
    BY <1>3 DEF Binds
  <2> QED BY <1>3, <2>1, AuthEmits DEF Correlated, EventSees, Rebound
<1>4. CASE e.class \notin {"process", "network", "auth"}
  <2>1. Binds(e) = {}
    BY <1>4 DEF Binds
  <2>2. EventSees(c.live, c.addr, e) = OwnSees(e)
    BY <1>4 DEF EventSees
  <2> QED BY <1>4, <2>1, <2>2, OwnEmits DEF Rebound
<1> QED BY <1>1, <1>2, <1>3, <1>4

-----------------------------------------------------------------------------
(***************************************************************************)
(* The two passes over a log, event by event.                              *)
(***************************************************************************)
KnownUpTo(f, log, m) ==
    f = [n \in 0 .. m |-> IF n = 0 THEN NewCorrelator.addr ELSE Registered(f[n - 1], log[n])]

LEMMA KnownExists ==
    ASSUME NEW log, NEW m \in Nat
    PROVE  \E f : KnownUpTo(f, log, m)
<1> DEFINE T == {k \in Nat : \E f : KnownUpTo(f, log, k)}
<1>1. 0 \in T
  <2> DEFINE f == [n \in 0 .. 0 |-> NewCorrelator.addr]
  <2>1. f = [n \in 0 .. 0 |-> IF n = 0 THEN NewCorrelator.addr ELSE Registered(f[n - 1], log[n])]
    OBVIOUS
  <2> HIDE DEF f
  <2> QED BY <2>1 DEF KnownUpTo
<1>2. ASSUME NEW k \in T PROVE k + 1 \in T
  <2>1. PICK f : KnownUpTo(f, log, k)
    OBVIOUS
  <2> DEFINE g == [n \in 0 .. k + 1 |-> IF n \in 0 .. k THEN f[n]
                                        ELSE Registered(f[k], log[k + 1])]
             S(n) == IF n = 0 THEN NewCorrelator.addr ELSE Registered(g[n - 1], log[n])
  <2>2. ASSUME NEW n \in 0 .. k + 1 PROVE g[n] = S(n)
    <3>1. CASE n = 0
      BY <2>1, <3>1 DEF KnownUpTo
    <3>2. CASE n \in 1 .. k
      <4>1. n - 1 \in 0 .. k /\ n - 1 \in 0 .. k + 1 /\ n \in 0 .. k
        BY <3>2
      <4>2. g[n - 1] = f[n - 1] /\ g[n] = f[n]
        BY <4>1
      <4>3. f[n] = Registered(f[n - 1], log[n])
        BY <2>1, <3>2, <4>1 DEF KnownUpTo
      <4> QED BY <3>2, <4>2, <4>3
    <3>3. CASE n = k + 1
      <4>1. g[k] = f[k] /\ g[n] = Registered(f[k], log[k + 1]) /\ n # 0 /\ n - 1 = k
        BY <3>3
      <4> QED BY <3>3, <4>1
    <3> QED BY <3>1, <3>2, <3>3
  <2>3. g = [n \in 0 .. k + 1 |-> S(n)]
    BY <2>2
  <2>4. KnownUpTo(g, log, k + 1)
    <3> HIDE DEF g
    <3> QED BY <2>3 DEF KnownUpTo
  <2> QED BY <2>4
<1>3. T = Nat
  <2>1. T \in SUBSET Nat
    OBVIOUS
  <2> HIDE DEF T
  <2> QED BY <1>1, <1>2, <2>1, AllNat
<1> QED BY <1>3

\* A prefix of a log is known alike, whatever follows.
LEMMA KnownUnique ==
    ASSUME NEW a, NEW b, NEW m \in Nat, NEW n \in Nat, m <= n, NEW f, NEW g,
           KnownUpTo(f, a, m), KnownUpTo(g, b, n), \A i \in 1 .. m : a[i] = b[i]
    PROVE  \A i \in 0 .. m : f[i] = g[i]
<1> DEFINE T == {k \in Nat : k <= m => f[k] = g[k]}
<1>1. 0 \in T
  BY DEF KnownUpTo
<1>2. ASSUME NEW k \in T PROVE k + 1 \in T
  <2> SUFFICES ASSUME k + 1 <= m PROVE f[k + 1] = g[k + 1]
    OBVIOUS
  <2>1. /\ k + 1 \in 0 .. m /\ k + 1 \in 0 .. n /\ k + 1 # 0 /\ (k + 1) - 1 = k
        /\ f[k] = g[k] /\ a[k + 1] = b[k + 1]
    OBVIOUS
  <2>2. f[k + 1] = Registered(f[k], a[k + 1])
    BY <2>1 DEF KnownUpTo
  <2>3. g[k + 1] = Registered(g[k], b[k + 1])
    BY <2>1 DEF KnownUpTo
  <2> QED BY <2>1, <2>2, <2>3
<1>3. T = Nat
  <2>1. T \in SUBSET Nat
    OBVIOUS
  <2> HIDE DEF T
  <2> QED BY <1>1, <1>2, <2>1, AllNat
<1> QED BY <1>3

Known(log) == CHOOSE f : KnownUpTo(f, log, Len(log))

LEMMA KnownIs ==
    ASSUME NEW log, Len(log) \in Nat
    PROVE  KnownUpTo(Known(log), log, Len(log)) /\ AddressesOf(log) = Known(log)[Len(log)]
<1>1. KnownUpTo(Known(log), log, Len(log))
  BY KnownExists DEF Known
<1>2. AddressesOf(log) = Known(log)[Len(log)]
  BY DEF AddressesOf, Known, KnownUpTo
<1> QED BY <1>1, <1>2

\* The addresses of no events, and of one more event.
LEMMA AddressesStep ==
    ASSUME NEW S, NEW log \in Seq(S), NEW e \in S
    PROVE  /\ AddressesOf(<< >>) = NewCorrelator.addr
           /\ AddressesOf(Append(log, e)) = Registered(AddressesOf(log), e)
<1>1. AddressesOf(<< >>) = NewCorrelator.addr
  <2>1. Len(<< >>) = 0
    OBVIOUS
  <2>2. KnownUpTo(Known(<< >>), << >>, 0) /\ AddressesOf(<< >>) = Known(<< >>)[0]
    BY <2>1, KnownIs
  <2> QED BY <2>2 DEF KnownUpTo
<1>2. AddressesOf(Append(log, e)) = Registered(AddressesOf(log), e)
  <2>1. PICK m \in Nat : m = Len(log)
    OBVIOUS
  <2>2. PICK more : more = Append(log, e)
    OBVIOUS
  <2>3. Len(more) = m + 1 /\ more[m + 1] = e /\ \A i \in 1 .. m : log[i] = more[i]
    BY <2>1, <2>2
  <2>4. PICK f : KnownUpTo(f, log, m) /\ AddressesOf(log) = f[m]
    BY <2>1, KnownIs
  <2>5. PICK g : KnownUpTo(g, more, m + 1) /\ AddressesOf(more) = g[m + 1]
    BY <2>3, KnownIs
  <2>6. \A i \in 0 .. m : f[i] = g[i]
    BY <2>3, <2>4, <2>5, KnownUnique
  <2>7. m + 1 \in 0 .. m + 1 /\ m + 1 # 0 /\ (m + 1) - 1 = m /\ m \in 0 .. m
    OBVIOUS
  <2>8. g[m + 1] = Registered(g[m], more[m + 1])
    BY <2>5, <2>7 DEF KnownUpTo
  <2> QED BY <2>2, <2>3, <2>4, <2>5, <2>6, <2>7, <2>8
<1> QED BY <1>1, <1>2

PassedUpTo(f, log, m) ==
    f = [n \in 0 .. m |-> IF n = 0 THEN [NewCorrelator EXCEPT !.addr = AddressesOf(log)]
                          ELSE Correlated(f[n - 1], log[n])]

LEMMA PassedExists ==
    ASSUME NEW log, NEW m \in Nat
    PROVE  \E f : PassedUpTo(f, log, m)
<1> DEFINE T == {k \in Nat : \E f : PassedUpTo(f, log, k)}
           c0 == [NewCorrelator EXCEPT !.addr = AddressesOf(log)]
<1>1. 0 \in T
  <2> DEFINE f == [n \in 0 .. 0 |-> c0]
  <2>1. f = [n \in 0 .. 0 |-> IF n = 0 THEN c0 ELSE Correlated(f[n - 1], log[n])]
    OBVIOUS
  <2> HIDE DEF f
  <2> QED BY <2>1 DEF PassedUpTo
<1>2. ASSUME NEW k \in T PROVE k + 1 \in T
  <2>1. PICK f : PassedUpTo(f, log, k)
    OBVIOUS
  <2> DEFINE g == [n \in 0 .. k + 1 |-> IF n \in 0 .. k THEN f[n]
                                        ELSE Correlated(f[k], log[k + 1])]
             S(n) == IF n = 0 THEN c0 ELSE Correlated(g[n - 1], log[n])
  <2>2. ASSUME NEW n \in 0 .. k + 1 PROVE g[n] = S(n)
    <3>1. CASE n = 0
      BY <2>1, <3>1 DEF PassedUpTo
    <3>2. CASE n \in 1 .. k
      <4>1. n - 1 \in 0 .. k /\ n - 1 \in 0 .. k + 1 /\ n \in 0 .. k
        BY <3>2
      <4>2. g[n - 1] = f[n - 1] /\ g[n] = f[n]
        BY <4>1
      <4>3. f[n] = Correlated(f[n - 1], log[n])
        BY <2>1, <3>2, <4>1 DEF PassedUpTo
      <4> QED BY <3>2, <4>2, <4>3
    <3>3. CASE n = k + 1
      <4>1. g[k] = f[k] /\ g[n] = Correlated(f[k], log[k + 1]) /\ n # 0 /\ n - 1 = k
        BY <3>3
      <4> QED BY <3>3, <4>1
    <3> QED BY <3>1, <3>2, <3>3
  <2>3. g = [n \in 0 .. k + 1 |-> S(n)]
    BY <2>2
  <2>4. PassedUpTo(g, log, k + 1)
    <3> HIDE DEF g
    <3> QED BY <2>3 DEF PassedUpTo
  <2> QED BY <2>4
<1>3. T = Nat
  <2>1. T \in SUBSET Nat
    OBVIOUS
  <2> HIDE DEF T
  <2> QED BY <1>1, <1>2, <2>1, AllNat
<1> QED BY <1>3

\* What the second pass starts from, and each of its steps.
LEMMA PassesStep ==
    ASSUME NEW log, Len(log) \in Nat
    PROVE  /\ Passes(log)[0] = [NewCorrelator EXCEPT !.addr = AddressesOf(log)]
           /\ \A n \in 1 .. Len(log) : Passes(log)[n] = Correlated(Passes(log)[n - 1], log[n])
<1> DEFINE f == CHOOSE f : PassedUpTo(f, log, Len(log))
<1>1. PassedUpTo(f, log, Len(log))
  BY PassedExists
<1>2. Passes(log) = f
  BY DEF Passes, PassedUpTo
<1> HIDE DEF f
<1>3. f[0] = [NewCorrelator EXCEPT !.addr = AddressesOf(log)]
  BY <1>1 DEF PassedUpTo
<1>4. ASSUME NEW n \in 1 .. Len(log) PROVE f[n] = Correlated(f[n - 1], log[n])
  <2>1. n \in 0 .. Len(log) /\ n # 0
    OBVIOUS
  <2> QED BY <1>1, <2>1 DEF PassedUpTo
<1> QED BY <1>2, <1>3, <1>4

-----------------------------------------------------------------------------
(***************************************************************************)
(* A map holds of every key the earliest and the latest time it was seen.  *)
(***************************************************************************)
\* seen is a set of pairs <<key, time>>.
Records(map, seen) ==
    /\ \A k, t : <<k, t>> \in seen => /\ t \in Int /\ k \in DOMAIN map
                                      /\ map[k].first <= t /\ t <= map[k].last
    /\ \A k \in DOMAIN map : <<k, map[k].first>> \in seen /\ <<k, map[k].last>> \in seen

LEMMA RecordsGrow ==
    ASSUME NEW old, NEW new, NEW S, NEW ts \in Int, NEW seen, NEW more,
           Records(old, seen), Grown(old, new, S, ts),
           \A k, t : <<k, t>> \in more <=> <<k, t>> \in seen \/ (k \in S /\ t = ts)
    PROVE  Records(new, more)
<1>1. \A k \in DOMAIN old : /\ old[k].first \in Int /\ old[k].last \in Int
                            /\ old[k].first <= old[k].last
  BY DEF Records
<1>2. ASSUME NEW k, NEW t, <<k, t>> \in more
      PROVE  /\ t \in Int /\ k \in DOMAIN new
             /\ new[k].first <= t /\ t <= new[k].last
  <2>1. CASE k \notin S
    BY <1>2, <2>1 DEF Records, Grown
  <2>2. CASE k \in S /\ k \in DOMAIN old
    BY <1>1, <1>2, <2>2 DEF Records, Grown, Earlier, Later
  <2>3. CASE k \in S /\ k \notin DOMAIN old
    BY <1>2, <2>3 DEF Records, Grown
  <2> QED BY <2>1, <2>2, <2>3
<1>3. ASSUME NEW k \in DOMAIN new PROVE <<k, new[k].first>> \in more /\ <<k, new[k].last>> \in more
  <2>1. CASE k \notin S
    BY <2>1 DEF Records, Grown
  <2>2. CASE k \in S /\ k \in DOMAIN old
    BY <1>1, <2>2 DEF Records, Grown, Earlier, Later
  <2>3. CASE k \in S /\ k \notin DOMAIN old
    BY <2>3 DEF Grown
  <2> QED BY <2>1, <2>2, <2>3
<1> QED BY <1>2, <1>3 DEF Records

\* What event n of a log is observed in, and the times of all observations up to it.
SeesAt(log, n) == EventSees(Passes(log)[n - 1].live, Passes(log)[n - 1].addr, log[n])
NodeTimes(log, n) == UNION {{<<k, log[i].ts>> : k \in SeesAt(log, i).nodes} : i \in 1 .. n}
EdgeTimes(log, n) == UNION {{<<k, log[i].ts>> : k \in SeesAt(log, i).edges} : i \in 1 .. n}

LEMMA TimesStep ==
    ASSUME NEW log, NEW n \in Nat
    PROVE  /\ \A k, t : <<k, t>> \in NodeTimes(log, n) <=>
                  \E i \in 1 .. n : k \in SeesAt(log, i).nodes /\ t = log[i].ts
           /\ \A k, t : <<k, t>> \in EdgeTimes(log, n) <=>
                  \E i \in 1 .. n : k \in SeesAt(log, i).edges /\ t = log[i].ts
BY DEF NodeTimes, EdgeTimes

Events(log) == Len(log) \in Nat /\ \A i \in 1 .. Len(log) : IsEvent(log[i])

\* The slots bound by the first n events.
BoundBy(log, n) == UNION {Binds(log[i]) : i \in 1 .. n}

\* After n events the graph holds what was seen in them, and when.
PassedWell(log, n) ==
    /\ Shaped(Passes(log)[n])
    /\ Passes(log)[n].addr = AddressesOf(log)
    /\ DOMAIN Passes(log)[n].live = BoundBy(log, n)
    /\ Records(Passes(log)[n].nodes, NodeTimes(log, n))
    /\ Records(Passes(log)[n].edges, EdgeTimes(log, n))

LEMMA PassesRecord ==
    ASSUME NEW log, Events(log)
    PROVE  \A n \in 0 .. Len(log) : PassedWell(log, n)
<1> DEFINE T == {k \in Nat : k <= Len(log) => PassedWell(log, k)}
<1>1. 0 \in T
  <2>1. PICK c : c = [NewCorrelator EXCEPT !.addr = AddressesOf(log)]
    OBVIOUS
  <2>2. /\ c = [nodes |-> NoObservations, edges |-> NoObservations,
                live |-> NewCorrelator.live, addr |-> AddressesOf(log)]
        /\ DOMAIN NewCorrelator.live = {} /\ DOMAIN NoObservations = {}
    BY <2>1 DEF NewCorrelator, NoObservations
  <2>3. Passes(log)[0] = c
    BY <2>1, PassesStep DEF Events
  <2>4. NodeTimes(log, 0) = {} /\ EdgeTimes(log, 0) = {} /\ BoundBy(log, 0) = {}
    BY DEF NodeTimes, EdgeTimes, BoundBy
  <2>5. Records(NoObservations, {})
    BY <2>2 DEF Records
  <2>6. Shaped(c)
    BY <2>2 DEF Shaped
  <2>7. /\ c.nodes = NoObservations /\ c.edges = NoObservations
        /\ DOMAIN c.live = {} /\ c.addr = AddressesOf(log)
    BY <2>2
  <2>8. PassedWell(log, 0)
    BY <2>3, <2>4, <2>5, <2>6, <2>7 DEF PassedWell
  <2> QED BY <2>8
<1>2. ASSUME NEW k \in T PROVE k + 1 \in T
  <2> SUFFICES ASSUME k + 1 <= Len(log) PROVE PassedWell(log, k + 1)
    OBVIOUS
  <2>1. PICK n \in Nat : n = k + 1
    OBVIOUS
  <2>2. /\ k \in Nat /\ n \in 1 .. Len(log) /\ k = n - 1 /\ PassedWell(log, k)
        /\ \A i : i \in 1 .. n <=> i \in 1 .. k \/ i = n
    BY <2>1 DEF Events
  <2>3. PICK c : c = Passes(log)[k]
    OBVIOUS
  <2>4. PICK e : e = log[n]
    OBVIOUS
  <2>5. PICK d : d = Passes(log)[n]
    OBVIOUS
  <2>6. PICK s : s = SeesAt(log, n)
    OBVIOUS
  <2>7. d = Correlated(c, e) /\ IsEvent(e) /\ s = EventSees(c.live, c.addr, e) /\ e.ts \in Int
    BY <2>2, <2>3, <2>4, <2>5, <2>6, PassesStep DEF Events, SeesAt, IsEvent
  <2>8. /\ Shaped(c) /\ c.addr = AddressesOf(log) /\ DOMAIN c.live = BoundBy(log, k)
        /\ Records(c.nodes, NodeTimes(log, k)) /\ Records(c.edges, EdgeTimes(log, k))
    BY <2>2, <2>3 DEF PassedWell
  <2>9. Emitted(c, d, s, e.ts) /\ Rebound(c.live, d.live, e)
    BY <2>7, <2>8, CorrelatedEmits
  <2>10. Records(d.nodes, NodeTimes(log, n))
    <3>1. ASSUME NEW x, NEW t
          PROVE <<x, t>> \in NodeTimes(log, n) <=>
                  <<x, t>> \in NodeTimes(log, k) \/ (x \in s.nodes /\ t = e.ts)
      <4>1. <<x, t>> \in NodeTimes(log, n) <=>
              \E i \in 1 .. n : x \in SeesAt(log, i).nodes /\ t = log[i].ts
        BY TimesStep
      <4>2. <<x, t>> \in NodeTimes(log, k) <=>
              \E i \in 1 .. k : x \in SeesAt(log, i).nodes /\ t = log[i].ts
        BY TimesStep
      <4> QED BY <2>2, <2>4, <2>6, <4>1, <4>2
    <3> QED BY <2>7, <2>8, <2>9, <3>1, RecordsGrow DEF Emitted
  <2>11. Records(d.edges, EdgeTimes(log, n))
    <3>1. ASSUME NEW x, NEW t
          PROVE <<x, t>> \in EdgeTimes(log, n) <=>
                  <<x, t>> \in EdgeTimes(log, k) \/ (x \in s.edges /\ t = e.ts)
      <4>1. <<x, t>> \in EdgeTimes(log, n) <=>
              \E i \in 1 .. n : x \in SeesAt(log, i).edges /\ t = log[i].ts
        BY TimesStep
      <4>2. <<x, t>> \in EdgeTimes(log, k) <=>
              \E i \in 1 .. k : x \in SeesAt(log, i).edges /\ t = log[i].ts
        BY TimesStep
      <4> QED BY <2>2, <2>4, <2>6, <4>1, <4>2
    <3> QED BY <2>7, <2>8, <2>9, <3>1, RecordsGrow DEF Emitted
  <2>12. BoundBy(log, n) = BoundBy(log, k) \cup Binds(e)
    BY <2>2, <2>4 DEF BoundBy
  <2> QED BY <2>1, <2>5, <2>8, <2>9, <2>10, <2>11, <2>12 DEF PassedWell, Emitted, Rebound
<1>3. T = Nat
  <2>1. T \in SUBSET Nat
    OBVIOUS
  <2> HIDE DEF T
  <2> QED BY <1>1, <1>2, <2>1, AllNat
<1> QED BY <1>3 DEF Events

LEMMA CorrelatedRecords ==
    ASSUME NEW log, Events(log)
    PROVE  LET g == CorrelatedLog(log)
           IN /\ Records(g.nodes, NodeTimes(log, Len(log)))
              /\ Records(g.edges, EdgeTimes(log, Len(log)))
<1>1. PassedWell(log, Len(log))
  BY PassesRecord DEF Events
<1> QED BY <1>1 DEF PassedWell, CorrelatedLog

\* An event is in the life of every node that it is observed in.
LEMMA BuiltIsCovered ==
    ASSUME NEW log, Events(log), NEW n \in 1 .. Len(log), NEW k \in BuiltBy(log, n)
    PROVE  LET g == CorrelatedLog(log)
           IN /\ k \in DOMAIN g.nodes /\ log[n].ts \in Int
              /\ g.nodes[k].first <= log[n].ts /\ log[n].ts <= g.nodes[k].last
<1>1. Len(log) \in Nat /\ n - 1 \in 0 .. Len(log) /\ IsEvent(log[n])
  BY DEF Events
<1>2. PICK c : c = Passes(log)[n - 1]
  OBVIOUS
<1>3. Shaped(c)
  BY <1>1, <1>2, PassesRecord DEF PassedWell
<1>4. PICK b : b = [c EXCEPT !.nodes = NoObservations]
  OBVIOUS
<1>5. Shaped(b) /\ b.live = c.live /\ b.addr = c.addr /\ b.nodes = NoObservations
  BY <1>3, <1>4 DEF Shaped
<1>6. PICK d : d = Correlated(b, log[n])
  OBVIOUS
<1>7. Emitted(b, d, EventSees(b.live, b.addr, log[n]), log[n].ts)
  BY <1>1, <1>5, <1>6, CorrelatedEmits
<1>8. k \in DOMAIN d.nodes
  BY <1>2, <1>4, <1>6 DEF BuiltBy, Observed
<1>9. DOMAIN NoObservations = {}
  BY DEF NoObservations
<1>10. k \in SeesAt(log, n).nodes
  BY <1>2, <1>5, <1>7, <1>8, <1>9 DEF Emitted, Grown, SeesAt
<1>11. <<k, log[n].ts>> \in NodeTimes(log, Len(log))
  BY <1>1, <1>10, TimesStep
<1>12. PICK g : g = CorrelatedLog(log)
  OBVIOUS
<1>13. Records(g.nodes, NodeTimes(log, Len(log)))
  BY <1>12, CorrelatedRecords
<1> QED BY <1>11, <1>12, <1>13 DEF Records

\* All through the second pass the graph is sound.
LEMMA PassesFit ==
    ASSUME NEW log, Events(log)
    PROVE  \A n \in 0 .. Len(log) : Fit(Passes(log)[n])
<1> DEFINE T == {k \in Nat : k <= Len(log) => Fit(Passes(log)[k])}
<1>1. 0 \in T
  <2>1. PICK c : c = [NewCorrelator EXCEPT !.addr = AddressesOf(log)]
    OBVIOUS
  <2>2. Passes(log)[0] = c
    BY <2>1, PassesStep DEF Events
  <2>3. Fit(c)
    BY <2>1 DEF NewCorrelator, NoObservations, Fit, IsCorrelator, Sound, AllProper, Closed,
       Within, LiveKnown
  <2> QED BY <2>2, <2>3
<1>2. ASSUME NEW k \in T PROVE k + 1 \in T
  <2> SUFFICES ASSUME k + 1 <= Len(log) PROVE Fit(Passes(log)[k + 1])
    OBVIOUS
  <2>1. PICK n \in Nat : n = k + 1
    OBVIOUS
  <2>2. /\ n \in 1 .. Len(log) /\ k = n - 1 /\ Fit(Passes(log)[k]) /\ IsEvent(log[n])
        /\ Len(log) \in Nat
    BY <2>1 DEF Events
  <2>3. Passes(log)[n] = Correlated(Passes(log)[k], log[n])
    BY <2>2, PassesStep
  <2> QED BY <2>1, <2>2, <2>3, CorrelatedFit
<1>3. T = Nat
  <2>1. T \in SUBSET Nat
    OBVIOUS
  <2> HIDE DEF T
  <2> QED BY <1>1, <1>2, <2>1, AllNat
<1> QED BY <1>3 DEF Events
=============================================================================
