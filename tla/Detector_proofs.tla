--------------------------- MODULE Detector_proofs ---------------------------
(***************************************************************************)
(* Proofs about the detection engine on any log, in any input order, with  *)
(* any rules: threshold alerts are exactly the bursts, and chains fire on  *)
(* exactly the pairs they are about.                                       *)
(***************************************************************************)
EXTENDS Detector, FiniteSetTheorems, SequenceTheorems, NatRecursion, TLAPS

-----------------------------------------------------------------------------
(***************************************************************************)
(* Picked.                                                                 *)
(***************************************************************************)
\* f is how far the recursion of Picked(s, K) has come after m places.
PicksUpTo(f, s, K, m) ==
    f = [n \in 0 .. m |-> IF n = 0 THEN << >>
                          ELSE IF n \in K THEN Append(f[n - 1], s[n]) ELSE f[n - 1]]

LEMMA PicksExist ==
    ASSUME NEW s, NEW K, NEW m \in Nat PROVE \E f : PicksUpTo(f, s, K, m)
<1> DEFINE T == {k \in Nat : \E f : PicksUpTo(f, s, K, k)}
<1>1. 0 \in T
  <2> DEFINE f == [n \in 0 .. 0 |-> << >>]
  <2>1. f = [n \in 0 .. 0 |-> IF n = 0 THEN << >>
                             ELSE IF n \in K THEN Append(f[n - 1], s[n]) ELSE f[n - 1]]
    OBVIOUS
  <2> HIDE DEF f
  <2> QED BY <2>1 DEF PicksUpTo
<1>2. ASSUME NEW k \in T PROVE k + 1 \in T
  <2>1. PICK f : PicksUpTo(f, s, K, k)
    OBVIOUS
  <2> DEFINE Next1 == IF k + 1 \in K THEN Append(f[k], s[k + 1]) ELSE f[k]
             g == [n \in 0 .. k + 1 |-> IF n \in 0 .. k THEN f[n] ELSE Next1]
             h == [n \in 0 .. k + 1 |-> IF n = 0 THEN << >>
                             ELSE IF n \in K THEN Append(g[n - 1], s[n]) ELSE g[n - 1]]
  <2>2. \A n \in 0 .. k : f[n] = IF n = 0 THEN << >>
                             ELSE IF n \in K THEN Append(f[n - 1], s[n]) ELSE f[n - 1]
    <3> DEFINE ff == [n \in 0 .. k |-> IF n = 0 THEN << >>
                          ELSE IF n \in K THEN Append(f[n - 1], s[n]) ELSE f[n - 1]]
    <3>1. f = ff
      BY <2>1, Zenon DEF PicksUpTo
    <3>2. \A n \in 0 .. k : ff[n] = IF n = 0 THEN << >>
                             ELSE IF n \in K THEN Append(f[n - 1], s[n]) ELSE f[n - 1]
      OBVIOUS
    <3> HIDE DEF ff
    <3> QED BY <3>1, <3>2
  <2>3. ASSUME NEW n \in 0 .. k + 1 PROVE g[n] = h[n]
    <3>1. CASE n = k + 1
      <4>1. g[n] = Next1 /\ n # 0 /\ n - 1 = k /\ k \in 0 .. k
        BY <3>1
      <4>2. g[n - 1] = f[k]
        BY <4>1
      <4>3. h[n] = IF n \in K THEN Append(g[n - 1], s[n]) ELSE g[n - 1]
        BY <4>1
      <4> HIDE DEF g, h
      <4> QED BY <3>1, <4>1, <4>2, <4>3
    <3>2. CASE n \in 0 .. k
      <4>1. g[n] = f[n] /\ (n # 0 => n - 1 \in 0 .. k /\ g[n - 1] = f[n - 1])
        BY <3>2
      <4>2. h[n] = IF n = 0 THEN << >>
                   ELSE IF n \in K THEN Append(g[n - 1], s[n]) ELSE g[n - 1]
        OBVIOUS
      <4> HIDE DEF g, h
      <4> QED BY <2>2, <3>2, <4>1, <4>2
    <3> QED BY <3>1, <3>2
  <2>4. g = h
    BY <2>3
  <2> HIDE DEF g
  <2>5. PicksUpTo(g, s, K, k + 1)
    BY <2>4 DEF PicksUpTo
  <2> QED BY <2>5
<1>3. T = Nat
  <2>1. T \in SUBSET Nat
    OBVIOUS
  <2> HIDE DEF T
  <2> QED BY <1>1, <1>2, <2>1, AllNat
<1> QED BY <1>3

\* The elements of p stand in s at the places at, which are those of K up to n.
PickedAt(p, s, K, n, at) ==
    /\ at \in [1 .. Len(p) -> K \cap (1 .. n)]
    /\ \A m \in 1 .. Len(p) : p[m] = s[at[m]]
    /\ \A l, m \in 1 .. Len(p) : l < m => at[l] < at[m]
    /\ \A k \in K \cap (1 .. n) : \E m \in 1 .. Len(p) : at[m] = k

\* Picked keeps what stands at the places K, all of it, in its order.
LEMMA PickedFacts ==
    ASSUME NEW S, NEW s \in Seq(S), NEW K
    PROVE  /\ Picked(s, K) \in Seq(S)
           /\ \E at : PickedAt(Picked(s, K), s, K, Len(s), at)
<1> DEFINE kept == CHOOSE f : PicksUpTo(f, s, K, Len(s))
           Good(n) == /\ kept[n] \in Seq(S)
                      /\ \E at : PickedAt(kept[n], s, K, n, at)
           T == {n \in Nat : n <= Len(s) => Good(n)}
<1>1. Len(s) \in Nat
  OBVIOUS
<1>2. Picked(s, K) = kept[Len(s)]
  BY DEF Picked, PicksUpTo
<1>3. PicksUpTo(kept, s, K, Len(s))
  BY <1>1, PicksExist
<1> HIDE DEF kept
<1>4. \A n \in 0 .. Len(s) : kept[n] = IF n = 0 THEN << >>
                ELSE IF n \in K THEN Append(kept[n - 1], s[n]) ELSE kept[n - 1]
  <2> DEFINE ff == [n \in 0 .. Len(s) |-> IF n = 0 THEN << >>
                ELSE IF n \in K THEN Append(kept[n - 1], s[n]) ELSE kept[n - 1]]
  <2>1. kept = ff
    BY <1>3, Zenon DEF PicksUpTo
  <2>2. \A n \in 0 .. Len(s) : ff[n] = IF n = 0 THEN << >>
                ELSE IF n \in K THEN Append(kept[n - 1], s[n]) ELSE kept[n - 1]
    OBVIOUS
  <2> HIDE DEF ff
  <2> QED BY <2>1, <2>2
<1>5. 0 \in T
  <2>1. kept[0] = << >>
    BY <1>1, <1>4
  <2> DEFINE none == [m \in 1 .. 0 |-> 0]
  <2>2. Len(<< >>) = 0 /\ << >> \in Seq(S)
    BY EmptySeq
  <2>3. 1 .. 0 = {} /\ DOMAIN none = 1 .. 0
    OBVIOUS
  <2>4. PickedAt(<< >>, s, K, 0, none)
    BY <2>2, <2>3 DEF PickedAt
  <2> HIDE DEF none
  <2> QED BY <2>1, <2>2, <2>4
<1>6. ASSUME NEW n \in T PROVE n + 1 \in T
  <2> SUFFICES ASSUME n + 1 <= Len(s) PROVE Good(n + 1)
    OBVIOUS
  <2>1. n \in Nat /\ n \in 0 .. Len(s) /\ n + 1 \in 0 .. Len(s) /\ n + 1 # 0 /\ (n + 1) - 1 = n
    BY <1>1
  <2>2. kept[n] \in Seq(S)
    BY <2>1
  <2>3. PICK at : PickedAt(kept[n], s, K, n, at)
    BY <2>1
  <2>4. CASE n + 1 \notin K
    <3>1. kept[n + 1] = kept[n]
      BY <1>4, <2>1, <2>4
    <3>2. K \cap (1 .. n + 1) = K \cap (1 .. n)
      BY <2>1, <2>4
    <3>3. PickedAt(kept[n], s, K, n + 1, at)
      BY <2>3, <3>2 DEF PickedAt
    <3> QED BY <2>2, <3>1, <3>3
  <2>5. CASE n + 1 \in K
    <3> DEFINE p == kept[n]
               q == Append(p, s[n + 1])
               bt == [m \in 1 .. Len(p) + 1 |-> IF m \in 1 .. Len(p) THEN at[m] ELSE n + 1]
    <3>1. kept[n + 1] = q
      BY <1>4, <2>1, <2>5
    <3>2. s[n + 1] \in S
      BY <2>1
    <3>3. p \in Seq(S) /\ Len(p) \in Nat
      BY <2>2
    <3> HIDE DEF p
    <3>4. /\ q \in Seq(S)
          /\ Len(q) = Len(p) + 1
          /\ \A i \in 1 .. Len(p) : q[i] = p[i]
          /\ q[Len(p) + 1] = s[n + 1]
      BY <3>2, <3>3, AppendProperties
    <3>5. PickedAt(p, s, K, n, at)
      BY <2>3 DEF p
    <3> HIDE DEF q
    <3>6. /\ \A m \in 1 .. Len(p) : bt[m] = at[m] /\ at[m] \in K /\ at[m] \in 1 .. n
          /\ bt[Len(p) + 1] = n + 1
      BY <2>1, <3>3, <3>5 DEF PickedAt
    <3>13. bt \in [1 .. Len(p) + 1 -> K \cap (1 .. n + 1)]
      <4> SUFFICES ASSUME NEW m \in 1 .. Len(p) + 1
                   PROVE  (IF m \in 1 .. Len(p) THEN at[m] ELSE n + 1) \in K \cap (1 .. n + 1)
        OBVIOUS
      <4>1. n + 1 \in K \cap (1 .. n + 1)
        BY <2>1, <2>5
      <4>2. CASE m \in 1 .. Len(p)
        <5>1. at[m] \in K /\ at[m] \in 1 .. n
          BY <3>5, <4>2 DEF PickedAt
        <5> QED BY <2>1, <4>2, <5>1
      <4> QED BY <4>1, <4>2
    <3> HIDE DEF bt
    <3>7. \A m \in 1 .. Len(q) : m \in 1 .. Len(p) \/ m = Len(p) + 1
      BY <3>3, <3>4
    <3>8. bt \in [1 .. Len(q) -> K \cap (1 .. n + 1)]
      BY <3>4, <3>13
    <3>9. \A m \in 1 .. Len(q) : q[m] = s[bt[m]]
      BY <3>4, <3>5, <3>6, <3>7 DEF PickedAt
    <3>10. \A l, m \in 1 .. Len(q) : l < m => bt[l] < bt[m]
      <4> SUFFICES ASSUME NEW l \in 1 .. Len(q), NEW m \in 1 .. Len(q), l < m
                   PROVE  bt[l] < bt[m]
        OBVIOUS
      <4>1. l \in 1 .. Len(p) /\ bt[l] = at[l] /\ at[l] \in 1 .. n
        BY <3>3, <3>4, <3>6
      <4>2. CASE m \in 1 .. Len(p)
        BY <3>5, <3>6, <4>1, <4>2 DEF PickedAt
      <4>3. CASE m = Len(p) + 1
        BY <2>1, <3>6, <4>1, <4>3
      <4> QED BY <3>7, <4>2, <4>3
    <3>11. ASSUME NEW k \in K \cap (1 .. n + 1) PROVE \E m \in 1 .. Len(q) : bt[m] = k
      <4>1. CASE k = n + 1
        BY <3>3, <3>4, <3>6, <4>1
      <4>2. CASE k \in 1 .. n
        <5>1. PICK m \in 1 .. Len(p) : at[m] = k
          BY <3>5, <4>2 DEF PickedAt
        <5>2. m \in 1 .. Len(q) /\ bt[m] = k
          BY <3>3, <3>4, <3>6, <5>1
        <5> QED BY <5>2
      <4> QED BY <2>1, <4>1, <4>2
    <3>12. PickedAt(q, s, K, n + 1, bt)
      BY <3>8, <3>9, <3>10, <3>11 DEF PickedAt
    <3> QED BY <3>1, <3>4, <3>12
  <2> QED BY <2>4, <2>5
<1>7. T = Nat
  <2>1. T \in SUBSET Nat
    OBVIOUS
  <2> HIDE DEF T
  <2> QED BY <1>5, <1>6, <2>1, AllNat
<1>8. Good(Len(s))
  BY <1>1, <1>7
<1> QED BY <1>2, <1>8
-----------------------------------------------------------------------------
(***************************************************************************)
(* The invariant.                                                          *)
(***************************************************************************)
\* The events that rule r has been evaluated on.
Seen(r) == IF phase = "load" THEN {} ELSE (DOMAIN log \ todo) \ {i \in {cur} : r >= ri}

Groups == {"-", "default", "unknown"}
            \cup {Field(Rules[r].by, log[i]) : r \in DOMAIN Rules, i \in DOMAIN log}
AlertRecord == [id : {Rules[r].id : r \in DOMAIN Rules} \X Groups \X Int,
                ts : Int, evidence : Seq(Nat)]

\* Events are taken in time order, whatever the order of the log.
Progress ==
    /\ log \in Seq(Event)
    /\ phase \in {"load", "run", "done"}
    /\ todo \subseteq DOMAIN log
    /\ cur \in {0} \cup DOMAIN log
    /\ cur \notin todo
    /\ ri \in DOMAIN Rules
    /\ cur = 0 => ri = 1
    /\ phase # "run" => todo = {} /\ cur = 0
    /\ phase = "load" => /\ thresh = NewEngine.thresh /\ seq = NewEngine.seq
                         /\ fired = NewEngine.fired
    /\ phase # "load" => \A i \in DOMAIN log \ todo, j \in todo : Before(log, i, j)
    /\ cur # 0 => \A i \in DOMAIN log \ todo : i # cur => Before(log, i, cur)

\* A window of a group holds events that count, in time order, and too few to fire.
IsWindow(r, g, buf) ==
    /\ Rules[r].kind = "threshold"
    /\ buf \in Seq(Seen(r))
    /\ \A j, k \in DOMAIN buf : j < k => Before(log, buf[j], buf[k])
    /\ \A k \in DOMAIN buf : Counts(r, g, buf[k])
    /\ Len(buf) < Needed(r)
Windows ==
    \A x \in DOMAIN thresh : /\ x = <<x[1], x[2]>> /\ x[1] \in DOMAIN Rules
                             /\ IsWindow(x[1], x[2], thresh[x])

\* The first steps of a chain, each once.
Seeds(r, i) == /\ Rules[r].kind = "chain"
               /\ Matches(Rules[r].steps[1], log[i]) /\ ~Matches(Rules[r].steps[2], log[i])
ArePartials(r, v, ps) ==
    /\ ps \in Seq(Seq(Seen(r)))
    /\ \A k \in DOMAIN ps : /\ ps[k] = <<ps[k][1]>> /\ ps[k][1] \in Seen(r)
                            /\ Seeds(r, ps[k][1]) /\ Field(Rules[r].by, log[ps[k][1]]) = v
    /\ \A j, k \in DOMAIN ps : ps[j] = ps[k] => j = k
Partials ==
    \A x \in DOMAIN seq : /\ x = <<x[1], 1, x[3]>> /\ x[1] \in DOMAIN Rules
                          /\ ArePartials(x[1], x[3], seq[x])

\* Why alert a of rule r fired.
Raised(r, a) ==
    /\ a.id[1] = Rules[r].id
    /\ a.id[3] = a.ts
    /\ Rules[r].kind = "atomic" =>
          \E i \in Seen(r) : /\ a.evidence = <<i>> /\ a.ts = log[i].ts
                             /\ Matches(Rules[r].steps[1], log[i])
    /\ Rules[r].kind = "threshold" =>
          /\ a.evidence \in Seq(Seen(r))
          /\ Len(a.evidence) = Needed(r)
          /\ a.ts = log[a.evidence[Len(a.evidence)]].ts
          /\ \A k \in DOMAIN a.evidence :
                /\ Counts(r, a.id[2], a.evidence[k])
                /\ a.ts - Rules[r].window <= log[a.evidence[k]].ts
                /\ log[a.evidence[k]].ts <= a.ts
    /\ Rules[r].kind = "chain" =>
          \E i, j \in Seen(r) : /\ a.evidence = <<i, j>> /\ a.ts = log[j].ts
                                /\ ChainPair(r, i, j)
Reasons ==
    /\ fired \in Seq(AlertRecord)
    /\ \A k \in DOMAIN fired : \E r \in DOMAIN Rules : Raised(r, fired[k])

\* No two alerts of a rule have the same evidence; those of a threshold rule share
\* nothing, with each other and with the windows.
OnceBy(r) ==
    /\ \A j, k \in FiredBy(r) : fired[j].evidence = fired[k].evidence => j = k
    /\ Rules[r].kind = "threshold" =>
          /\ \A j, k \in FiredBy(r) :
                j # k => Ids(fired[j].evidence) \cap Ids(fired[k].evidence) = {}
          /\ \A x \in DOMAIN thresh : \A k \in FiredBy(r) :
                x[1] = r => Ids(thresh[x]) \cap Ids(fired[k].evidence) = {}
Once == DistinctIds => \A r \in DOMAIN Rules : OnceBy(r)

\* Rule r has seen an event that event i is too old for.
Passed(r, i) == \E j \in Seen(r) : log[i].ts < log[j].ts - Rules[r].window

\* What a window has lost was evidence or is too old; every burst seen met an alert.
CountedBy(r) ==
    Rules[r].kind = "threshold" =>
        /\ \A i \in Seen(r) : Matches(Rules[r].steps[1], log[i]) =>
              \/ InEvidence(r, i)
              \/ Passed(r, i)
              \/ \E x \in DOMAIN thresh : /\ x = <<r, GroupOf(Rules[r], log[i])>>
                                          /\ i \in Ids(thresh[x])
        /\ \A S \in SUBSET Seen(r) : IsBurst(r, S) => \E i \in S : InEvidence(r, i)
Counted == \A r \in DOMAIN Rules : CountedBy(r)

\* What a chain has forgotten is too old; every pair seen has fired.
ChainedBy(r) ==
    Rules[r].kind = "chain" =>
        /\ \A i \in Seen(r) : Seeds(r, i) =>
              \/ Passed(r, i)
              \/ \E x \in DOMAIN seq : /\ x = <<r, 1, Field(Rules[r].by, log[i])>>
                                       /\ <<i>> \in Ids(seq[x])
        /\ \A i, j \in Seen(r) : ChainPair(r, i, j) =>
              \E k \in FiredBy(r) : fired[k].evidence = <<i, j>>
Chained == \A r \in DOMAIN Rules : ChainedBy(r)

EngineInv == Windows /\ Partials /\ Reasons /\ Once /\ Counted /\ Chained
IInv == Progress /\ EngineInv
-----------------------------------------------------------------------------
(***************************************************************************)
(* Rules, the log and the order of time.                                   *)
(***************************************************************************)
LEMMA RuleFacts ==
    ASSUME NEW r \in DOMAIN Rules
    PROVE  /\ DOMAIN Rules = 1 .. Len(Rules) /\ Len(Rules) \in Nat \ {0} /\ r \in Nat
           /\ Rules[r].kind \in {"atomic", "threshold", "chain"}
           /\ Rules[r].threshold \in Nat /\ Rules[r].window \in Nat
           /\ Needed(r) \in Nat \ {0}
<1> DEFINE R == [id : {Rules[x].id : x \in DOMAIN Rules}, kind : RuleKinds,
                 steps : {Rules[x].steps : x \in DOMAIN Rules},
                 threshold : Nat, window : Nat, by : {Rules[x].by : x \in DOMAIN Rules}]
<1>1. Rules \in Seq(R) /\ Len(Rules) > 0
  BY RulesAssumption
<1>2. DOMAIN Rules = 1 .. Len(Rules) /\ Len(Rules) \in Nat \ {0} /\ Rules[r] \in R
  <2> HIDE DEF R
  <2> QED BY <1>1
<1>3. /\ Rules[r].kind \in RuleKinds
      /\ Rules[r].threshold \in Nat /\ Rules[r].window \in Nat
  BY <1>2
<1> QED BY <1>2, <1>3 DEF RuleKinds, Needed

LEMMA LogFacts ==
    ASSUME Progress
    PROVE  /\ Len(log) \in Nat /\ DOMAIN log = 1 .. Len(log)
           /\ \A i \in DOMAIN log : log[i] \in Event /\ log[i].ts \in Int /\ i \in Nat
           /\ 0 \notin DOMAIN log
<1>1. log \in Seq(Event)
  BY DEF Progress
<1> QED BY <1>1, TimeAssumption

LEMMA TimeOrder ==
    ASSUME Progress
    PROVE  /\ \A i, j \in DOMAIN log : Before(log, i, j) => log[i].ts <= log[j].ts /\ i # j
           /\ \A i, j, k \in DOMAIN log :
                Before(log, i, j) /\ Before(log, j, k) => Before(log, i, k)
           /\ \A i, j \in DOMAIN log : Before(log, i, j) => ~Before(log, j, i)
BY LogFacts DEF Before

LEMMA SeenInLog ==
    ASSUME Progress, NEW r
    PROVE  /\ Seen(r) \subseteq DOMAIN log
           /\ \A i \in Seen(r) : i \in Nat /\ log[i].ts \in Int
BY LogFacts DEF Seen

-----------------------------------------------------------------------------
(***************************************************************************)
(* Progress is an invariant.                                               *)
(***************************************************************************)
LEMMA InitProgress == Init => Progress
BY RuleFacts, RulesAssumption DEF Init, Progress

LEMMA LoadKeeps ==
    ASSUME Progress, NEW e \in Event, Load(e) PROVE Progress'
<1>1. log' \in Seq(Event)
  BY DEF Load, Progress
<1> QED BY <1>1 DEF Load, Progress

LEMMA RunKeeps ==
    ASSUME Progress, Run PROVE Progress'
BY LogFacts DEF Run, Progress

LEMMA TakeKeeps ==
    ASSUME Progress, NEW i \in todo, Take(i) PROVE Progress'
<1>1. /\ phase' = phase /\ log' = log /\ phase = "run" /\ cur = 0 /\ cur' = i
      /\ todo' = todo \ {i} /\ ri' = 1 /\ i \in DOMAIN log
      /\ \A j \in todo \ {i} : Before(log, i, j)
  BY DEF Take, Progress
<1>2. 1 \in DOMAIN Rules
  BY RuleFacts, RulesAssumption DEF Progress
<1>3. \A j \in DOMAIN log' \ todo', k \in todo' : Before(log', j, k)
  BY <1>1 DEF Progress
<1>4. \A j \in DOMAIN log' \ todo' : j # cur' => Before(log', j, cur')
  BY <1>1 DEF Progress
<1> QED BY <1>1, <1>2, <1>3, <1>4, LogFacts DEF Progress

LEMMA EvaluateKeeps ==
    ASSUME Progress, NEW kind, Evaluate(kind) PROVE Progress'
<1>1. /\ phase' = phase /\ log' = log /\ todo' = todo /\ phase = "run" /\ cur # 0
      /\ ri' = IF ri = Len(Rules) THEN 1 ELSE ri + 1
      /\ cur' = IF ri = Len(Rules) THEN 0 ELSE cur
  BY DEF Evaluate
<1>2. ri' \in DOMAIN Rules
  BY <1>1, RuleFacts DEF Progress
<1> QED BY <1>1, <1>2 DEF Progress

LEMMA DedupKeeps ==
    ASSUME Progress, Dedup PROVE Progress'
BY DEF Dedup, Progress

LEMMA ProgressStep == Progress /\ [Next]_vars => Progress'
<1> SUFFICES ASSUME Progress, [Next]_vars PROVE Progress'
  OBVIOUS
<1>1. CASE UNCHANGED vars
  BY <1>1 DEF vars, Progress
<1> QED BY <1>1, LoadKeeps, RunKeeps, TakeKeeps, EvaluateKeeps, DedupKeeps DEF Next

\* What a step adds to what the rules have seen.
LEMMA SeenSame ==
    ASSUME Progress, \/ \E e \in Event : Load(e)
                     \/ Run
                     \/ \E i \in todo : Take(i)
                     \/ Dedup
                     \/ UNCHANGED vars,
           NEW r \in DOMAIN Rules
    PROVE  Seen(r)' = Seen(r)
<1>1. CASE \E e \in Event : Load(e)
  BY <1>1 DEF Load, Seen
<1>2. CASE Run
  BY <1>2 DEF Run, Seen
<1>3. CASE \E i \in todo : Take(i)
  <2>1. PICK i \in todo : Take(i)
    BY <1>3
  <2>2. r >= 1
    BY RuleFacts
  <2> QED BY <2>1, <2>2, LogFacts DEF Take, Seen, Progress
<1>4. CASE Dedup
  BY <1>4 DEF Dedup, Seen, Progress
<1>5. CASE UNCHANGED vars
  BY <1>5 DEF vars, Seen
<1> QED BY <1>1, <1>2, <1>3, <1>4, <1>5

LEMMA SeenStep ==
    ASSUME Progress, NEW kind, Evaluate(kind), NEW r \in DOMAIN Rules
    PROVE  /\ Seen(r)' = IF r = ri THEN Seen(r) \cup {cur} ELSE Seen(r)
           /\ cur \in DOMAIN log
           /\ r = ri => /\ cur \notin Seen(r)
                        /\ \A i \in Seen(r) : Before(log, i, cur)
<1>1. /\ phase' = phase /\ log' = log /\ todo' = todo /\ phase = "run" /\ cur # 0
      /\ ri' = IF ri = Len(Rules) THEN 1 ELSE ri + 1
      /\ cur' = IF ri = Len(Rules) THEN 0 ELSE cur
  BY DEF Evaluate
<1>2. r \in Nat /\ ri \in Nat /\ r \in 1 .. Len(Rules) /\ ri \in 1 .. Len(Rules) /\ Len(Rules) \in Nat
  BY RuleFacts DEF Progress
<1>3. cur \in DOMAIN log \ todo
  BY <1>1 DEF Progress
<1>4. CASE ri = Len(Rules)
  <2>1. Seen(r)' = DOMAIN log \ todo
    BY <1>1, <1>4, LogFacts DEF Seen
  <2>2. r = ri => Seen(r) = (DOMAIN log \ todo) \ {cur}
    BY <1>1, <1>2 DEF Seen
  <2>3. r # ri => Seen(r) = DOMAIN log \ todo
    BY <1>1, <1>2, <1>4 DEF Seen
  <2> QED BY <1>1, <1>3, <2>1, <2>2, <2>3 DEF Progress
<1>5. CASE ri # Len(Rules)
  <2>1. r = ri => Seen(r) = (DOMAIN log \ todo) \ {cur} /\ Seen(r)' = DOMAIN log \ todo
    BY <1>1, <1>2, <1>5 DEF Seen
  <2>2. r # ri => Seen(r) = Seen(r)'
    BY <1>1, <1>2, <1>5 DEF Seen
  <2> QED BY <1>1, <1>3, <2>1, <2>2 DEF Progress
<1> QED BY <1>4, <1>5
-----------------------------------------------------------------------------
(***************************************************************************)
(* What leaves the engine alone keeps its invariant.                       *)
(***************************************************************************)
LEMMA EmptyEngine == Progress /\ phase = "load" => EngineInv
<1> SUFFICES ASSUME Progress, phase = "load" PROVE EngineInv
  OBVIOUS
<1>1. DOMAIN thresh = {} /\ DOMAIN seq = {} /\ fired = << >>
  BY DEF Progress, NewEngine
<1>2. \A r : Seen(r) = {}
  BY DEF Seen
<1>3. DOMAIN fired = {}
  BY <1>1
<1>4. \A r \in DOMAIN Rules : FiredBy(r) = {}
  BY <1>3 DEF FiredBy
<1>5. fired \in Seq(AlertRecord)
  BY <1>1
<1>6. \A r, S : S \subseteq {} => ~IsBurst(r, S)
  BY DEF IsBurst
<1>7. Windows /\ Partials /\ Reasons
  BY <1>1, <1>3, <1>5 DEF Windows, Partials, Reasons
<1>8. Once
  BY <1>1, <1>4 DEF Once, OnceBy
<1>9. Counted
  BY <1>2, <1>6 DEF Counted, CountedBy
<1>10. Chained
  BY <1>2 DEF Chained, ChainedBy
<1> QED BY <1>7, <1>8, <1>9, <1>10 DEF EngineInv

LEMMA EngineSame ==
    ASSUME EngineInv, UNCHANGED <<log, thresh, seq, fired>>,
           \A r \in DOMAIN Rules : Seen(r)' = Seen(r)
    PROVE  EngineInv'
<1>1. \A r \in DOMAIN Rules : FiredBy(r)' = FiredBy(r)
  BY DEF FiredBy
<1>2. Windows'
  BY DEF EngineInv, Windows, IsWindow, Counts
<1>3. Partials'
  BY DEF EngineInv, Partials, ArePartials, Seeds
<1>4. AlertRecord' = AlertRecord
  BY DEF AlertRecord, Groups
<1>5. \A r \in DOMAIN Rules : \A a : Raised(r, a) => Raised(r, a)'
  BY DEF Raised, Counts, ChainPair
<1>6. Reasons'
  BY <1>4, <1>5 DEF EngineInv, Reasons
<1>7. Once'
  <2>1. fired' = fired /\ thresh' = thresh
    OBVIOUS
  <2>2. ASSUME NEW r \in DOMAIN Rules, OnceBy(r) PROVE OnceBy(r)'
    BY <1>1, <2>1, <2>2 DEF OnceBy
  <2> QED BY <2>2 DEF EngineInv, Once
<1>8. \A r \in DOMAIN Rules : \A i : /\ InEvidence(r, i)' = InEvidence(r, i)
                                   /\ Passed(r, i)' = Passed(r, i)
  BY <1>1 DEF InEvidence, Passed, Ids
<1>9. \A r \in DOMAIN Rules : \A S : IsBurst(r, S)' = IsBurst(r, S)
  BY DEF IsBurst, Counts
<1>10. Counted'
  BY <1>8, <1>9 DEF EngineInv, Counted, CountedBy, Ids
<1>11. Chained'
  <2>1. \A r \in DOMAIN Rules : \A i, j : /\ Seeds(r, i)' = Seeds(r, i)
                                         /\ ChainPair(r, i, j)' = ChainPair(r, i, j)
    BY DEF Seeds, ChainPair
  <2> QED BY <1>1, <1>8, <2>1 DEF EngineInv, Chained, ChainedBy, Ids
<1> QED BY <1>2, <1>3, <1>6, <1>7, <1>10, <1>11 DEF EngineInv
-----------------------------------------------------------------------------
(***************************************************************************)
(* What fires in a step, new, is of the rule evaluated, ri.                *)
(***************************************************************************)
\* Rule ri has been evaluated on cur.
Evaluated ==
    /\ log' = log
    /\ ri \in DOMAIN Rules /\ cur \in DOMAIN log /\ cur \notin Seen(ri)
    /\ \A i \in Seen(ri) : Before(log, i, cur)
    /\ \A r \in DOMAIN Rules :
          Seen(r)' = IF r = ri THEN Seen(r) \cup {cur} ELSE Seen(r)

LEMMA EvaluateEvaluates ==
    ASSUME Progress, NEW kind, Evaluate(kind) PROVE Evaluated
BY SeenStep DEF Evaluated, Evaluate, Progress

LEMMA RaisedStays ==
    ASSUME Evaluated, NEW r \in DOMAIN Rules, NEW a, Raised(r, a)
    PROVE  Raised(r, a)'
<1>1. log' = log /\ Seen(r) \subseteq Seen(r)'
  BY DEF Evaluated
<1>2. \A g, i : Counts(r, g, i)' = Counts(r, g, i)
  BY <1>1 DEF Counts
<1>3. \A i, j : ChainPair(r, i, j)' = ChainPair(r, i, j)
  BY <1>1 DEF ChainPair
<1>4. a.evidence \in Seq(Seen(r)) => a.evidence \in Seq(Seen(r)')
  BY <1>1, SeqMonotonic
<1> QED BY <1>1, <1>2, <1>3, <1>4 DEF Raised

\* What new alerts of rule q add.
AddsAlerts(q, new) ==
    /\ \A r \in DOMAIN Rules : \A k \in FiredBy(r) : k \in FiredBy(r)' /\ fired'[k] = fired[k]
    /\ \A m \in DOMAIN new : /\ Len(fired) + m \in FiredBy(q)'
                             /\ fired'[Len(fired) + m] = new[m]
    /\ \A r \in DOMAIN Rules : \A k \in FiredBy(r)' :
          \/ k \in FiredBy(r)
          \/ Rules[r].id = Rules[q].id /\ \E m \in DOMAIN new : k = Len(fired) + m
    /\ \A r \in DOMAIN Rules : \A i : InEvidence(r, i) => InEvidence(r, i)'

LEMMA FiredStep ==
    ASSUME Reasons, Evaluated, NEW q \in DOMAIN Rules, q = ri,
           NEW new \in Seq(AlertRecord), fired' = fired \o new,
           \A m \in DOMAIN new : Raised(q, new[m])'
    PROVE  Reasons' /\ AddsAlerts(q, new)
<1>1. fired \in Seq(AlertRecord) /\ AlertRecord' = AlertRecord
  BY DEF Reasons, Evaluated, AlertRecord, Groups
<1> HIDE DEF AlertRecord
<1>2. /\ fired' \in Seq(AlertRecord)
      /\ DOMAIN fired = 1 .. Len(fired) /\ DOMAIN new = 1 .. Len(new)
      /\ DOMAIN fired' = 1 .. Len(fired) + Len(new)
      /\ Len(fired) \in Nat /\ Len(new) \in Nat
      /\ \A k \in DOMAIN fired : fired'[k] = fired[k]
      /\ \A m \in DOMAIN new : fired'[Len(fired) + m] = new[m]
  BY <1>1, ConcatProperties
<1>3. \A k \in DOMAIN fired' : k \in DOMAIN fired \/ \E m \in DOMAIN new : k = Len(fired) + m
  <2> SUFFICES ASSUME NEW k \in DOMAIN fired', k \notin DOMAIN fired
               PROVE  \E m \in DOMAIN new : k = Len(fired) + m
    OBVIOUS
  <2>1. k - Len(fired) \in DOMAIN new /\ k = Len(fired) + (k - Len(fired))
    BY <1>2
  <2> QED BY <2>1
<1>4. \A k \in DOMAIN fired : k \in DOMAIN fired'
  BY <1>2
<1>5. \A m \in DOMAIN new : Len(fired) + m \in DOMAIN fired' /\ new[m].id[1] = Rules[q].id
  BY <1>2 DEF Raised
<1>6. Reasons'
  <2> SUFFICES ASSUME NEW k \in DOMAIN fired' PROVE \E r \in DOMAIN Rules : Raised(r, fired[k])'
    BY <1>1, <1>2 DEF Reasons
  <2>1. CASE k \in DOMAIN fired
    <3>1. PICK r \in DOMAIN Rules : Raised(r, fired[k])
      BY <2>1 DEF Reasons
    <3> DEFINE a == fired[k]
    <3>2. Raised(r, a)
      BY <3>1
    <3>3. fired'[k] = a
      BY <1>2, <2>1
    <3>4. \A b : Raised(r, b) => Raised(r, b)'
      BY RaisedStays
    <3> HIDE DEF a
    <3> QED BY <3>2, <3>3, <3>4
  <2>2. CASE \E m \in DOMAIN new : k = Len(fired) + m
    BY <1>2, <2>2 DEF Evaluated
  <2> QED BY <1>3, <2>1, <2>2
<1>7. \A r \in DOMAIN Rules : \A k \in FiredBy(r) : k \in FiredBy(r)' /\ fired'[k] = fired[k]
  BY <1>2, <1>4 DEF FiredBy
<1>8. \A m \in DOMAIN new : Len(fired) + m \in FiredBy(q)' /\ fired'[Len(fired) + m] = new[m]
  BY <1>2, <1>5 DEF FiredBy
<1>9. ASSUME NEW r \in DOMAIN Rules, NEW k \in FiredBy(r)'
      PROVE  \/ k \in FiredBy(r)
             \/ Rules[r].id = Rules[q].id /\ \E m \in DOMAIN new : k = Len(fired) + m
  <2>1. k \in DOMAIN fired' /\ fired'[k].id[1] = Rules[r].id
    BY DEF FiredBy
  <2> QED BY <1>2, <1>3, <1>5, <2>1 DEF FiredBy
<1>10. ASSUME NEW r \in DOMAIN Rules, NEW i, InEvidence(r, i) PROVE InEvidence(r, i)'
  BY <1>7, <1>10 DEF InEvidence, Ids
<1> QED BY <1>6, <1>7, <1>8, <1>9, <1>10 DEF AddsAlerts

\* The invariants of the rules that were not evaluated.
LEMMA OtherWindows ==
    ASSUME Evaluated, NEW x, x[1] \in DOMAIN Rules, NEW buf,
           IsWindow(x[1], x[2], buf), x[1] # ri \/ buf \in Seq(Seen(ri))
    PROVE  IsWindow(x[1], x[2], buf)'
<1>1. log' = log /\ Seen(x[1]) \subseteq Seen(x[1])'
  BY DEF Evaluated
<1>2. \A g, i : Counts(x[1], g, i)' = Counts(x[1], g, i)
  BY <1>1 DEF Counts
<1>3. buf \in Seq(Seen(x[1])')
  BY <1>1, SeqMonotonic DEF IsWindow
<1> QED BY <1>1, <1>2, <1>3 DEF IsWindow

LEMMA OtherPartials ==
    ASSUME Evaluated, NEW x, x[1] \in DOMAIN Rules, NEW ps, ArePartials(x[1], x[3], ps)
    PROVE  ArePartials(x[1], x[3], ps)'
<1>1. log' = log /\ Seen(x[1]) \subseteq Seen(x[1])'
  BY DEF Evaluated
<1>2. Seq(Seen(x[1])) \subseteq Seq(Seen(x[1])')
  BY <1>1, SeqMonotonic
<1>3. ps \in Seq(Seq(Seen(x[1])'))
  BY <1>2, SeqMonotonic DEF ArePartials
<1> QED BY <1>1, <1>3 DEF ArePartials, Seeds

LEMMA PassedStays ==
    ASSUME Evaluated, NEW r \in DOMAIN Rules, NEW i, Passed(r, i) PROVE Passed(r, i)'
BY DEF Passed, Evaluated

LEMMA OthersKeep ==
    ASSUME EngineInv, Evaluated, NEW q \in DOMAIN Rules, q = ri, NEW new, AddsAlerts(q, new),
           NEW r \in DOMAIN Rules,
           \A x : x[1] = r => /\ x \in DOMAIN thresh' <=> x \in DOMAIN thresh
                              /\ x \in DOMAIN thresh => thresh'[x] = thresh[x],
           \A x : x[1] = r => /\ x \in DOMAIN seq' <=> x \in DOMAIN seq
                              /\ x \in DOMAIN seq => seq'[x] = seq[x]
    PROVE  /\ r # q /\ DistinctIds => OnceBy(r)'
           /\ r # q \/ Rules[r].kind # "threshold" => CountedBy(r)'
           /\ r # q \/ Rules[r].kind # "chain" => ChainedBy(r)'
<1>1. log' = log
  BY DEF Evaluated
<1>2. r # q => Seen(r)' = Seen(r)
  BY DEF Evaluated
<1>3. \A k \in FiredBy(r) : k \in FiredBy(r)' /\ fired'[k] = fired[k]
  BY DEF AddsAlerts
<1>4. r # q /\ DistinctIds => FiredBy(r)' = FiredBy(r)
  BY <1>3 DEF AddsAlerts, DistinctIds
<1>5. \A i : InEvidence(r, i) => InEvidence(r, i)'
  BY DEF AddsAlerts
<1>6. \A i : Passed(r, i) => Passed(r, i)'
  BY PassedStays
<1>7. \A S : IsBurst(r, S)' = IsBurst(r, S)
  BY <1>1 DEF IsBurst, Counts
<1>8. \A i, j : Seeds(r, i)' = Seeds(r, i) /\ ChainPair(r, i, j)' = ChainPair(r, i, j)
  BY <1>1 DEF Seeds, ChainPair
<1>9. ASSUME r # q, DistinctIds PROVE OnceBy(r)'
  <2>1. OnceBy(r)
    BY <1>9 DEF EngineInv, Once
  <2>2. FiredBy(r)' = FiredBy(r) /\ \A k \in FiredBy(r) : fired'[k] = fired[k]
    BY <1>3, <1>4, <1>9
  <2>3. \A j, k \in FiredBy(r)' : fired'[j].evidence = fired'[k].evidence => j = k
    BY <2>1, <2>2 DEF OnceBy
  <2>4. ASSUME Rules[r].kind = "threshold", NEW j \in FiredBy(r)', NEW k \in FiredBy(r)', j # k
        PROVE  Ids(fired'[j].evidence) \cap Ids(fired'[k].evidence) = {}
    BY <2>1, <2>2, <2>4 DEF OnceBy
  <2>5. ASSUME Rules[r].kind = "threshold",
               NEW x \in DOMAIN thresh', NEW k \in FiredBy(r)', x[1] = r
        PROVE  Ids(thresh'[x]) \cap Ids(fired'[k].evidence) = {}
    <3>1. x \in DOMAIN thresh /\ thresh'[x] = thresh[x]
      BY <2>5
    <3> QED BY <2>1, <2>2, <2>5, <3>1 DEF OnceBy
  <2> QED BY <2>3, <2>4, <2>5 DEF OnceBy
<1>10. ASSUME r # q, Rules[r].kind = "threshold" PROVE CountedBy(r)'
  <2>1. CountedBy(r)
    BY DEF EngineInv, Counted
  <2>2. ASSUME NEW i \in Seen(r), Matches(Rules[r].steps[1], log[i])
        PROVE  \/ InEvidence(r, i)'
               \/ Passed(r, i)'
               \/ \E x \in DOMAIN thresh' : /\ x = <<r, GroupOf(Rules[r], log[i])>>
                                           /\ i \in Ids(thresh'[x])
    <3>1. CASE \E x \in DOMAIN thresh : /\ x = <<r, GroupOf(Rules[r], log[i])>>
                                        /\ i \in Ids(thresh[x])
      <4>1. PICK x \in DOMAIN thresh : /\ x = <<r, GroupOf(Rules[r], log[i])>>
                                       /\ i \in Ids(thresh[x])
        BY <3>1
      <4>2. x[1] = r
        BY <4>1
      <4>3. x \in DOMAIN thresh' /\ thresh'[x] = thresh[x]
        BY <4>2
      <4> QED BY <4>1, <4>3
    <3> QED BY <1>5, <1>6, <1>10, <2>1, <2>2, <3>1 DEF CountedBy
  <2>3. ASSUME NEW S \in SUBSET Seen(r), IsBurst(r, S) PROVE \E i \in S : InEvidence(r, i)'
    BY <1>5, <1>10, <2>1, <2>3 DEF CountedBy
  <2> QED BY <1>1, <1>2, <1>7, <1>10, <2>2, <2>3 DEF CountedBy
<1>11. ASSUME r # q, Rules[r].kind = "chain" PROVE ChainedBy(r)'
  <2>1. ChainedBy(r)
    BY DEF EngineInv, Chained
  <2>2. ASSUME NEW i \in Seen(r), Seeds(r, i)
        PROVE  \/ Passed(r, i)'
               \/ \E x \in DOMAIN seq' : /\ x = <<r, 1, Field(Rules[r].by, log[i])>>
                                        /\ <<i>> \in Ids(seq'[x])
    <3>1. CASE \E x \in DOMAIN seq : /\ x = <<r, 1, Field(Rules[r].by, log[i])>>
                                     /\ <<i>> \in Ids(seq[x])
      <4>1. PICK x \in DOMAIN seq : /\ x = <<r, 1, Field(Rules[r].by, log[i])>>
                                    /\ <<i>> \in Ids(seq[x])
        BY <3>1
      <4>2. x[1] = r
        BY <4>1
      <4>3. x \in DOMAIN seq' /\ seq'[x] = seq[x]
        BY <4>2
      <4> QED BY <4>1, <4>3
    <3> QED BY <1>6, <1>11, <2>1, <2>2, <3>1 DEF ChainedBy
  <2>3. ASSUME NEW i \in Seen(r), NEW j \in Seen(r), ChainPair(r, i, j)
        PROVE  \E k \in FiredBy(r)' : fired'[k].evidence = <<i, j>>
    BY <1>3, <1>11, <2>1, <2>3 DEF ChainedBy
  <2> QED BY <1>1, <1>2, <1>8, <1>11, <2>2, <2>3 DEF ChainedBy
<1> QED BY <1>9, <1>10, <1>11 DEF CountedBy, ChainedBy
-----------------------------------------------------------------------------
(***************************************************************************)
(* Atomic rules.                                                           *)
(***************************************************************************)
LEMMA AlertTyped ==
    ASSUME Progress, NEW r \in DOMAIN Rules, NEW g \in Groups, NEW ts \in Int,
           NEW ids \in Seq(Nat)
    PROVE  Alert(Rules[r], g, ts, ids) \in AlertRecord
BY DEF Alert, AlertRecord

LEMMA SameWindows ==
    ASSUME Windows, Evaluated, thresh' = thresh PROVE Windows'
<1> SUFFICES ASSUME NEW x \in DOMAIN thresh
             PROVE  /\ x = <<x[1], x[2]>> /\ x[1] \in DOMAIN Rules
                    /\ IsWindow(x[1], x[2], thresh[x])'
  BY DEF Windows
<1>1. x = <<x[1], x[2]>> /\ x[1] \in DOMAIN Rules /\ IsWindow(x[1], x[2], thresh[x])
  BY DEF Windows
<1> DEFINE buf == thresh[x]
<1>2. buf \in Seq(Seen(x[1]))
  BY <1>1 DEF IsWindow
<1>3. IsWindow(x[1], x[2], buf) /\ thresh'[x] = buf
  BY <1>1
<1>4. \A b : /\ IsWindow(x[1], x[2], b)
             /\ x[1] # ri \/ b \in Seq(Seen(ri))
             => IsWindow(x[1], x[2], b)'
  BY <1>1, OtherWindows
<1> HIDE DEF buf
<1> QED BY <1>1, <1>2, <1>3, <1>4

LEMMA SamePartials ==
    ASSUME Partials, Evaluated, seq' = seq PROVE Partials'
<1> SUFFICES ASSUME NEW x \in DOMAIN seq
             PROVE  /\ x = <<x[1], 1, x[3]>> /\ x[1] \in DOMAIN Rules
                    /\ ArePartials(x[1], x[3], seq[x])'
  BY DEF Partials
<1>1. x = <<x[1], 1, x[3]>> /\ x[1] \in DOMAIN Rules /\ ArePartials(x[1], x[3], seq[x])
  BY DEF Partials
<1> DEFINE ps == seq[x]
<1>2. ArePartials(x[1], x[3], ps) /\ seq'[x] = ps
  BY <1>1
<1>3. \A b : ArePartials(x[1], x[3], b) => ArePartials(x[1], x[3], b)'
  BY <1>1, OtherPartials
<1> HIDE DEF ps
<1> QED BY <1>1, <1>2, <1>3

LEMMA AtomicStep ==
    ASSUME IInv, Evaluate("atomic") PROVE EngineInv'
<1>1. Progress /\ EngineInv /\ Evaluated
  BY EvaluateEvaluates DEF IInv
<1>2. PICK q \in DOMAIN Rules : q = ri
  BY <1>1 DEF Evaluated
<1>3. /\ cur \in DOMAIN log /\ cur \in Nat /\ log[cur].ts \in Int /\ log' = log
      /\ cur \notin Seen(q)
      /\ Seen(q)' = Seen(q) \cup {cur}
  BY <1>1, <1>2, LogFacts DEF Evaluated
<1>14. PICK a : a = Alert(Rules[q], "-", log[cur].ts, <<cur>>)
  OBVIOUS
<1>15. PICK new : new = IF Matches(Rules[q].steps[1], log[cur]) THEN <<a>> ELSE << >>
  OBVIOUS
<1>4. a \in AlertRecord
  <2>1. "-" \in Groups /\ <<cur>> \in Seq(Nat)
    BY <1>3 DEF Groups
  <2> QED BY <1>1, <1>3, <1>14, <2>1, AlertTyped
<1>5. /\ new \in Seq(AlertRecord) /\ DOMAIN new \subseteq {1}
      /\ \A m \in DOMAIN new : new[m] = a /\ Matches(Rules[q].steps[1], log[cur])
  BY <1>4, <1>15
<1>6. Rules[q].kind = "atomic"
  BY <1>2 DEF Evaluate
<1>7. thresh' = thresh /\ seq' = seq /\ fired' = fired \o new
  <2>1. RuleStep(Engine, log, q, cur) = AtomicRule(Engine, log, q, cur)
    BY <1>6 DEF RuleStep
  <2>2. /\ thresh' = AtomicRule(Engine, log, q, cur).thresh
        /\ seq' = AtomicRule(Engine, log, q, cur).seq
        /\ fired' = AtomicRule(Engine, log, q, cur).fired
    BY <1>2, <2>1 DEF Evaluate
  <2>3. fired \o << >> = fired
    BY <1>1, ConcatEmptySeq DEF EngineInv, Reasons
  <2> QED BY <1>14, <1>15, <2>2, <2>3 DEF AtomicRule, Engine, Fire
<1>8. /\ a.id = <<Rules[q].id, "-", log[cur].ts>> /\ a.ts = log[cur].ts
      /\ a.evidence = <<cur>>
  BY <1>14 DEF Alert
<1>9. \A m \in DOMAIN new : Raised(q, new[m])'
  <2> SUFFICES ASSUME NEW m \in DOMAIN new PROVE Raised(q, a)'
    BY <1>5
  <2>1. Matches(Rules[q].steps[1], log[cur])
    BY <1>5
  <2> QED BY <1>3, <1>6, <1>8, <2>1 DEF Raised
<1>10. Reasons' /\ AddsAlerts(q, new)
  BY <1>1, <1>2, <1>5, <1>7, <1>9, FiredStep DEF EngineInv
<1>11. Windows' /\ Partials'
  BY <1>1, <1>7, SameWindows, SamePartials DEF EngineInv
<1>12. ASSUME NEW r \in DOMAIN Rules
       PROVE  /\ r # q /\ DistinctIds => OnceBy(r)'
              /\ CountedBy(r)' /\ ChainedBy(r)'
  BY <1>1, <1>2, <1>6, <1>7, <1>10, OthersKeep
<1>13. ASSUME DistinctIds PROVE OnceBy(q)'
  <2>1. OnceBy(q)
    BY <1>1, <1>13 DEF EngineInv, Once
  <2>2. ASSUME NEW k \in FiredBy(q)'
        PROVE  \/ k \in FiredBy(q) /\ fired'[k] = fired[k]
               \/ k = Len(fired) + 1 /\ fired'[k] = a
    <3>1. \/ k \in FiredBy(q)
          \/ \E m \in DOMAIN new : k = Len(fired) + m
      BY <1>10 DEF AddsAlerts
    <3>2. k \in FiredBy(q) => fired'[k] = fired[k]
      BY <1>10 DEF AddsAlerts
    <3>3. \A m \in DOMAIN new : fired'[Len(fired) + m] = a /\ m = 1
      BY <1>5, <1>10 DEF AddsAlerts
    <3>4. ASSUME NEW m \in DOMAIN new, k = Len(fired) + m
          PROVE  k = Len(fired) + 1 /\ fired'[k] = a
      <4>1. m = 1 /\ fired'[Len(fired) + m] = a
        BY <3>3
      <4>2. fired'[k] = a
        BY <3>4, <4>1
      <4>3. k = Len(fired) + 1
        BY <3>4, <4>1
      <4> QED BY <4>2, <4>3
    <3> QED BY <3>1, <3>2, <3>4
  <2>3. ASSUME NEW k \in FiredBy(q) PROVE fired[k].evidence # <<cur>>
    <3>1. fired[k].id[1] = Rules[q].id /\ k \in DOMAIN fired
      BY DEF FiredBy
    <3>2. PICK r \in DOMAIN Rules : Raised(r, fired[k])
      BY <1>1, <3>1 DEF EngineInv, Reasons
    <3>3. r = q
      BY <1>13, <3>1, <3>2 DEF Raised, DistinctIds
    <3>4. PICK i \in Seen(q) : fired[k].evidence = <<i>>
      BY <1>6, <3>2, <3>3 DEF Raised
    <3> QED BY <1>3, <3>4
  <2> QED BY <1>6, <1>8, <2>1, <2>2, <2>3 DEF OnceBy
<1> QED BY <1>10, <1>11, <1>12, <1>13 DEF EngineInv, Once, Counted, Chained
-----------------------------------------------------------------------------
(***************************************************************************)
(* Threshold rules.                                                        *)
(***************************************************************************)
\* Pruning from the front of a window that is in time order drops exactly what is
\* too old.
LEMMA FreshFacts ==
    ASSUME NEW S, NEW buf \in Seq(S), NEW lg, \A i \in S : lg[i].ts \in Int, NEW c \in Int,
           \A j, k \in 1 .. Len(buf) : j < k => lg[buf[j]].ts <= lg[buf[k]].ts
    PROVE  \E n \in 0 .. Len(buf) :
              /\ Fresh(lg, buf, c) \in Seq(S)
              /\ Len(Fresh(lg, buf, c)) = Len(buf) - n
              /\ \A m \in 1 .. Len(buf) - n : Fresh(lg, buf, c)[m] = buf[n + m]
              /\ \A m \in 1 .. n : lg[buf[m]].ts < c
              /\ \A m \in n + 1 .. Len(buf) : lg[buf[m]].ts >= c
<1> DEFINE Cut(k) == /\ \A j \in 1 .. k - 1 : lg[buf[j]].ts < c
                     /\ k <= Len(buf) => lg[buf[k]].ts >= c
           T == {k \in 1 .. Len(buf) + 1 : k = Len(buf) + 1 \/ lg[buf[k]].ts >= c}
           k0 == CHOOSE k \in 1 .. Len(buf) + 1 : Cut(k)
<1>1. Len(buf) \in Nat /\ \A k \in 1 .. Len(buf) : buf[k] \in S /\ lg[buf[k]].ts \in Int
  OBVIOUS
<1>2. \E k \in 1 .. Len(buf) + 1 : Cut(k)
  <2>1. T \in SUBSET Nat /\ T # {}
    <3>1. Len(buf) + 1 \in T
      BY <1>1
    <3> QED BY <1>1, <3>1
  <2>2. PICK k \in T : \A j \in T : k <= j
    <3> HIDE DEF T
    <3> QED BY <2>1, LeastExists
  <2>3. Cut(k)
    BY <1>1, <2>2
  <2> QED BY <2>3
<1>3. k0 \in 1 .. Len(buf) + 1 /\ Cut(k0)
  BY <1>2
<1>4. Fresh(lg, buf, c) = SubSeq(buf, k0, Len(buf))
  BY DEF Fresh
<1> HIDE DEF k0
<1>5. k0 - 1 \in 0 .. Len(buf) /\ k0 \in Int /\ Len(buf) \in Int
  BY <1>1, <1>3
<1>6. \A i \in k0 .. Len(buf) : buf[i] \in S
  BY <1>1, <1>3
<1>7. /\ Fresh(lg, buf, c) \in Seq(S)
      /\ Len(Fresh(lg, buf, c)) = IF k0 <= Len(buf) THEN Len(buf) - k0 + 1 ELSE 0
      /\ \A i \in 1 .. Len(buf) - k0 + 1 : Fresh(lg, buf, c)[i] = buf[k0 + i - 1]
  BY <1>4, <1>5, <1>6, SubSeqProperties
<1>8. Len(Fresh(lg, buf, c)) = Len(buf) - (k0 - 1)
  BY <1>1, <1>3, <1>7
<1>9. \A m \in 1 .. Len(buf) - (k0 - 1) : Fresh(lg, buf, c)[m] = buf[(k0 - 1) + m]
  BY <1>1, <1>3, <1>7
<1>10. \A m \in (k0 - 1) + 1 .. Len(buf) : lg[buf[m]].ts >= c
  BY <1>1, <1>3
<1> QED BY <1>3, <1>5, <1>7, <1>8, <1>9, <1>10

LEMMA IdsBound ==
    ASSUME NEW T, NEW buf \in Seq(T), NEW S \in SUBSET Ids(buf)
    PROVE  Cardinality(S) <= Len(buf)
<1> DEFINE f == [k \in 1 .. Len(buf) |-> buf[k]]
<1>1. Len(buf) \in Nat /\ DOMAIN buf = 1 .. Len(buf)
  OBVIOUS
<1>2. f \in Surjection(1 .. Len(buf), Ids(buf))
  BY <1>1 DEF Surjection, Ids
<1>3. IsFiniteSet(1 .. Len(buf)) /\ Cardinality(1 .. Len(buf)) = Len(buf)
  BY <1>1, FS_Interval
<1> HIDE DEF f
<1>4. IsFiniteSet(Ids(buf)) /\ Cardinality(Ids(buf)) <= Len(buf)
  BY <1>2, <1>3, FS_Surjection
<1>5. Cardinality(S) <= Cardinality(Ids(buf)) /\ Cardinality(S) \in Nat
         /\ Cardinality(Ids(buf)) \in Nat
  BY <1>4, FS_Subset, FS_CardinalityType
<1> QED BY <1>1, <1>4, <1>5

\* What the rule does with an event that counts: n of the window are too old, the rest
\* and the event are buf.
Counting(q, c, g, old, n, buf) ==
    /\ Counts(q, g, c)
    /\ old \in Seq(Seen(q))
    /\ \/ <<q, g>> \in DOMAIN thresh /\ old = thresh[<<q, g>>]
       \/ <<q, g>> \notin DOMAIN thresh /\ old = << >>
    /\ n \in 0 .. Len(old)
    /\ buf \in Seq(Seen(q) \cup {c})
    /\ Len(buf) = Len(old) + 1 - n
    /\ \A m \in 1 .. Len(old) - n : buf[m] = old[n + m]
    /\ buf[Len(buf)] = c
    /\ \A m \in 1 .. n : log[old[m]].ts < log[c].ts - Rules[q].window
    /\ \A m \in 1 .. Len(buf) : /\ log[buf[m]].ts >= log[c].ts - Rules[q].window
                               /\ log[buf[m]].ts <= log[c].ts
                               /\ Counts(q, g, buf[m])
    /\ \A j, k \in 1 .. Len(buf) : j < k => Before(log, buf[j], buf[k])
    /\ Len(buf) \in 1 .. Needed(q)
    /\ Len(buf) >= Rules[q].threshold <=> Len(buf) = Needed(q)
    /\ thresh' = Stored(thresh, <<q, g>>, IF Len(buf) = Needed(q) THEN << >> ELSE buf)
    /\ fired' = fired \o IF Len(buf) = Needed(q)
                        THEN <<Alert(Rules[q], g, log[c].ts, buf)>> ELSE << >>

LEMMA CountingStep ==
    ASSUME IInv, Evaluate("threshold"), NEW q \in DOMAIN Rules, q = ri, NEW c, c = cur,
           Matches(Rules[q].steps[1], log[c]), NEW g, g = GroupOf(Rules[q], log[c])
    PROVE  \E old, n, buf : Counting(q, c, g, old, n, buf)
<1>1. Progress /\ EngineInv /\ Evaluated
  BY EvaluateEvaluates DEF IInv
<1>2. /\ c \in DOMAIN log /\ c \in Nat /\ log[c].ts \in Int /\ log' = log
      /\ c \notin Seen(q)
      /\ \A i \in Seen(q) : Before(log, i, c)
  BY <1>1, LogFacts DEF Evaluated
<1>3. Rules[q].kind = "threshold" /\ Rules[q].window \in Nat /\ Needed(q) \in Nat \ {0}
         /\ Rules[q].threshold \in Nat
  BY RuleFacts DEF Evaluate
<1>4. \A i \in Seen(q) : i \in DOMAIN log /\ log[i].ts \in Int /\ log[i].ts <= log[c].ts
  BY <1>1, <1>2, SeenInLog, TimeOrder
<1> DEFINE x   == <<q, g>>
           old == Entry(thresh, x)
           app == Append(old, c)
           now == log[c].ts - Rules[q].window
           buf == Fresh(log, app, now)
<1>5. \/ x \in DOMAIN thresh /\ old = thresh[x] /\ IsWindow(q, g, old)
      \/ x \notin DOMAIN thresh /\ old = << >>
  <2>1. x \in DOMAIN thresh => IsWindow(x[1], x[2], thresh[x])
    BY <1>1, Zenon DEF EngineInv, Windows
  <2>2. x[1] = q /\ x[2] = g
    OBVIOUS
  <2> QED BY <2>1, <2>2 DEF Entry
<1>6. /\ old \in Seq(Seen(q)) /\ Len(old) \in Nat /\ Len(old) < Needed(q)
      /\ DOMAIN old = 1 .. Len(old)
      /\ \A j, k \in 1 .. Len(old) : j < k => Before(log, old[j], old[k])
      /\ \A k \in 1 .. Len(old) : Counts(q, g, old[k]) /\ old[k] \in Seen(q)
  <2>1. CASE IsWindow(q, g, old)
    <3>1. old \in Seq(Seen(q))
      BY <2>1 DEF IsWindow
    <3> HIDE DEF old
    <3> QED BY <2>1, <3>1 DEF IsWindow
  <2>2. CASE old = << >>
    <3> HIDE DEF old
    <3> QED BY <1>3, <2>2
  <2> QED BY <1>5, <2>1, <2>2
<1> HIDE DEF old
<1>7. old \in Seq(Seen(q) \cup {c})
  BY <1>6, SeqMonotonic
<1>8. /\ app \in Seq(Seen(q) \cup {c}) /\ Len(app) = Len(old) + 1
      /\ \A i \in 1 .. Len(old) : app[i] = old[i]
      /\ app[Len(old) + 1] = c
  BY <1>7, AppendProperties
<1> HIDE DEF app
<1>9. \A k \in 1 .. Len(app) : k \in 1 .. Len(old) \/ k = Len(old) + 1
  BY <1>6, <1>8
<1>10. \A j, k \in 1 .. Len(app) : j < k => Before(log, app[j], app[k])
  <2> SUFFICES ASSUME NEW j \in 1 .. Len(app), NEW k \in 1 .. Len(app), j < k
               PROVE  Before(log, app[j], app[k])
    OBVIOUS
  <2>1. j \in 1 .. Len(old)
    BY <1>6, <1>8
  <2>2. CASE k \in 1 .. Len(old)
    BY <1>6, <1>8, <2>1, <2>2
  <2>3. CASE k = Len(old) + 1
    BY <1>2, <1>6, <1>8, <2>1, <2>3
  <2> QED BY <1>9, <2>2, <2>3
<1>11. \A k \in 1 .. Len(app) : /\ app[k] \in DOMAIN log /\ log[app[k]].ts <= log[c].ts
                               /\ Counts(q, g, app[k])
  <2>1. Counts(q, g, c)
    BY <1>3 DEF Counts
  <2> QED BY <1>2, <1>4, <1>6, <1>8, <1>9, <2>1
<1>12. \A j, k \in 1 .. Len(app) : j < k => log[app[j]].ts <= log[app[k]].ts
  BY <1>1, <1>10, <1>11, TimeOrder
<1>13. now \in Int
  BY <1>2, <1>3
<1>14. \A i \in Seen(q) \cup {c} : log[i].ts \in Int
  BY <1>2, <1>4
<1>15. PICK n \in 0 .. Len(app) :
          /\ buf \in Seq(Seen(q) \cup {c})
          /\ Len(buf) = Len(app) - n
          /\ \A m \in 1 .. Len(app) - n : buf[m] = app[n + m]
          /\ \A m \in 1 .. n : log[app[m]].ts < now
          /\ \A m \in n + 1 .. Len(app) : log[app[m]].ts >= now
  <2> HIDE DEF now
  <2> QED BY <1>8, <1>12, <1>13, <1>14, FreshFacts
<1>16. RuleStep(Engine, log, q, c) = ThresholdRule(Engine, log, q, c)
  BY <1>3 DEF RuleStep
<1>17. /\ thresh' = Stored(thresh, x, IF Len(buf) >= Rules[q].threshold THEN << >> ELSE buf)
       /\ fired' = fired \o IF Len(buf) >= Rules[q].threshold
                           THEN <<Alert(Rules[q], g, log[c].ts, buf)>> ELSE << >>
  <2>1. /\ thresh' = ThresholdRule(Engine, log, q, c).thresh
        /\ fired' = ThresholdRule(Engine, log, q, c).fired
    BY <1>16 DEF Evaluate
  <2>2. fired \o << >> = fired
    BY <1>1, ConcatEmptySeq DEF EngineInv, Reasons
  <2> QED BY <2>1, <2>2 DEF ThresholdRule, Engine, Fire, Reset, old, app
<1> HIDE DEF buf
<1>18. n # Len(app)
  <2>1. Len(app) \in n + 1 .. Len(app) \/ n = Len(app)
    BY <1>6, <1>8
  <2>2. ~(log[c].ts < now)
    BY <1>2, <1>3
  <2>3. n = Len(app) => Len(app) \in 1 .. n
    BY <1>6, <1>8
  <2> QED BY <1>8, <1>15, <2>2, <2>3
<1>19. n \in 0 .. Len(old) /\ Len(buf) = Len(old) + 1 - n /\ Len(buf) \in 1 .. Needed(q)
          /\ n \in Nat
  BY <1>3, <1>6, <1>8, <1>15, <1>18
<1>20. Len(buf) >= Rules[q].threshold <=> Len(buf) = Needed(q)
  BY <1>3, <1>6, <1>19 DEF Needed
<1>21. \A m \in 1 .. Len(buf) : n + m \in 1 .. Len(app) /\ n + m \in n + 1 .. Len(app) /\ buf[m] = app[n + m]
  BY <1>6, <1>8, <1>15, <1>19
<1>22. buf[Len(buf)] = c
  BY <1>6, <1>8, <1>19, <1>21
<1>23. \A m \in 1 .. Len(old) - n : buf[m] = old[n + m]
  BY <1>6, <1>8, <1>19, <1>21
<1>24. \A m \in 1 .. n : log[old[m]].ts < now
  BY <1>6, <1>8, <1>15, <1>19
<1>25. \A m \in 1 .. Len(buf) : /\ log[buf[m]].ts >= now
                               /\ log[buf[m]].ts <= log[c].ts
                               /\ Counts(q, g, buf[m])
  BY <1>11, <1>15, <1>21
<1>26. \A j, k \in 1 .. Len(buf) : j < k => Before(log, buf[j], buf[k])
  <2> SUFFICES ASSUME NEW j \in 1 .. Len(buf), NEW k \in 1 .. Len(buf), j < k
               PROVE  Before(log, buf[j], buf[k])
    OBVIOUS
  <2>1. n + j < n + k
    BY <1>19
  <2> QED BY <1>10, <1>21, <2>1
<1>27. Counts(q, g, c)
  BY <1>3 DEF Counts
<1>28. Counting(q, c, g, old, n, buf)
  BY <1>5, <1>6, <1>15, <1>17, <1>19, <1>20, <1>22, <1>23, <1>24, <1>25, <1>26, <1>27 DEF Counting
<1> QED BY <1>28

LEMMA CountingRaises ==
    ASSUME IInv, Evaluated, NEW q \in DOMAIN Rules, q = ri, Rules[q].kind = "threshold",
           NEW c, c = cur, NEW g, NEW old, NEW n, NEW buf,
           Counting(q, c, g, old, n, buf), Len(buf) = Needed(q),
           NEW a, a = Alert(Rules[q], g, log[c].ts, buf)
    PROVE  a \in AlertRecord /\ Raised(q, a)'
<1>1. log' = log /\ Seen(q)' = Seen(q) \cup {c} /\ c \in DOMAIN log /\ log[c].ts \in Int
         /\ DOMAIN log \subseteq Nat
  BY LogFacts DEF Evaluated, IInv
<1>2. Counts(q, g, c)
  BY DEF Counting
<1>3. g \in Groups
  BY <1>1, <1>2 DEF Counts, GroupOf, Groups
<1>4. Seen(q) \subseteq Nat /\ c \in Nat
  BY <1>1, SeenInLog DEF IInv
<1>5. buf \in Seq(Seen(q) \cup {c}) /\ DOMAIN buf = 1 .. Len(buf)
  BY DEF Counting
<1>6. buf \in Seq(Nat)
  BY <1>4, <1>5, SeqMonotonic
<1>7. /\ a.id = <<Rules[q].id, g, log[c].ts>> /\ a.ts = log[c].ts /\ a.evidence = buf
  BY DEF Alert
<1>8. a \in AlertRecord
  BY <1>1, <1>3, <1>6, AlertTyped DEF IInv
<1>9. \A h, i : Counts(q, h, i)' = Counts(q, h, i)
  BY <1>1 DEF Counts
<1>10. \A m \in DOMAIN buf : /\ Counts(q, g, buf[m])
                             /\ log[c].ts - Rules[q].window <= log[buf[m]].ts
                             /\ log[buf[m]].ts <= log[c].ts
  <2>1. \A m \in 1 .. Len(buf) : buf[m] \in Seen(q) \cup {c}
    BY <1>5
  <2>2. \A i \in Seen(q) \cup {c} : log[i].ts \in Int
    BY <1>1, SeenInLog DEF IInv
  <2>3. log[c].ts - Rules[q].window \in Int
    BY <1>1, RuleFacts
  <2> QED BY <1>1, <1>5, <2>1, <2>2, <2>3 DEF Counting
<1>11. log[buf[Len(buf)]].ts = log[c].ts
  BY DEF Counting
<1> QED BY <1>1, <1>5, <1>7, <1>8, <1>9, <1>10, <1>11 DEF Raised

LEMMA CountingWindows ==
    ASSUME IInv, Evaluated, NEW q \in DOMAIN Rules, q = ri, Rules[q].kind = "threshold",
           NEW c, c = cur, NEW g, NEW old, NEW n, NEW buf, Counting(q, c, g, old, n, buf)
    PROVE  /\ Windows'
           /\ \A x : x # <<q, g>> => /\ x \in DOMAIN thresh' <=> x \in DOMAIN thresh
                                     /\ x \in DOMAIN thresh => thresh'[x] = thresh[x]
           /\ <<q, g>> \in DOMAIN thresh'
           /\ thresh'[<<q, g>>] = IF Len(buf) = Needed(q) THEN << >> ELSE buf
<1>1. log' = log /\ Seen(q)' = Seen(q) \cup {c}
  BY DEF Evaluated
<1>2. /\ DOMAIN thresh' = DOMAIN thresh \cup {<<q, g>>}
      /\ \A x \in DOMAIN thresh : x # <<q, g>> => thresh'[x] = thresh[x]
      /\ thresh'[<<q, g>>] = IF Len(buf) = Needed(q) THEN << >> ELSE buf
  BY DEF Counting, Stored
<1>3. ASSUME NEW x \in DOMAIN thresh, x # <<q, g>>
      PROVE  /\ x = <<x[1], x[2]>> /\ x[1] \in DOMAIN Rules
             /\ IsWindow(x[1], x[2], thresh[x])'
  <2>1. x = <<x[1], x[2]>> /\ x[1] \in DOMAIN Rules /\ IsWindow(x[1], x[2], thresh[x])
    BY Zenon DEF IInv, EngineInv, Windows
  <2>2. PICK b : b = thresh[x]
    OBVIOUS
  <2>3. IsWindow(x[1], x[2], b) /\ b \in Seq(Seen(x[1]))
    BY <2>1, <2>2 DEF IsWindow
  <2>4. IsWindow(x[1], x[2], b)'
    BY <2>1, <2>3, OtherWindows
  <2>5. thresh'[x] = b
    BY <1>2, <1>3, <2>2
  <2> QED BY <2>1, <2>4, <2>5
<1>4. PICK b : b = IF Len(buf) = Needed(q) THEN << >> ELSE buf
  OBVIOUS
<1>5. IsWindow(q, g, b)'
  <2>1. \A h, i : Counts(q, h, i)' = Counts(q, h, i)
    BY <1>1 DEF Counts
  <2>2. Needed(q) \in Nat \ {0}
    BY RuleFacts
  <2>3. buf \in Seq(Seen(q)') /\ DOMAIN buf = 1 .. Len(buf) /\ Len(buf) \in 1 .. Needed(q)
    BY <1>1 DEF Counting
  <2>4. CASE Len(buf) = Needed(q)
    <3>1. b = << >>
      BY <1>4, <2>4
    <3> QED BY <2>2, <3>1 DEF IsWindow
  <2>5. CASE Len(buf) # Needed(q)
    <3>1. b = buf /\ Len(b) < Needed(q)
      BY <1>4, <2>2, <2>3, <2>5
    <3>2. /\ \A m \in DOMAIN buf : Counts(q, g, buf[m])
          /\ \A j, k \in DOMAIN buf : j < k => Before(log, buf[j], buf[k])
      BY <2>3 DEF Counting
    <3> QED BY <1>1, <2>1, <2>3, <3>1, <3>2 DEF IsWindow
  <2> QED BY <2>4, <2>5
<1>6. ASSUME NEW x \in DOMAIN thresh'
      PROVE  /\ x = <<x[1], x[2]>> /\ x[1] \in DOMAIN Rules
             /\ IsWindow(x[1], x[2], thresh[x])'
  <2>1. CASE x = <<q, g>>
    <3>1. x[1] = q /\ x[2] = g /\ thresh'[x] = b
      BY <1>2, <1>4, <2>1
    <3> QED BY <1>5, <2>1, <3>1
  <2>2. CASE x # <<q, g>>
    BY <1>2, <1>3, <2>2
  <2> QED BY <2>1, <2>2
<1>7. Windows'
  BY <1>6, Zenon DEF Windows
<1>8. ASSUME NEW x, x # <<q, g>>
      PROVE  /\ x \in DOMAIN thresh' <=> x \in DOMAIN thresh
             /\ x \in DOMAIN thresh => thresh'[x] = thresh[x]
  BY <1>2, <1>8
<1>9. <<q, g>> \in DOMAIN thresh'
  BY <1>2
<1> QED BY <1>2, <1>7, <1>8, <1>9, Zenon

\* The alerts of rule q after the step: the earlier ones, and one whose evidence is buf.
LEMMA CountingAlerts ==
    ASSUME NEW q \in DOMAIN Rules, NEW a, NEW new, AddsAlerts(q, new),
           new = <<a>> \/ new = << >>
    PROVE  /\ \A k \in FiredBy(q)' :
                \/ k \in FiredBy(q) /\ fired'[k] = fired[k]
                \/ new = <<a>> /\ k = Len(fired) + 1 /\ fired'[k] = a
           /\ new = <<a>> => Len(fired) + 1 \in FiredBy(q)' /\ fired'[Len(fired) + 1] = a
<1>1. DOMAIN new \subseteq {1} /\ \A m \in DOMAIN new : m = 1 /\ new[m] = a /\ new = <<a>>
  OBVIOUS
<1>2. ASSUME NEW k \in FiredBy(q)'
      PROVE  \/ k \in FiredBy(q) /\ fired'[k] = fired[k]
             \/ new = <<a>> /\ k = Len(fired) + 1 /\ fired'[k] = a
  <2>1. k \in FiredBy(q) \/ \E m \in DOMAIN new : k = Len(fired) + m
    BY DEF AddsAlerts
  <2>2. CASE k \in FiredBy(q)
    BY <2>2 DEF AddsAlerts
  <2>3. CASE \E m \in DOMAIN new : k = Len(fired) + m
    <3>1. PICK m \in DOMAIN new : k = Len(fired) + m
      BY <2>3
    <3>2. fired'[Len(fired) + m] = new[m]
      BY DEF AddsAlerts
    <3> QED BY <1>1, <3>1, <3>2
  <2> QED BY <2>1, <2>2, <2>3
<1>3. ASSUME new = <<a>>
      PROVE  Len(fired) + 1 \in FiredBy(q)' /\ fired'[Len(fired) + 1] = a
  <2>1. 1 \in DOMAIN new /\ new[1] = a
    BY <1>3
  <2> QED BY <2>1 DEF AddsAlerts
<1> QED BY <1>2, <1>3

\* The ids of the window before and after the step.
LEMMA CountingIds ==
    ASSUME NEW q, NEW c, NEW g, NEW old, NEW n, NEW buf, Counting(q, c, g, old, n, buf)
    PROVE  /\ Ids(buf) \subseteq Ids(old) \cup {c}
           /\ c \in Ids(buf)
           /\ \A i \in Ids(old) : \/ i \in Ids(buf)
                                  \/ log[i].ts < log[c].ts - Rules[q].window
<1>1. /\ old \in Seq(Seen(q)) /\ buf \in Seq(Seen(q) \cup {c})
      /\ Len(old) \in Nat /\ Len(buf) \in Nat /\ n \in 0 .. Len(old)
      /\ Len(buf) = Len(old) + 1 - n
      /\ DOMAIN old = 1 .. Len(old) /\ DOMAIN buf = 1 .. Len(buf)
  BY DEF Counting
<1>2. \A m \in 1 .. Len(old) - n : buf[m] = old[n + m]
  BY DEF Counting
<1>3. buf[Len(buf)] = c
  BY DEF Counting
<1>4. \A m \in 1 .. n : log[old[m]].ts < log[c].ts - Rules[q].window
  BY DEF Counting
<1>5. ASSUME NEW m \in DOMAIN buf PROVE buf[m] \in Ids(old) \cup {c}
  <2>1. CASE m = Len(buf)
    BY <1>3, <2>1
  <2>2. CASE m # Len(buf)
    <3>1. m \in 1 .. Len(old) - n /\ n + m \in DOMAIN old
      BY <1>1, <2>2
    <3> QED BY <1>2, <3>1 DEF Ids
  <2> QED BY <2>1, <2>2
<1>6. c \in Ids(buf)
  <2>1. Len(buf) \in DOMAIN buf
    BY <1>1
  <2> QED BY <1>3, <2>1 DEF Ids
<1>7. ASSUME NEW m \in DOMAIN old
      PROVE  old[m] \in Ids(buf) \/ log[old[m]].ts < log[c].ts - Rules[q].window
  <2>1. CASE m \in 1 .. n
    BY <1>4, <2>1
  <2>2. CASE m \notin 1 .. n
    <3>1. m - n \in 1 .. Len(old) - n /\ n + (m - n) = m /\ m - n \in DOMAIN buf
      BY <1>1, <2>2
    <3>2. buf[m - n] = old[m]
      BY <1>2, <3>1
    <3> QED BY <3>1, <3>2 DEF Ids
  <2> QED BY <2>1, <2>2
<1> QED BY <1>5, <1>6, <1>7 DEF Ids

\* No event is evidence twice.
LEMMA CountingOnce ==
    ASSUME IInv, Evaluated, NEW q \in DOMAIN Rules, q = ri, Rules[q].kind = "threshold",
           NEW c, c = cur, NEW g, NEW old, NEW n, NEW buf, Counting(q, c, g, old, n, buf),
           NEW a, a.evidence = buf, NEW new, AddsAlerts(q, new),
           new = IF Len(buf) = Needed(q) THEN <<a>> ELSE << >>, DistinctIds
    PROVE  OnceBy(q)'
<1>1. OnceBy(q)
  BY DEF IInv, EngineInv, Once
<1>2. \A k \in FiredBy(q)' :
         \/ k \in FiredBy(q) /\ fired'[k].evidence = fired[k].evidence
         \/ Len(buf) = Needed(q) /\ k = Len(fired) + 1 /\ fired'[k].evidence = buf
  BY CountingAlerts
<1>3. ASSUME NEW k \in FiredBy(q) PROVE c \notin Ids(fired[k].evidence)
  <2>1. fired[k].id[1] = Rules[q].id /\ k \in DOMAIN fired
    BY DEF FiredBy
  <2>2. PICK r \in DOMAIN Rules : Raised(r, fired[k])
    BY <2>1 DEF IInv, EngineInv, Reasons
  <2>3. r = q
    BY <2>1, <2>2 DEF Raised, DistinctIds
  <2>4. fired[k].evidence \in Seq(Seen(q))
    BY <2>2, <2>3 DEF Raised
  <2>5. Ids(fired[k].evidence) \subseteq Seen(q)
    BY <2>4 DEF Ids
  <2> QED BY <2>5 DEF Evaluated
<1>4. ASSUME NEW k \in FiredBy(q) PROVE Ids(old) \cap Ids(fired[k].evidence) = {}
  <2>1. CASE <<q, g>> \in DOMAIN thresh /\ old = thresh[<<q, g>>]
    <3>1. <<q, g>>[1] = q
      OBVIOUS
    <3> QED BY <1>1, <2>1, <3>1, Zenon DEF OnceBy
  <2>2. CASE old = << >>
    <3>1. Ids(old) = {}
      BY <2>2 DEF Ids
    <3> QED BY <3>1
  <2> QED BY <2>1, <2>2 DEF Counting
<1>5. c \in Ids(buf) /\ Ids(buf) \subseteq Ids(old) \cup {c}
  BY CountingIds
<1>6. \A k \in FiredBy(q) : Ids(buf) \cap Ids(fired[k].evidence) = {}
  BY <1>3, <1>4, <1>5
<1>7. ASSUME NEW j \in FiredBy(q)', NEW k \in FiredBy(q)',
             fired'[j].evidence = fired'[k].evidence
      PROVE  j = k
  <2>1. CASE j \in FiredBy(q) /\ k \in FiredBy(q) /\ fired'[j].evidence = fired[j].evidence
                /\ fired'[k].evidence = fired[k].evidence
    BY <1>1, <1>7, <2>1 DEF OnceBy
  <2> QED BY <1>2, <1>5, <1>6, <1>7, <2>1
<1>8. ASSUME NEW j \in FiredBy(q)', NEW k \in FiredBy(q)', j # k
      PROVE  Ids(fired'[j].evidence) \cap Ids(fired'[k].evidence) = {}
  <2>1. CASE j \in FiredBy(q) /\ k \in FiredBy(q) /\ fired'[j].evidence = fired[j].evidence
                /\ fired'[k].evidence = fired[k].evidence
    BY <1>1, <1>8, <2>1 DEF OnceBy
  <2> QED BY <1>2, <1>6, <1>8, <2>1
<1>9. ASSUME NEW x \in DOMAIN thresh', NEW k \in FiredBy(q)', x[1] = q
      PROVE  Ids(thresh'[x]) \cap Ids(fired'[k].evidence) = {}
  <2>1. CASE x = <<q, g>>
    <3>1. thresh'[x] = IF Len(buf) = Needed(q) THEN << >> ELSE buf
      BY <2>1, CountingWindows
    <3>2. Ids(<< >>) = {}
      BY DEF Ids
    <3> QED BY <1>2, <1>6, <3>1, <3>2
  <2>2. CASE x # <<q, g>>
    <3>1. x \in DOMAIN thresh /\ thresh'[x] = thresh[x]
      <4>1. \A y : y # <<q, g>> => /\ y \in DOMAIN thresh' <=> y \in DOMAIN thresh
                                   /\ y \in DOMAIN thresh => thresh'[y] = thresh[y]
        BY CountingWindows
      <4> QED BY <1>9, <2>2, <4>1
    <3>2. CASE k \in FiredBy(q) /\ fired'[k].evidence = fired[k].evidence
      BY <1>1, <1>9, <3>1, <3>2 DEF OnceBy
    <3>3. CASE fired'[k].evidence = buf
      <4>1. x = <<x[1], x[2]>> /\ IsWindow(x[1], x[2], thresh[x])
        BY <3>1, Zenon DEF IInv, EngineInv, Windows
      <4>2. x[2] # g
        BY <1>9, <2>2, <4>1
      <4>3. \A i \in Ids(thresh[x]) : GroupOf(Rules[q], log[i]) = x[2]
        BY <1>9, <4>1 DEF IsWindow, Ids, Counts
      <4>4. \A i \in Ids(buf) : GroupOf(Rules[q], log[i]) = g
        <5>1. DOMAIN buf = 1 .. Len(buf)
          BY DEF Counting
        <5> QED BY <5>1 DEF Counting, Ids, Counts
      <4> QED BY <3>1, <3>3, <4>2, <4>3, <4>4
    <3> QED BY <1>2, <3>2, <3>3
  <2> QED BY <2>1, <2>2
<1> QED BY <1>7, <1>8, <1>9 DEF OnceBy

\* No burst is missed.
LEMMA CountingCounts ==
    ASSUME IInv, Evaluated, NEW q \in DOMAIN Rules, q = ri, Rules[q].kind = "threshold",
           NEW c, c = cur, NEW g, NEW old, NEW n, NEW buf, Counting(q, c, g, old, n, buf),
           NEW a, a.evidence = buf, NEW new, AddsAlerts(q, new),
           new = IF Len(buf) = Needed(q) THEN <<a>> ELSE << >>
    PROVE  CountedBy(q)'
<1>1. CountedBy(q)
  BY DEF IInv, EngineInv, Counted
<1>2. /\ log' = log /\ Seen(q)' = Seen(q) \cup {c} /\ c \in DOMAIN log /\ log[c].ts \in Int
      /\ \A i \in Seen(q)' : log[i].ts \in Int /\ log[i].ts <= log[c].ts
      /\ Rules[q].window \in Nat /\ Needed(q) \in Nat \ {0}
  <2>1. \A i \in Seen(q) : i \in DOMAIN log /\ log[i].ts \in Int /\ log[i].ts <= log[c].ts
    BY SeenInLog, TimeOrder DEF Evaluated, IInv
  <2> QED BY <2>1, LogFacts, RuleFacts DEF Evaluated, IInv
<1>3. \A i : /\ InEvidence(q, i) => InEvidence(q, i)'
             /\ Passed(q, i) => Passed(q, i)'
  BY PassedStays DEF AddsAlerts
<1>4. PICK kept : kept = IF Len(buf) = Needed(q) THEN << >> ELSE buf
  OBVIOUS
<1>5. /\ <<q, g>> \in DOMAIN thresh' /\ thresh'[<<q, g>>] = kept
      /\ \A x : x # <<q, g>> /\ x \in DOMAIN thresh => x \in DOMAIN thresh' /\ thresh'[x] = thresh[x]
  BY <1>4, CountingWindows
<1>6. ASSUME NEW i \in Ids(buf) PROVE InEvidence(q, i)' \/ i \in Ids(kept)
  <2>1. CASE Len(buf) = Needed(q)
    <3>1. Len(fired) + 1 \in FiredBy(q)' /\ fired'[Len(fired) + 1] = a
      BY <2>1, CountingAlerts
    <3> QED BY <3>1 DEF InEvidence, Ids
  <2>2. CASE Len(buf) # Needed(q)
    BY <1>4, <2>2
  <2> QED BY <2>1, <2>2
<1>7. Counts(q, g, c) /\ GroupOf(Rules[q], log[c]) = g
  BY DEF Counting, Counts
<1>8. c \in Ids(buf)
  BY CountingIds
<1>9. ASSUME NEW i \in Seen(q)', Matches(Rules[q].steps[1], log[i])
      PROVE  \/ InEvidence(q, i)'
             \/ Passed(q, i)'
             \/ \E x \in DOMAIN thresh' : /\ x = <<q, GroupOf(Rules[q], log[i])>>
                                         /\ i \in Ids(thresh'[x])
  <2>1. CASE i = c
    BY <1>5, <1>6, <1>7, <1>8, <2>1
  <2>2. CASE i \in Seen(q)
    <3>1. \/ InEvidence(q, i)
          \/ Passed(q, i)
          \/ \E x \in DOMAIN thresh : /\ x = <<q, GroupOf(Rules[q], log[i])>>
                                      /\ i \in Ids(thresh[x])
      BY <1>1, <1>9, <2>2 DEF CountedBy
    <3>2. ASSUME NEW x \in DOMAIN thresh, x = <<q, GroupOf(Rules[q], log[i])>>,
                 i \in Ids(thresh[x])
          PROVE  \/ InEvidence(q, i)'
                 \/ Passed(q, i)'
                 \/ \E y \in DOMAIN thresh' : /\ y = <<q, GroupOf(Rules[q], log[i])>>
                                             /\ i \in Ids(thresh'[y])
      <4>1. CASE x # <<q, g>>
        <5>1. x \in DOMAIN thresh' /\ thresh'[x] = thresh[x]
          BY <1>5, <4>1
        <5> QED BY <3>2, <5>1
      <4>2. CASE x = <<q, g>>
        <5>1. old = thresh[x]
          BY <4>2 DEF Counting
        <5>2. i \in Ids(buf) \/ log[i].ts < log[c].ts - Rules[q].window
          BY <3>2, <5>1, CountingIds
        <5>3. log[i].ts < log[c].ts - Rules[q].window => Passed(q, i)'
          BY <1>2 DEF Passed
        <5>4. i \in Ids(buf) => InEvidence(q, i)' \/ i \in Ids(thresh'[x])
          BY <1>5, <1>6, <4>2
        <5>5. x \in DOMAIN thresh'
          BY <1>5, <4>2
        <5> QED BY <3>2, <5>2, <5>3, <5>4, <5>5
      <4> QED BY <4>1, <4>2
    <3> QED BY <1>3, <3>1, <3>2
  <2> QED BY <1>2, <2>1, <2>2
<1>10. \A S : IsBurst(q, S)' = IsBurst(q, S)
  BY <1>2 DEF IsBurst, Counts
<1>11. ASSUME NEW S \in SUBSET Seen(q)', IsBurst(q, S), \A i \in S : ~InEvidence(q, i)'
       PROVE  FALSE
  <2>1. c \in S
    <3>1. c \notin S => S \in SUBSET Seen(q)
      BY <1>2
    <3> QED BY <1>1, <1>3, <1>11, <3>1 DEF CountedBy
  <2>2. /\ \A i \in S : log[c].ts - log[i].ts <= Rules[q].window
        /\ Cardinality(S) = Needed(q)
    BY <1>11, <2>1 DEF IsBurst
  <2>3. PICK h : \A i \in S : Counts(q, h, i)
    BY <1>11 DEF IsBurst
  <2>4. h = g
    BY <1>7, <2>1, <2>3 DEF Counts
  <2>5. ASSUME NEW i \in S PROVE ~Passed(q, i)'
    <3>1. \A j \in Seen(q)' : ~(log[i].ts < log[j].ts - Rules[q].window)
      BY <1>2, <2>2
    <3> QED BY <1>2, <3>1 DEF Passed
  <2>6. ASSUME NEW i \in S PROVE i \in Ids(kept)
    <3>1. Matches(Rules[q].steps[1], log[i]) /\ GroupOf(Rules[q], log[i]) = g
      BY <2>3, <2>4 DEF Counts
    <3>2. \E x \in DOMAIN thresh' : x = <<q, g>> /\ i \in Ids(thresh'[x])
      BY <1>9, <1>11, <2>5, <3>1
    <3> QED BY <1>5, <3>2
  <2>7. kept \in Seq(Seen(q) \cup {c}) /\ Len(kept) < Needed(q) /\ Len(kept) \in Nat
    <3>1. buf \in Seq(Seen(q) \cup {c}) /\ Len(buf) \in 1 .. Needed(q)
      BY DEF Counting
    <3>2. CASE Len(buf) = Needed(q)
      <4>1. kept = << >>
        BY <1>4, <3>2
      <4> QED BY <1>2, <4>1
    <3>3. CASE Len(buf) # Needed(q)
      <4>1. kept = buf
        BY <1>4, <3>3
      <4> QED BY <1>2, <3>1, <3>3, <4>1
    <3> QED BY <3>2, <3>3
  <2>8. Cardinality(S) <= Len(kept)
    BY <2>6, <2>7, IdsBound
  <2> QED BY <1>2, <2>2, <2>7, <2>8
<1> QED BY <1>2, <1>9, <1>10, <1>11 DEF CountedBy

LEMMA ThresholdStep ==
    ASSUME IInv, Evaluate("threshold") PROVE EngineInv'
<1>1. Progress /\ EngineInv /\ Evaluated
  BY EvaluateEvaluates DEF IInv
<1>2. PICK q \in DOMAIN Rules : q = ri
  BY <1>1 DEF Evaluated
<1>3. PICK c : c = cur
  OBVIOUS
<1>4. /\ c \in DOMAIN log /\ c \in Nat /\ log[c].ts \in Int /\ log' = log
      /\ c \notin Seen(q)
      /\ Seen(q)' = Seen(q) \cup {c}
  BY <1>1, <1>2, <1>3, LogFacts DEF Evaluated
<1>5. Rules[q].kind = "threshold"
  BY <1>2 DEF Evaluate
<1>6. /\ thresh' = ThresholdRule(Engine, log, q, c).thresh
      /\ seq' = ThresholdRule(Engine, log, q, c).seq
      /\ fired' = ThresholdRule(Engine, log, q, c).fired
  <2>1. RuleStep(Engine, log, q, c) = ThresholdRule(Engine, log, q, c)
    BY <1>5 DEF RuleStep
  <2> QED BY <1>2, <1>3, <2>1 DEF Evaluate
<1>7. seq' = seq
  BY <1>6 DEF ThresholdRule, Engine, Fire
<1>8. Partials'
  BY <1>1, <1>7, SamePartials DEF EngineInv
<1>9. CASE ~Matches(Rules[q].steps[1], log[c])
  <2>1. thresh' = thresh /\ fired' = fired
    BY <1>6, <1>9 DEF ThresholdRule, Engine
  <2>2. PICK new : new = << >>
    OBVIOUS
  <2>3. fired' = fired \o new
    BY <1>1, <2>1, <2>2, ConcatEmptySeq DEF EngineInv, Reasons
  <2>4. Reasons' /\ AddsAlerts(q, new)
    <3>1. new \in Seq(AlertRecord) /\ \A m \in DOMAIN new : FALSE
      BY <2>2
    <3>2. \A m \in DOMAIN new : Raised(q, new[m])'
      BY <3>1
    <3> QED BY <1>1, <1>2, <2>3, <3>1, <3>2, FiredStep DEF EngineInv
  <2>5. ASSUME NEW r \in DOMAIN Rules
        PROVE  /\ r # q /\ DistinctIds => OnceBy(r)'
               /\ r # q => CountedBy(r)'
               /\ ChainedBy(r)'
    BY <1>1, <1>2, <1>5, <1>7, <2>1, <2>4, OthersKeep
  <2>6. ASSUME DistinctIds PROVE OnceBy(q)'
    <3>1. FiredBy(q)' = FiredBy(q)
      BY <2>1 DEF FiredBy
    <3> QED BY <1>1, <2>1, <2>6, <3>1 DEF EngineInv, Once, OnceBy
  <2>7. CountedBy(q)'
    <3>1. CountedBy(q)
      BY <1>1 DEF EngineInv, Counted
    <3>2. \A i : /\ InEvidence(q, i) => InEvidence(q, i)'
                 /\ Passed(q, i) => Passed(q, i)'
      BY <1>1, <2>4, PassedStays DEF AddsAlerts
    <3>3. \A S : IsBurst(q, S)' = IsBurst(q, S) /\ (IsBurst(q, S) => c \notin S)
      BY <1>4, <1>9 DEF IsBurst, Counts
    <3>4. ASSUME NEW i \in Seen(q)', Matches(Rules[q].steps[1], log[i])
          PROVE  \/ InEvidence(q, i)'
                 \/ Passed(q, i)'
                 \/ \E x \in DOMAIN thresh' : /\ x = <<q, GroupOf(Rules[q], log[i])>>
                                             /\ i \in Ids(thresh'[x])
      <4>1. i \in Seen(q)
        BY <1>4, <1>9, <3>4
      <4> QED BY <1>5, <2>1, <3>1, <3>2, <3>4, <4>1 DEF CountedBy
    <3>5. ASSUME NEW S \in SUBSET Seen(q)', IsBurst(q, S) PROVE \E i \in S : InEvidence(q, i)'
      <4>1. S \in SUBSET Seen(q)
        BY <1>4, <3>3, <3>5
      <4> QED BY <1>5, <3>1, <3>2, <3>5, <4>1 DEF CountedBy
    <3> QED BY <1>4, <3>3, <3>4, <3>5 DEF CountedBy
  <2>8. Windows'
    BY <1>1, <2>1, SameWindows DEF EngineInv
  <2> QED BY <1>8, <2>4, <2>5, <2>6, <2>7, <2>8 DEF EngineInv, Once, Counted, Chained
<1>10. CASE Matches(Rules[q].steps[1], log[c])
  <2>1. PICK g : g = GroupOf(Rules[q], log[c])
    OBVIOUS
  <2>2. PICK old, n, buf : Counting(q, c, g, old, n, buf)
    BY <1>2, <1>3, <1>10, <2>1, CountingStep
  <2>3. PICK a : a = Alert(Rules[q], g, log[c].ts, buf)
    OBVIOUS
  <2>4. PICK new : new = IF Len(buf) = Needed(q) THEN <<a>> ELSE << >>
    OBVIOUS
  <2>5. fired' = fired \o new /\ a.evidence = buf
    BY <2>2, <2>3, <2>4 DEF Counting, Alert
  <2>6. Reasons' /\ AddsAlerts(q, new)
    <3>1. CASE Len(buf) = Needed(q)
      <4>1. a \in AlertRecord /\ Raised(q, a)'
        BY <1>1, <1>2, <1>3, <1>5, <2>2, <2>3, <3>1, CountingRaises
      <4>2. /\ new \in Seq(AlertRecord) /\ \A m \in DOMAIN new : new[m] = a
        BY <2>4, <3>1, <4>1
      <4>3. \A m \in DOMAIN new : Raised(q, new[m])'
        BY <4>1, <4>2
      <4> QED BY <1>1, <1>2, <2>5, <4>2, <4>3, FiredStep DEF EngineInv
    <3>2. CASE Len(buf) # Needed(q)
      <4>1. new \in Seq(AlertRecord) /\ \A m \in DOMAIN new : FALSE
        BY <2>4, <3>2
      <4>2. \A m \in DOMAIN new : Raised(q, new[m])'
        BY <4>1
      <4> QED BY <1>1, <1>2, <2>5, <4>1, <4>2, FiredStep DEF EngineInv
    <3> QED BY <3>1, <3>2
  <2>7. /\ Windows'
        /\ \A x : x # <<q, g>> => /\ x \in DOMAIN thresh' <=> x \in DOMAIN thresh
                                  /\ x \in DOMAIN thresh => thresh'[x] = thresh[x]
    BY <1>1, <1>2, <1>3, <1>5, <2>2, CountingWindows
  <2>8. ASSUME NEW r \in DOMAIN Rules, r # q
        PROVE  /\ DistinctIds => OnceBy(r)'
               /\ CountedBy(r)' /\ ChainedBy(r)'
    <3>1. \A x : x[1] = r => x # <<q, g>>
      BY <2>8
    <3>2. \A x : x[1] = r => /\ x \in DOMAIN thresh' <=> x \in DOMAIN thresh
                             /\ x \in DOMAIN thresh => thresh'[x] = thresh[x]
      BY <2>7, <3>1
    <3> QED BY <1>1, <1>2, <1>7, <2>6, <2>8, <3>2, OthersKeep
  <2>9. DistinctIds => OnceBy(q)'
    BY <1>1, <1>2, <1>3, <1>5, <2>2, <2>4, <2>5, <2>6, CountingOnce
  <2>10. CountedBy(q)' /\ ChainedBy(q)'
    <3>1. ChainedBy(q)'
      BY <1>5 DEF ChainedBy
    <3> QED BY <1>1, <1>2, <1>3, <1>5, <2>2, <2>4, <2>5, <2>6, <3>1, CountingCounts
  <2> QED BY <1>8, <2>6, <2>7, <2>8, <2>9, <2>10 DEF EngineInv, Once, Counted, Chained
<1> QED BY <1>9, <1>10
-----------------------------------------------------------------------------
(***************************************************************************)
(* Chains.                                                                 *)
(***************************************************************************)
LEMMA HighestFacts ==
    ASSUME NEW r \in DOMAIN Rules, Rules[r].kind = "chain", NEW e
    PROVE  /\ Len(Rules[r].steps) = 2
           /\ \/ HighestStep(Rules[r], e) = 0 /\ ~Matches(Rules[r].steps[1], e)
                 /\ ~Matches(Rules[r].steps[2], e)
              \/ HighestStep(Rules[r], e) = 1 /\ Matches(Rules[r].steps[1], e)
                 /\ ~Matches(Rules[r].steps[2], e)
              \/ HighestStep(Rules[r], e) = 2 /\ Matches(Rules[r].steps[2], e)
<1> DEFINE ss == {s \in DOMAIN Rules[r].steps : Matches(Rules[r].steps[s], e)}
<1>1. DOMAIN Rules[r].steps = 1 .. 2 /\ Len(Rules[r].steps) = 2
  BY RulesAssumption
<1>2. HighestStep(Rules[r], e) = IF ss = {} THEN 0 ELSE CHOOSE s \in ss : \A t \in ss : t <= s
  BY DEF HighestStep
<1>3. \A s : s \in ss <=> (s = 1 \/ s = 2) /\ Matches(Rules[r].steps[s], e)
  BY <1>1
<1> HIDE DEF ss
<1>4. CASE 2 \in ss
  <2>1. 2 \in ss /\ \A t \in ss : t <= 2
    BY <1>3, <1>4
  <2>2. \A s \in ss : (\A t \in ss : t <= s) => s = 2
    BY <1>3, <1>4
  <2>3. (CHOOSE s \in ss : \A t \in ss : t <= s) = 2
    BY <2>1, <2>2
  <2> QED BY <1>1, <1>2, <1>3, <1>4, <2>3
<1>5. CASE 2 \notin ss /\ 1 \in ss
  <2>1. \A s : s \in ss <=> s = 1
    BY <1>3, <1>5
  <2>2. (CHOOSE s \in ss : \A t \in ss : t <= s) = 1
    BY <2>1
  <2> QED BY <1>1, <1>2, <1>3, <1>5, <2>2
<1>6. CASE 2 \notin ss /\ 1 \notin ss
  <2>1. ss = {}
    BY <1>3, <1>6
  <2> QED BY <1>1, <1>2, <1>3, <1>6, <2>1
<1> QED BY <1>4, <1>5, <1>6

\* What the step adds to the pairs seen.
LEMMA NewPairs ==
    ASSUME IInv, Evaluated, NEW q \in DOMAIN Rules, q = ri, NEW c, c = cur,
           NEW i \in Seen(q)', NEW j \in Seen(q)', ChainPair(q, i, j)
    PROVE  i \in Seen(q) /\ (j \in Seen(q) \/ j = c)
<1>1. /\ Seen(q)' = Seen(q) \cup {c} /\ c \in DOMAIN log
      /\ \A k \in Seen(q) : k \in DOMAIN log /\ Before(log, k, c)
  BY SeenInLog DEF Evaluated, IInv
<1>2. Before(log, i, j)
  BY DEF ChainPair
<1>3. i # c
  BY <1>1, <1>2, TimeOrder DEF IInv
<1> QED BY <1>1, <1>3

\* A first step within the window of the event is still there.
LEMMA SeedHeld ==
    ASSUME IInv, Evaluated, NEW q \in DOMAIN Rules, q = ri, Rules[q].kind = "chain",
           NEW c, c = cur, NEW i \in Seen(q), ChainPair(q, i, c)
    PROVE  \E x \in DOMAIN seq : /\ x = <<q, 1, Field(Rules[q].by, log[c])>>
                                /\ <<i>> \in Ids(seq[x])
<1>1. /\ c \in DOMAIN log /\ log[c].ts \in Int /\ Rules[q].window \in Nat
      /\ \A j \in Seen(q) : j \in DOMAIN log /\ log[j].ts \in Int /\ log[j].ts <= log[c].ts
  <2>1. \A j \in Seen(q) : j \in DOMAIN log /\ log[j].ts \in Int /\ log[j].ts <= log[c].ts
    BY SeenInLog, TimeOrder DEF Evaluated, IInv
  <2> QED BY <2>1, LogFacts, RuleFacts DEF Evaluated, IInv
<1>2. log[c].ts - log[i].ts <= Rules[q].window
  BY DEF ChainPair
<1>3. ~Passed(q, i)
  <2>1. \A j \in Seen(q) : ~(log[i].ts < log[j].ts - Rules[q].window)
    BY <1>1, <1>2
  <2> QED BY <2>1 DEF Passed
<1>4. Seeds(q, i) /\ Field(Rules[q].by, log[i]) = Field(Rules[q].by, log[c])
  BY DEF Seeds, ChainPair
<1>5. ChainedBy(q)
  BY DEF IInv, EngineInv, Chained
<1>6. \E x \in DOMAIN seq : /\ x = <<q, 1, Field(Rules[q].by, log[i])>>
                            /\ <<i>> \in Ids(seq[x])
  BY <1>3, <1>4, <1>5 DEF ChainedBy
<1> QED BY <1>4, <1>6

\* What a step of chain q has to show.
LEMMA ChainKeeps ==
    ASSUME IInv, Evaluated, NEW q \in DOMAIN Rules, q = ri, Rules[q].kind = "chain",
           NEW c, c = cur, NEW v, NEW new, AddsAlerts(q, new), Reasons', Partials',
           thresh' = thresh,
           \A x : x # <<q, 1, v>> => /\ x \in DOMAIN seq' <=> x \in DOMAIN seq
                                     /\ x \in DOMAIN seq => seq'[x] = seq[x],
           DistinctIds => OnceBy(q)',
           \A i \in Seen(q) : Seeds(q, i) => \A x \in DOMAIN seq :
              x = <<q, 1, v>> /\ <<i>> \in Ids(seq[x])
              => Passed(q, i)' \/ (x \in DOMAIN seq' /\ <<i>> \in Ids(seq'[x])),
           Seeds(q, c) => \E x \in DOMAIN seq' : /\ x = <<q, 1, Field(Rules[q].by, log[c])>>
                                                /\ <<c>> \in Ids(seq'[x]),
           \A i \in Seen(q) : ChainPair(q, i, c) =>
              \E k \in FiredBy(q)' : fired'[k].evidence = <<i, c>>
    PROVE  EngineInv'
<1>1. Progress /\ EngineInv
  BY DEF IInv
<1>2. Windows'
  BY <1>1, SameWindows DEF EngineInv
<1>3. ASSUME NEW r \in DOMAIN Rules, r # q
      PROVE  /\ DistinctIds => OnceBy(r)'
             /\ CountedBy(r)' /\ ChainedBy(r)'
  <2>1. \A x : x[1] = r => x # <<q, 1, v>>
    BY <1>3
  <2>2. \A x : x[1] = r => /\ x \in DOMAIN seq' <=> x \in DOMAIN seq
                           /\ x \in DOMAIN seq => seq'[x] = seq[x]
    BY <2>1
  <2> QED BY <1>1, <1>3, <2>2, OthersKeep
<1>4. CountedBy(q)'
  BY DEF CountedBy
<1>5. ChainedBy(q)'
  <2>1. log' = log /\ Seen(q)' = Seen(q) \cup {c}
    BY DEF Evaluated
  <2>2. \A i, j : Seeds(q, i)' = Seeds(q, i) /\ ChainPair(q, i, j)' = ChainPair(q, i, j)
    BY <2>1 DEF Seeds, ChainPair
  <2>3. ChainedBy(q)
    BY <1>1 DEF EngineInv, Chained
  <2>4. ASSUME NEW i \in Seen(q), Seeds(q, i)
        PROVE  \/ Passed(q, i)'
               \/ \E x \in DOMAIN seq' : /\ x = <<q, 1, Field(Rules[q].by, log[i])>>
                                        /\ <<i>> \in Ids(seq'[x])
    <3>1. CASE Passed(q, i)
      BY <3>1, PassedStays
    <3>2. CASE ~Passed(q, i)
      <4>1. PICK x \in DOMAIN seq : /\ x = <<q, 1, Field(Rules[q].by, log[i])>>
                                   /\ <<i>> \in Ids(seq[x])
        BY <2>3, <2>4, <3>2 DEF ChainedBy
      <4>2. CASE x = <<q, 1, v>>
        BY <2>4, <4>1, <4>2
      <4>3. CASE x # <<q, 1, v>>
        <5>1. x \in DOMAIN seq' /\ seq'[x] = seq[x]
          BY <4>3
        <5> QED BY <4>1, <5>1
      <4> QED BY <4>2, <4>3
    <3> QED BY <3>1, <3>2
  <2>5. ASSUME NEW i \in Seen(q)', NEW j \in Seen(q)', ChainPair(q, i, j)
        PROVE  \E k \in FiredBy(q)' : fired'[k].evidence = <<i, j>>
    <3>1. i \in Seen(q) /\ (j \in Seen(q) \/ j = c)
      BY <2>5, NewPairs
    <3>2. CASE j \in Seen(q)
      <4>1. PICK k \in FiredBy(q) : fired[k].evidence = <<i, j>>
        BY <2>3, <2>5, <3>1, <3>2 DEF ChainedBy
      <4>2. k \in FiredBy(q)' /\ fired'[k] = fired[k]
        BY DEF AddsAlerts
      <4> QED BY <4>1, <4>2
    <3>3. CASE j = c
      BY <2>5, <3>1, <3>3
    <3> QED BY <3>1, <3>2, <3>3
  <2>6. ASSUME NEW i \in Seen(q)', Seeds(q, i)
        PROVE  \/ Passed(q, i)'
               \/ \E x \in DOMAIN seq' : /\ x = <<q, 1, Field(Rules[q].by, log[i])>>
                                        /\ <<i>> \in Ids(seq'[x])
    <3>1. CASE i = c
      BY <2>6, <3>1
    <3>2. CASE i \in Seen(q)
      BY <2>4, <2>6, <3>2
    <3> QED BY <2>1, <3>1, <3>2
  <2>7. \A i \in Seen(q)' : Seeds(q, i)' =>
              \/ Passed(q, i)'
              \/ \E x \in DOMAIN seq' : /\ x = <<q, 1, Field(Rules[q].by, log'[i])>>
                                       /\ <<i>> \in Ids(seq'[x])
    BY <2>1, <2>2, <2>6
  <2>8. \A i, j \in Seen(q)' : ChainPair(q, i, j)' =>
              \E k \in FiredBy(q)' : fired'[k].evidence = <<i, j>>
    BY <2>2, <2>5
  <2> QED BY <2>7, <2>8, Zenon DEF ChainedBy
<1> QED BY <1>2, <1>3, <1>4, <1>5 DEF EngineInv, Once, Counted, Chained

\* Nothing fires.
LEMMA NothingFires ==
    ASSUME IInv, Evaluated, NEW q \in DOMAIN Rules, q = ri, Rules[q].kind = "chain",
           fired' = fired
    PROVE  /\ Reasons' /\ AddsAlerts(q, << >>)
           /\ DistinctIds => OnceBy(q)'
<1>1. PICK new : new = << >>
  OBVIOUS
<1>2. fired' = fired \o new
  BY <1>1, ConcatEmptySeq DEF IInv, EngineInv, Reasons
<1>3. new \in Seq(AlertRecord) /\ \A m \in DOMAIN new : FALSE
  BY <1>1
<1>4. \A m \in DOMAIN new : Raised(q, new[m])'
  BY <1>3
<1>5. Reasons' /\ AddsAlerts(q, new)
  BY <1>2, <1>3, <1>4, FiredStep DEF IInv, EngineInv
<1>6. ASSUME DistinctIds PROVE OnceBy(q)'
  <2>1. FiredBy(q)' = FiredBy(q)
    BY DEF FiredBy
  <2>2. OnceBy(q)
    BY <1>6 DEF IInv, EngineInv, Once
  <2> QED BY <2>1, <2>2 DEF OnceBy
<1> QED BY <1>1, <1>5, <1>6

\* What SequenceRule does with an event, by the highest step it satisfies.
Seeding(q, c, v) ==
    /\ fired' = fired
    /\ seq' = Stored(seq, <<q, 1, v>>, Append(Entry(seq, <<q, 1, v>>), <<c>>))
Live(q, c, v, old) == Picked(old, {k \in DOMAIN old : log[old[k][1]].ts >= log[c].ts - Rules[q].window})
Pairs(q, c, v, live) == [k \in DOMAIN live |->
                            Alert(Rules[q], v, log[c].ts, Append(live[k], c))]
Advancing(q, c, v, old, live) ==
    /\ <<q, 1, v>> \in DOMAIN seq /\ old = seq[<<q, 1, v>>] /\ v # Missing
    /\ live = Live(q, c, v, old)
    /\ seq' = Stored(seq, <<q, 1, v>>, live)
    /\ fired' = fired \o Pairs(q, c, v, live)

LEMMA ChainCases ==
    ASSUME IInv, Evaluate("chain"), NEW q \in DOMAIN Rules, q = ri, NEW c, c = cur,
           NEW v, v = Field(Rules[q].by, log[c])
    PROVE  /\ thresh' = thresh
           /\ \/ /\ ~Seeds(q, c) /\ ~Matches(Rules[q].steps[2], log[c])
                 /\ seq' = seq /\ fired' = fired
              \/ Seeds(q, c) /\ ~Matches(Rules[q].steps[2], log[c]) /\ Seeding(q, c, v)
              \/ /\ ~Seeds(q, c) /\ (v = Missing \/ <<q, 1, v>> \notin DOMAIN seq)
                 /\ seq' = seq /\ fired' = fired
              \/ /\ ~Seeds(q, c) /\ Matches(Rules[q].steps[2], log[c])
                 /\ \E old, live : Advancing(q, c, v, old, live)
<1> DEFINE s == HighestStep(Rules[q], log[c])
           en == SequenceRule(Engine, log, q, c)
           old == Entry(seq, <<q, 1, v>>)
           live == Live(q, c, v, old)
<1>1. Rules[q].kind = "chain"
  BY DEF Evaluate
<1>2. thresh' = en.thresh /\ seq' = en.seq /\ fired' = en.fired
  <2>1. RuleStep(Engine, log, q, c) = en
    BY <1>1 DEF RuleStep
  <2> HIDE DEF en
  <2> QED BY <2>1 DEF Evaluate
<1>3. /\ Len(Rules[q].steps) = 2
      /\ \/ s = 0 /\ ~Matches(Rules[q].steps[1], log[c]) /\ ~Matches(Rules[q].steps[2], log[c])
         \/ s = 1 /\ Matches(Rules[q].steps[1], log[c]) /\ ~Matches(Rules[q].steps[2], log[c])
         \/ s = 2 /\ Matches(Rules[q].steps[2], log[c])
  BY <1>1, HighestFacts
<1>4. Seeds(q, c) <=> s = 1
  BY <1>1, <1>3 DEF Seeds
<1>5. CASE s = 0
  <2>1. en = Engine
    BY <1>5 DEF SequenceRule
  <2> HIDE DEF en, s
  <2> QED BY <1>2, <1>3, <1>4, <1>5, <2>1 DEF Engine
<1>6. CASE s = 1
  <2>1. en = [Engine EXCEPT !.seq = Stored(@, <<q, 1, v>>, Append(Entry(@, <<q, 1, v>>), <<c>>))]
    BY <1>6 DEF SequenceRule
  <2> HIDE DEF en, s
  <2> QED BY <1>2, <1>3, <1>4, <1>6, <2>1 DEF Engine, Seeding
<1>7. CASE s = 2 /\ (v = Missing \/ <<q, 1, v>> \notin DOMAIN seq)
  <2>1. s - 1 = 1 /\ s > 1 /\ s # 0 /\ s # 1
    BY <1>7
  <2>2. en = Engine
    <3>1. <<q, s - 1, v>> = <<q, 1, v>> /\ Engine.seq = seq
      BY <2>1 DEF Engine
    <3>2. v = Missing \/ <<q, s - 1, v>> \notin DOMAIN Engine.seq
      <4> HIDE DEF s
      <4> QED BY <1>7, <3>1
    <3> QED BY <2>1, <3>2 DEF SequenceRule
  <2> HIDE DEF en, s
  <2> QED BY <1>2, <1>3, <1>4, <1>7, <2>2 DEF Engine
<1>8. CASE s = 2 /\ v # Missing /\ <<q, 1, v>> \in DOMAIN seq
  <2>1. s - 1 = 1 /\ s > 1 /\ s # 0 /\ s # 1 /\ s = Len(Rules[q].steps)
    BY <1>3, <1>8
  <2> DEFINE Kept(m, x) == Picked(Entry(m, x), {k \in DOMAIN Entry(m, x) :
                           log[Entry(m, x)[k][1]].ts >= log[c].ts - Rules[q].window})
             Moved(m, x) == [k \in DOMAIN Kept(m, x) |-> Append(Kept(m, x)[k], c)]
             F(m, x, w) == Fire([Engine EXCEPT !.seq = Stored(@, x, Kept(m, x))],
                             [k \in DOMAIN Moved(m, x) |->
                                Alert(Rules[q], w, log[c].ts, Moved(m, x)[k])])
             f == Field(Rules[q].by, log[c])
  <2>2. en = F(Engine.seq, <<q, s - 1, f>>, f)
    <3>1. Engine.seq = seq
      BY DEF Engine
    <3>2. <<q, s - 1, f>> = <<q, 1, v>>
      BY <2>1
    <3>3. v # Missing /\ <<q, 1, v>> \in DOMAIN Engine.seq
      <4> HIDE DEF s
      <4> QED BY <1>8, <3>1
    <3>4. s > 1 /\ f # Missing /\ <<q, s - 1, f>> \in DOMAIN Engine.seq
      <4> HIDE DEF s
      <4> QED BY <2>1, <3>2, <3>3
    <3> QED BY <2>1, <3>4 DEF SequenceRule
  <2>3. <<q, s - 1, f>> = <<q, 1, v>> /\ f = v /\ Engine.seq = seq
    BY <2>1 DEF Engine
  <2>4. en = F(seq, <<q, 1, v>>, v)
    <3> HIDE DEF F, s, en, f
    <3> QED BY <2>2, <2>3
  <2>5. old = seq[<<q, 1, v>>]
    BY <1>8 DEF Entry
  <2>6. /\ en.thresh = thresh
        /\ en.seq = Stored(seq, <<q, 1, v>>, Kept(seq, <<q, 1, v>>))
        /\ en.fired = fired \o [k \in DOMAIN Moved(seq, <<q, 1, v>>) |->
                            Alert(Rules[q], v, log[c].ts, Moved(seq, <<q, 1, v>>)[k])]
    <3> HIDE DEF en, Kept, Moved
    <3> QED BY <2>4 DEF Fire, Engine
  <2>7. Kept(seq, <<q, 1, v>>) = live
    BY DEF Live
  <2> HIDE DEF Kept, live, en, s
  <2>8. [k \in DOMAIN Moved(seq, <<q, 1, v>>) |-> Alert(Rules[q], v, log[c].ts, Moved(seq, <<q, 1, v>>)[k])]
           = [k \in DOMAIN live |-> Alert(Rules[q], v, log[c].ts, Append(live[k], c))]
    BY <2>7
  <2> HIDE DEF Moved
  <2>9. /\ thresh' = thresh
        /\ seq' = Stored(seq, <<q, 1, v>>, live)
        /\ fired' = fired \o Pairs(q, c, v, live)
    BY <1>2, <2>6, <2>7, <2>8 DEF Pairs
  <2>10. Advancing(q, c, v, old, live)
    <3> HIDE DEF old
    <3> QED BY <1>8, <2>5, <2>9 DEF Advancing, live
  <2> QED BY <1>3, <1>4, <1>8, <2>9, <2>10
<1> HIDE DEF s
<1> QED BY <1>3, <1>5, <1>6, <1>7, <1>8

\* Partial matches that are not too old for event c.
AreLive(q, c, v, live) ==
    /\ ArePartials(q, v, live)
    /\ \A k \in DOMAIN live : log[live[k][1]].ts >= log[c].ts - Rules[q].window

LEMMA LiveFacts ==
    ASSUME IInv, Evaluated, NEW q \in DOMAIN Rules, q = ri, Rules[q].kind = "chain",
           NEW c, c = cur, NEW v, NEW old, <<q, 1, v>> \in DOMAIN seq, old = seq[<<q, 1, v>>],
           NEW live, live = Live(q, c, v, old)
    PROVE  /\ AreLive(q, c, v, live)
           /\ \A i : <<i>> \in Ids(old) =>
                 \/ <<i>> \in Ids(live)
                 \/ log[i].ts < log[c].ts - Rules[q].window
<1>1. ArePartials(q, v, old)
  <2>1. \A x : x \in DOMAIN seq => ArePartials(x[1], x[3], seq[x])
    BY Zenon DEF IInv, EngineInv, Partials
  <2>2. <<q, 1, v>>[1] = q /\ <<q, 1, v>>[3] = v
    OBVIOUS
  <2>3. ArePartials(<<q, 1, v>>[1], <<q, 1, v>>[3], seq[<<q, 1, v>>])
    BY <2>1, Zenon
  <2> QED BY <2>2, <2>3
<1> DEFINE K == {k \in DOMAIN old : log[old[k][1]].ts >= log[c].ts - Rules[q].window}
<1>2. live = Picked(old, K)
  BY DEF Live
<1>3. old \in Seq(Seq(Seen(q))) /\ DOMAIN old = 1 .. Len(old) /\ Len(old) \in Nat
  BY <1>1 DEF ArePartials
<1>4. \A k \in K : k \in DOMAIN old /\ log[old[k][1]].ts >= log[c].ts - Rules[q].window
  OBVIOUS
<1>5. \A k \in DOMAIN old : k \in K \/ ~(log[old[k][1]].ts >= log[c].ts - Rules[q].window)
  OBVIOUS
<1> HIDE DEF K
<1>6. live \in Seq(Seq(Seen(q))) /\ \E at : PickedAt(live, old, K, Len(old), at)
  BY <1>2, <1>3, PickedFacts
<1>7. PICK at : PickedAt(live, old, K, Len(old), at)
  BY <1>6
<1>8. DOMAIN live = 1 .. Len(live) /\ Len(live) \in Nat
  BY <1>6
<1>9. ASSUME NEW k \in DOMAIN live
      PROVE  at[k] \in K /\ at[k] \in DOMAIN old /\ live[k] = old[at[k]]
  BY <1>3, <1>7, <1>8 DEF PickedAt
<1>10. \A k \in DOMAIN live : log[live[k][1]].ts >= log[c].ts - Rules[q].window
  BY <1>4, <1>9
<1>11. ASSUME NEW j \in DOMAIN live, NEW k \in DOMAIN live, live[j] = live[k] PROVE j = k
  <2>1. at[j] = at[k]
    <3>1. \A l, m \in DOMAIN old : old[l] = old[m] => l = m
      BY <1>1 DEF ArePartials
    <3>2. /\ at[j] \in DOMAIN old /\ live[j] = old[at[j]]
          /\ at[k] \in DOMAIN old /\ live[k] = old[at[k]]
      BY <1>9
    <3> QED BY <1>11, <3>1, <3>2
  <2>2. j < k => at[j] < at[k]
    BY <1>7, <1>8 DEF PickedAt
  <2>3. k < j => at[k] < at[j]
    BY <1>7, <1>8 DEF PickedAt
  <2>4. j \in Int /\ k \in Int /\ at[j] \in Int
    <3>1. at[j] \in DOMAIN old
      BY <1>9
    <3> QED BY <1>3, <1>8, <3>1
  <2> QED BY <2>1, <2>2, <2>3, <2>4
<1>12. ArePartials(q, v, live)
  <2>1. ASSUME NEW k \in DOMAIN live
        PROVE  /\ live[k] = <<live[k][1]>> /\ live[k][1] \in Seen(q)
               /\ Seeds(q, live[k][1]) /\ Field(Rules[q].by, log[live[k][1]]) = v
    BY <1>1, <1>9 DEF ArePartials
  <2> QED BY <1>6, <1>11, <2>1 DEF ArePartials
<1>13. ASSUME NEW i, <<i>> \in Ids(old)
       PROVE  <<i>> \in Ids(live) \/ log[i].ts < log[c].ts - Rules[q].window
  <2>1. PICK k \in DOMAIN old : old[k] = <<i>>
    BY <1>13 DEF Ids
  <2>2. CASE k \in K
    <3>1. PICK m \in 1 .. Len(live) : at[m] = k
      BY <1>3, <1>7, <2>2 DEF PickedAt
    <3> QED BY <1>8, <1>9, <2>1, <3>1 DEF Ids
  <2>3. CASE k \notin K
    <3>1. old[k][1] = i /\ i \in Seen(q)
      <4>1. old[k][1] \in Seen(q)
        BY <1>1 DEF ArePartials
      <4> QED BY <2>1, <4>1
    <3>2. log[i].ts \in Int /\ log[c].ts \in Int /\ Rules[q].window \in Nat
      BY <3>1, SeenInLog, LogFacts, RuleFacts DEF IInv, Evaluated
    <3> QED BY <1>5, <2>3, <3>1, <3>2
  <2> QED BY <2>2, <2>3
<1> QED BY <1>10, <1>12, <1>13 DEF AreLive

\* The partial matches of one key become ps.
LEMMA StoredPartials ==
    ASSUME IInv, Evaluated, NEW q \in DOMAIN Rules, q = ri, NEW v, NEW ps,
           ArePartials(q, v, ps)', seq' = Stored(seq, <<q, 1, v>>, ps)
    PROVE  /\ Partials'
           /\ <<q, 1, v>> \in DOMAIN seq' /\ seq'[<<q, 1, v>>] = ps
           /\ \A x : x # <<q, 1, v>> => /\ x \in DOMAIN seq' <=> x \in DOMAIN seq
                                        /\ x \in DOMAIN seq => seq'[x] = seq[x]
<1>1. /\ DOMAIN seq' = DOMAIN seq \cup {<<q, 1, v>>}
      /\ seq'[<<q, 1, v>>] = ps
      /\ \A x \in DOMAIN seq : x # <<q, 1, v>> => seq'[x] = seq[x]
  BY DEF Stored
<1>2. ASSUME NEW x \in DOMAIN seq'
      PROVE  /\ x = <<x[1], 1, x[3]>> /\ x[1] \in DOMAIN Rules
             /\ ArePartials(x[1], x[3], seq[x])'
  <2>1. CASE x = <<q, 1, v>>
    <3>1. x[1] = q /\ x[3] = v /\ seq'[x] = ps
      BY <1>1, <2>1
    <3> QED BY <2>1, <3>1
  <2>2. CASE x # <<q, 1, v>>
    <3>1. x \in DOMAIN seq /\ seq'[x] = seq[x]
      BY <1>1, <2>2
    <3>2. x = <<x[1], 1, x[3]>> /\ x[1] \in DOMAIN Rules /\ ArePartials(x[1], x[3], seq[x])
      BY <3>1, Zenon DEF IInv, EngineInv, Partials
    <3>3. PICK b : b = seq[x]
      OBVIOUS
    <3>4. ArePartials(x[1], x[3], b)'
      BY <3>2, <3>3, OtherPartials
    <3> QED BY <3>1, <3>2, <3>3, <3>4
  <2> QED BY <2>1, <2>2
<1>3. Partials'
  BY <1>2, Zenon DEF Partials
<1>4. \A x : x # <<q, 1, v>> => /\ x \in DOMAIN seq' <=> x \in DOMAIN seq
                                /\ x \in DOMAIN seq => seq'[x] = seq[x]
  BY <1>1
<1>5. <<q, 1, v>> \in DOMAIN seq' /\ seq'[<<q, 1, v>>] = ps
  BY <1>1
<1> QED BY <1>3, <1>4, <1>5, Zenon

LEMMA PartialsStay ==
    ASSUME Evaluated, NEW q \in DOMAIN Rules, NEW v, NEW ps, ArePartials(q, v, ps)
    PROVE  ArePartials(q, v, ps)'
<1>1. <<q, 1, v>>[1] = q /\ <<q, 1, v>>[3] = v
  OBVIOUS
<1>2. ASSUME NEW x, x[1] \in DOMAIN Rules, ArePartials(x[1], x[3], ps)
      PROVE  ArePartials(x[1], x[3], ps)'
  BY <1>2, OtherPartials
<1> QED BY <1>1, <1>2

ArePairs(c, live, new) ==
    /\ DOMAIN new = DOMAIN live
    /\ \A m \in DOMAIN live : new[m].evidence = <<live[m][1], c>>
AreRaised(q, new) ==
    /\ new \in Seq(AlertRecord)
    /\ \A m \in DOMAIN new : Raised(q, new[m])'

\* What fires in a step of a chain: the event with each of the first steps that are live.
LEMMA AdvancingAlerts ==
    ASSUME IInv, Evaluated, NEW q \in DOMAIN Rules, q = ri, Rules[q].kind = "chain",
           NEW c, c = cur, Matches(Rules[q].steps[2], log[c]),
           NEW v, v = Field(Rules[q].by, log[c]), v # Missing,
           NEW live, AreLive(q, c, v, live), NEW new, new = Pairs(q, c, v, live)
    PROVE  AreRaised(q, new) /\ ArePairs(c, live, new)
<1>1. /\ log' = log /\ Seen(q)' = Seen(q) \cup {c} /\ c \in DOMAIN log /\ log[c].ts \in Int
      /\ c \in Nat /\ Rules[q].window \in Nat
      /\ \A i \in Seen(q) : i \in Nat /\ Before(log, i, c) /\ log[i].ts \in Int
  BY LogFacts, SeenInLog, RuleFacts DEF IInv, Evaluated
<1>2. live \in Seq(Seq(Seen(q))) /\ DOMAIN live = 1 .. Len(live) /\ Len(live) \in Nat
  BY DEF ArePartials, AreLive
<1>3. v \in Groups
  BY <1>1 DEF Groups
<1>4. ASSUME NEW m \in DOMAIN live
      PROVE  /\ new[m] \in AlertRecord
             /\ new[m].evidence = <<live[m][1], c>>
             /\ Raised(q, new[m])'
  <2>1. PICK i : i = live[m][1]
    OBVIOUS
  <2>2. /\ live[m] = <<i>> /\ i \in Seen(q) /\ Seeds(q, i)
        /\ Field(Rules[q].by, log[i]) = v
    BY <2>1 DEF ArePartials, AreLive
  <2>3. log[i].ts >= log[c].ts - Rules[q].window
    BY <2>1 DEF AreLive
  <2>4. Append(live[m], c) = <<i, c>>
    <3> DEFINE p == Append(<<i>>, c)
    <3>1. <<i>> \in Seq(Nat) /\ Len(<<i>>) = 1 /\ c \in Nat
      BY <1>1, <2>2
    <3>2. p \in Seq(Nat) /\ Len(p) = 2 /\ p[1] = i /\ p[2] = c
      BY <3>1, AppendProperties
    <3> HIDE DEF p
    <3>3. <<i, c>> \in Seq(Nat) /\ Len(<<i, c>>) = 2 /\ <<i, c>>[1] = i /\ <<i, c>>[2] = c
      BY <1>1, <2>2
    <3>4. \A m1 \in 1 .. 2 : p[m1] = <<i, c>>[m1]
      BY <3>2, <3>3
    <3>5. p = <<i, c>>
      BY <3>2, <3>3, <3>4, SeqEqual
    <3> QED BY <2>2, <3>5 DEF p
  <2>5. <<i, c>> \in Seq(Nat)
    BY <1>1, <2>2
  <2>6. PICK a : a = Alert(Rules[q], v, log[c].ts, <<i, c>>)
    OBVIOUS
  <2>7. new[m] = a
    BY <2>4, <2>6 DEF Pairs
  <2>8. a \in AlertRecord
    BY <1>1, <1>3, <2>5, <2>6, AlertTyped DEF IInv
  <2>9. /\ a.id = <<Rules[q].id, v, log[c].ts>> /\ a.ts = log[c].ts
        /\ a.evidence = <<i, c>>
    BY <2>6 DEF Alert
  <2>10. ChainPair(q, i, c)
    <3>1. log[c].ts - log[i].ts <= Rules[q].window
      BY <1>1, <2>2, <2>3
    <3> QED BY <1>1, <2>2, <3>1 DEF ChainPair, Seeds
  <2>11. Raised(q, a)'
    <3>1. ChainPair(q, i, c)'
      BY <1>1, <2>10 DEF ChainPair
    <3> QED BY <1>1, <2>2, <2>9, <3>1 DEF Raised
  <2> QED BY <2>1, <2>7, <2>8, <2>9, <2>11
<1>5. new \in Seq(AlertRecord)
  <2>1. new = [k \in 1 .. Len(live) |-> new[k]]
    BY <1>2 DEF Pairs
  <2>2. \A k \in 1 .. Len(live) : new[k] \in AlertRecord
    BY <1>2, <1>4
  <2> HIDE DEF AlertRecord
  <2>3. [k \in 1 .. Len(live) |-> new[k]] \in [1 .. Len(live) -> AlertRecord]
    BY <2>2
  <2> QED BY <1>2, <2>1, <2>3
<1>6. DOMAIN new = DOMAIN live
  BY DEF Pairs
<1>7. \A m \in DOMAIN new : Raised(q, new[m])'
  BY <1>4, <1>6
<1>8. \A m \in DOMAIN live : new[m].evidence = <<live[m][1], c>>
  BY <1>4
<1> QED BY <1>5, <1>6, <1>7, <1>8 DEF ArePairs, AreRaised

\* No pair fires twice.
LEMMA AdvancingOnce ==
    ASSUME IInv, Evaluated, NEW q \in DOMAIN Rules, q = ri, Rules[q].kind = "chain",
           NEW c, c = cur, NEW v, NEW live, ArePartials(q, v, live),
           NEW new, AddsAlerts(q, new), ArePairs(c, live, new), DistinctIds
    PROVE  OnceBy(q)'
<1>1. OnceBy(q)
  BY DEF IInv, EngineInv, Once
<1>2. ASSUME NEW k \in FiredBy(q)'
      PROVE  \/ k \in FiredBy(q) /\ fired'[k].evidence = fired[k].evidence
             \/ \E m \in DOMAIN live : /\ k = Len(fired) + m
                                       /\ fired'[k].evidence = <<live[m][1], c>>
  <2>1. k \in FiredBy(q) \/ \E m \in DOMAIN new : k = Len(fired) + m
    BY DEF AddsAlerts
  <2>2. CASE k \in FiredBy(q)
    BY <2>2 DEF AddsAlerts
  <2>3. CASE \E m \in DOMAIN new : k = Len(fired) + m
    <3>1. PICK m \in DOMAIN new : k = Len(fired) + m
      BY <2>3
    <3>2. fired'[Len(fired) + m] = new[m]
      BY DEF AddsAlerts
    <3>3. m \in DOMAIN live /\ fired'[k].evidence = <<live[m][1], c>>
      BY <3>1, <3>2 DEF ArePairs
    <3> QED BY <3>1, <3>3
  <2> QED BY <2>1, <2>2, <2>3
<1>3. ASSUME NEW k \in FiredBy(q), NEW i PROVE fired[k].evidence # <<i, c>>
  <2>1. fired[k].id[1] = Rules[q].id /\ k \in DOMAIN fired
    BY DEF FiredBy
  <2>2. PICK r \in DOMAIN Rules : Raised(r, fired[k])
    BY <2>1 DEF IInv, EngineInv, Reasons
  <2>3. r = q
    BY <2>1, <2>2 DEF Raised, DistinctIds
  <2>4. PICK l, j \in Seen(q) : fired[k].evidence = <<l, j>>
    BY <2>2, <2>3 DEF Raised
  <2>5. c \notin Seen(q)
    BY DEF Evaluated
  <2> QED BY <2>4, <2>5
<1>4. \A l, m \in DOMAIN live : live[l][1] = live[m][1] => l = m
  BY DEF ArePartials
<1>5. ASSUME NEW j \in FiredBy(q)', NEW k \in FiredBy(q)',
             fired'[j].evidence = fired'[k].evidence
      PROVE  j = k
  <2>1. CASE /\ j \in FiredBy(q) /\ fired'[j].evidence = fired[j].evidence
             /\ k \in FiredBy(q) /\ fired'[k].evidence = fired[k].evidence
    BY <1>1, <1>5, <2>1 DEF OnceBy
  <2>2. CASE /\ \E m \in DOMAIN live : /\ j = Len(fired) + m
                                       /\ fired'[j].evidence = <<live[m][1], c>>
             /\ \E m \in DOMAIN live : /\ k = Len(fired) + m
                                       /\ fired'[k].evidence = <<live[m][1], c>>
    BY <1>4, <1>5, <2>2
  <2> QED BY <1>2, <1>3, <1>5, <2>1, <2>2
<1> QED BY <1>5 DEF OnceBy

LEMMA ChainStep ==
    ASSUME IInv, Evaluate("chain") PROVE EngineInv'
<1>1. Progress /\ EngineInv /\ Evaluated
  BY EvaluateEvaluates DEF IInv
<1>2. PICK q \in DOMAIN Rules : q = ri
  BY <1>1 DEF Evaluated
<1>3. PICK c : c = cur
  OBVIOUS
<1>4. PICK v : v = Field(Rules[q].by, log[c])
  OBVIOUS
<1>5. /\ c \in DOMAIN log /\ c \notin Seen(q) /\ log' = log
      /\ Seen(q)' = Seen(q) \cup {c}
  BY <1>1, <1>2, <1>3 DEF Evaluated
<1>6. Rules[q].kind = "chain"
  BY <1>2 DEF Evaluate
<1>7. thresh' = thresh
  BY <1>2, <1>3, <1>4, ChainCases
<1>8. CASE /\ seq' = seq /\ fired' = fired /\ ~Seeds(q, c)
           /\ \/ ~Matches(Rules[q].steps[2], log[c])
              \/ v = Missing
              \/ <<q, 1, v>> \notin DOMAIN seq
  <2>1. PICK new : new = << >>
    OBVIOUS
  <2>2. Reasons' /\ AddsAlerts(q, new) /\ (DistinctIds => OnceBy(q)')
    BY <1>1, <1>2, <1>6, <1>8, <2>1, NothingFires
  <2>3. Partials'
    BY <1>1, <1>8, SamePartials DEF EngineInv
  <2>4. ASSUME NEW i \in Seen(q), ChainPair(q, i, c) PROVE FALSE
    <3>1. \E x \in DOMAIN seq : x = <<q, 1, v>>
      BY <1>1, <1>2, <1>3, <1>4, <1>6, <2>4, SeedHeld
    <3>2. v # Missing /\ Matches(Rules[q].steps[2], log[c])
      BY <1>4, <2>4 DEF ChainPair
    <3> QED BY <1>8, <3>1, <3>2
  <2> QED BY <1>1, <1>2, <1>3, <1>6, <1>7, <1>8, <2>2, <2>3, <2>4, ChainKeeps
<1>9. CASE Seeds(q, c) /\ ~Matches(Rules[q].steps[2], log[c]) /\ Seeding(q, c, v)
  <2>1. PICK new : new = << >>
    OBVIOUS
  <2>2. Reasons' /\ AddsAlerts(q, new) /\ (DistinctIds => OnceBy(q)')
    BY <1>1, <1>2, <1>6, <1>9, <2>1, NothingFires DEF Seeding
  <2>3. PICK old : old = Entry(seq, <<q, 1, v>>)
    OBVIOUS
  <2>4. PICK ps : ps = Append(old, <<c>>)
    OBVIOUS
  <2>5. seq' = Stored(seq, <<q, 1, v>>, ps)
    BY <1>9, <2>3, <2>4 DEF Seeding
  <2>6. ArePartials(q, v, old)
    <3>1. CASE <<q, 1, v>> \in DOMAIN seq
      <4>1. old = seq[<<q, 1, v>>]
        BY <2>3, <3>1 DEF Entry
      <4>2. \A x : x \in DOMAIN seq => ArePartials(x[1], x[3], seq[x])
        BY <1>1, Zenon DEF EngineInv, Partials
      <4>3. <<q, 1, v>>[1] = q /\ <<q, 1, v>>[3] = v
        OBVIOUS
      <4>4. ArePartials(<<q, 1, v>>[1], <<q, 1, v>>[3], seq[<<q, 1, v>>])
        BY <3>1, <4>2, Zenon
      <4> QED BY <4>1, <4>3, <4>4
    <3>2. CASE <<q, 1, v>> \notin DOMAIN seq
      <4>1. old = << >>
        BY <2>3, <3>2 DEF Entry
      <4> QED BY <4>1 DEF ArePartials
    <3> QED BY <3>1, <3>2
  <2>7. ArePartials(q, v, old)'
    BY <1>1, <2>6, PartialsStay
  <2>8. /\ ps \in Seq(Seq(Seen(q)')) /\ Len(ps) = Len(old) + 1
        /\ \A m \in 1 .. Len(old) : ps[m] = old[m]
        /\ ps[Len(old) + 1] = <<c>>
        /\ Len(old) \in Nat /\ DOMAIN old = 1 .. Len(old) /\ DOMAIN ps = 1 .. Len(ps)
    <3>1. old \in Seq(Seq(Seen(q)')) /\ <<c>> \in Seq(Seen(q)')
      BY <1>5, <2>7 DEF ArePartials
    <3> QED BY <2>4, <3>1, AppendProperties
  <2>9. \A m \in 1 .. Len(ps) : m \in 1 .. Len(old) \/ m = Len(old) + 1
    BY <2>8
  <2>10. ArePartials(q, v, ps)'
    <3>1. ASSUME NEW m \in DOMAIN ps
          PROVE  /\ ps[m] = <<ps[m][1]>> /\ ps[m][1] \in Seen(q)'
                 /\ Seeds(q, ps[m][1]) /\ Field(Rules[q].by, log[ps[m][1]]) = v
      <4>1. CASE m \in 1 .. Len(old)
        BY <1>5, <2>6, <2>8, <4>1 DEF ArePartials
      <4>2. CASE m = Len(old) + 1
        <5>1. ps[m] = <<c>> /\ ps[m][1] = c
          BY <2>8, <4>2
        <5> QED BY <1>4, <1>5, <1>9, <5>1
      <4> QED BY <2>8, <2>9, <4>1, <4>2
    <3>2. \A m \in DOMAIN old : old[m] # <<c>>
      <4>1. \A m \in DOMAIN old : old[m][1] \in Seen(q)
        BY <2>6 DEF ArePartials
      <4> QED BY <1>5, <4>1
    <3>3. \A j, k \in DOMAIN old : old[j] = old[k] => j = k
      BY <2>6 DEF ArePartials
    <3>4. \A j, k \in DOMAIN ps : ps[j] = ps[k] => j = k
      BY <2>8, <2>9, <3>2, <3>3
    <3>5. \A i : Seeds(q, i)' = Seeds(q, i)
      BY <1>5 DEF Seeds
    <3> QED BY <1>5, <2>8, <3>1, <3>4, <3>5 DEF ArePartials
  <2>11. /\ Partials'
         /\ <<q, 1, v>> \in DOMAIN seq' /\ seq'[<<q, 1, v>>] = ps
         /\ \A x : x # <<q, 1, v>> => /\ x \in DOMAIN seq' <=> x \in DOMAIN seq
                                      /\ x \in DOMAIN seq => seq'[x] = seq[x]
    BY <1>1, <1>2, <2>5, <2>10, StoredPartials DEF IInv
  <2>12. Ids(old) \subseteq Ids(ps) /\ <<c>> \in Ids(ps)
    <3>1. \A m \in DOMAIN old : m \in DOMAIN ps /\ ps[m] = old[m]
      BY <2>8
    <3>2. Len(old) + 1 \in DOMAIN ps
      BY <2>8
    <3> QED BY <2>8, <3>1, <3>2 DEF Ids
  <2>13. ASSUME NEW i \in Seen(q), Seeds(q, i), NEW x \in DOMAIN seq,
                x = <<q, 1, v>>, <<i>> \in Ids(seq[x])
         PROVE  x \in DOMAIN seq' /\ <<i>> \in Ids(seq'[x])
    <3>1. old = seq[x]
      BY <2>3, <2>13 DEF Entry
    <3> QED BY <2>11, <2>12, <2>13, <3>1
  <2>14. \E x \in DOMAIN seq' : /\ x = <<q, 1, Field(Rules[q].by, log[c])>>
                               /\ <<c>> \in Ids(seq'[x])
    BY <1>4, <2>11, <2>12
  <2>15. \A i \in Seen(q) : ~ChainPair(q, i, c)
    BY <1>9 DEF ChainPair
  <2> QED BY <1>1, <1>2, <1>3, <1>6, <1>7, <2>2, <2>11, <2>13, <2>14, <2>15, ChainKeeps
<1>10. CASE ~Seeds(q, c) /\ Matches(Rules[q].steps[2], log[c])
               /\ \E old, live : Advancing(q, c, v, old, live)
  <2>1. PICK old, live : Advancing(q, c, v, old, live)
    BY <1>10
  <2>2. PICK new : new = Pairs(q, c, v, live)
    OBVIOUS
  <2>3. /\ <<q, 1, v>> \in DOMAIN seq /\ old = seq[<<q, 1, v>>] /\ v # Missing
        /\ live = Live(q, c, v, old)
        /\ seq' = Stored(seq, <<q, 1, v>>, live)
        /\ fired' = fired \o new
    BY <2>1, <2>2 DEF Advancing
  <2>4. /\ AreLive(q, c, v, live)
        /\ \A i : <<i>> \in Ids(old) =>
                 \/ <<i>> \in Ids(live)
                 \/ log[i].ts < log[c].ts - Rules[q].window
    BY <1>1, <1>2, <1>3, <1>6, <2>3, LiveFacts
  <2>5. Reasons' /\ AddsAlerts(q, new) /\ ArePairs(c, live, new)
    <3>1. AreRaised(q, new) /\ ArePairs(c, live, new)
      BY <1>1, <1>2, <1>3, <1>4, <1>6, <1>10, <2>2, <2>3, <2>4, AdvancingAlerts
    <3> QED BY <1>1, <1>2, <2>3, <3>1, FiredStep DEF EngineInv, AreRaised
  <2>7. DistinctIds => OnceBy(q)'
    BY <1>1, <1>2, <1>3, <1>6, <2>4, <2>5, AdvancingOnce DEF AreLive
  <2>8. /\ Partials'
        /\ <<q, 1, v>> \in DOMAIN seq' /\ seq'[<<q, 1, v>>] = live
        /\ \A x : x # <<q, 1, v>> => /\ x \in DOMAIN seq' <=> x \in DOMAIN seq
                                     /\ x \in DOMAIN seq => seq'[x] = seq[x]
    <3>1. ArePartials(q, v, live)'
      BY <1>1, <2>4, PartialsStay DEF AreLive
    <3> QED BY <1>1, <1>2, <2>3, <3>1, StoredPartials
  <2>9. ASSUME NEW i \in Seen(q), Seeds(q, i), NEW x \in DOMAIN seq,
               x = <<q, 1, v>>, <<i>> \in Ids(seq[x])
        PROVE  Passed(q, i)' \/ (x \in DOMAIN seq' /\ <<i>> \in Ids(seq'[x]))
    <3>1. <<i>> \in Ids(live) \/ log[i].ts < log[c].ts - Rules[q].window
      BY <2>3, <2>4, <2>9
    <3>2. log[i].ts < log[c].ts - Rules[q].window => Passed(q, i)'
      BY <1>5 DEF Passed
    <3> QED BY <2>8, <2>9, <3>1, <3>2
  <2>10. ASSUME NEW i \in Seen(q), ChainPair(q, i, c)
         PROVE  \E k \in FiredBy(q)' : fired'[k].evidence = <<i, c>>
    <3>1. <<i>> \in Ids(old)
      <4>1. \E x \in DOMAIN seq : x = <<q, 1, v>> /\ <<i>> \in Ids(seq[x])
        BY <1>1, <1>2, <1>3, <1>4, <1>6, <2>10, SeedHeld
      <4> QED BY <2>3, <4>1
    <3>2. ~(log[i].ts < log[c].ts - Rules[q].window)
      <4>1. log[i].ts \in Int /\ log[c].ts \in Int /\ Rules[q].window \in Nat
        BY <1>1, <1>5, SeenInLog, LogFacts, RuleFacts
      <4> QED BY <2>10, <4>1 DEF ChainPair
    <3>3. PICK m \in DOMAIN live : live[m] = <<i>>
      BY <2>4, <3>1, <3>2 DEF Ids
    <3>4. new[m].evidence = <<i, c>>
      BY <2>5, <3>3 DEF ArePairs
    <3>5. Len(fired) + m \in FiredBy(q)' /\ fired'[Len(fired) + m] = new[m]
      BY <2>5, <3>3 DEF AddsAlerts, ArePairs
    <3> QED BY <3>4, <3>5
  <2> QED BY <1>1, <1>2, <1>3, <1>6, <1>7, <1>10, <2>5, <2>7, <2>8, <2>9, <2>10, ChainKeeps
<1> QED BY <1>2, <1>3, <1>4, <1>8, <1>9, <1>10, ChainCases
-----------------------------------------------------------------------------
(***************************************************************************)
(* The theorems.                                                           *)
(***************************************************************************)
\* What is reported is what fired, deduplicated.
Reported == phase = "done" => alerts = Deduped(fired)

LEMMA InitInv == Init => IInv /\ Reported
<1>1. Init => Progress /\ phase = "load"
  BY InitProgress DEF Init
<1>2. phase = "load" => Reported
  BY DEF Reported
<1> QED BY <1>1, <1>2, EmptyEngine DEF IInv

LEMMA NextInv == IInv /\ Reported /\ [Next]_vars => (IInv /\ Reported)'
<1> SUFFICES ASSUME IInv, Reported, [Next]_vars PROVE (IInv /\ Reported)'
  OBVIOUS
<1>1. Progress /\ EngineInv /\ Progress'
  BY ProgressStep DEF IInv
<1>2. CASE \E e \in Event : Load(e)
  <2>1. phase' = "load"
    BY <1>2 DEF Load
  <2>2. (Progress /\ phase = "load" => EngineInv)'
    BY EmptyEngine, PTL
  <2>3. Reported'
    BY <2>1 DEF Reported
  <2> QED BY <1>1, <2>1, <2>2, <2>3 DEF IInv
<1>3. CASE Run \/ (\E i \in todo : Take(i)) \/ Dedup \/ UNCHANGED vars
  <2>1. UNCHANGED <<log, thresh, seq, fired>>
    BY <1>3 DEF Run, Take, Dedup, vars
  <2>2. \A r \in DOMAIN Rules : Seen(r)' = Seen(r)
    BY <1>1, <1>3, SeenSame
  <2>3. EngineInv'
    BY <1>1, <2>1, <2>2, EngineSame
  <2>4. Reported'
    BY <1>3 DEF Reported, Run, Take, Dedup, vars
  <2> QED BY <1>1, <2>3, <2>4 DEF IInv
<1>4. CASE Evaluate("atomic") \/ Evaluate("threshold") \/ Evaluate("chain")
  <2>1. EngineInv'
    BY <1>4, AtomicStep, ThresholdStep, ChainStep
  <2>2. Reported'
    BY <1>4 DEF Reported, Evaluate
  <2> QED BY <1>1, <2>1, <2>2 DEF IInv
<1> QED BY <1>2, <1>3, <1>4 DEF Next

\* The inductive invariant holds in every reachable state, for any rules and any log.
THEOREM Invariance == Spec => [](IInv /\ Reported)
BY InitInv, NextInv, PTL DEF Spec

\* Windows and partial matches hold ids of processed events, windows in time order.
LEMMA TypeFollows == IInv => TypeOK
<1> SUFFICES ASSUME IInv PROVE TypeOK
  OBVIOUS
<1>1. Progress /\ Windows /\ Partials
  BY DEF IInv, EngineInv
<1>2. \A r \in DOMAIN Rules : Seen(r) \subseteq DOMAIN log \ todo
  BY DEF Seen
<1>3. ASSUME NEW x \in DOMAIN thresh
      PROVE  /\ thresh[x] \in Seq(DOMAIN log \ todo)
             /\ \A j, k \in DOMAIN thresh[x] :
                   j < k => log[thresh[x][j]].ts <= log[thresh[x][k]].ts
  <2>1. x[1] \in DOMAIN Rules /\ IsWindow(x[1], x[2], thresh[x])
    BY <1>1, Zenon DEF Windows
  <2>2. thresh[x] \in Seq(Seen(x[1]))
    BY <2>1 DEF IsWindow
  <2>3. thresh[x] \in Seq(DOMAIN log \ todo)
    BY <1>2, <2>1, <2>2, SeqMonotonic
  <2>4. \A j \in DOMAIN thresh[x] : thresh[x][j] \in DOMAIN log
    BY <2>3
  <2>5. \A j, k \in DOMAIN thresh[x] : j < k => Before(log, thresh[x][j], thresh[x][k])
    BY <2>1 DEF IsWindow
  <2> QED BY <1>1, <2>3, <2>4, <2>5, TimeOrder
<1>4. ASSUME NEW x \in DOMAIN seq PROVE seq[x] \in Seq(Seq(DOMAIN log \ todo))
  <2>1. x[1] \in DOMAIN Rules /\ ArePartials(x[1], x[3], seq[x])
    BY <1>1, Zenon DEF Partials
  <2>2. seq[x] \in Seq(Seq(Seen(x[1])))
    BY <2>1 DEF ArePartials
  <2>3. Seq(Seen(x[1])) \subseteq Seq(DOMAIN log \ todo)
    BY <1>2, <2>1, SeqMonotonic
  <2> QED BY <2>2, <2>3, SeqMonotonic
<1> QED BY <1>1, <1>3, <1>4 DEF TypeOK, Progress

\* What the engine keeps is always well formed: windows and partial matches hold
\* only events already processed, and every window is in time order whatever the
\* order of the file (engine.rs:308-360).
THEOREM TypeCorrect == Spec => []TypeOK
BY Invariance, TypeFollows, PTL

\* At the end every rule has seen every event.
LEMMA AllSeen ==
    ASSUME IInv, phase = "done", NEW r PROVE Seen(r) = DOMAIN log
BY LogFacts DEF IInv, Progress, Seen

\* With distinct rule ids an alert is of one rule.
LEMMA AlertOfRule ==
    ASSUME IInv, DistinctIds, NEW r \in DOMAIN Rules, NEW k \in FiredBy(r)
    PROVE  k \in DOMAIN fired /\ Raised(r, fired[k])
<1>1. fired[k].id[1] = Rules[r].id /\ k \in DOMAIN fired
  BY DEF FiredBy
<1>2. PICK q \in DOMAIN Rules : Raised(q, fired[k])
  BY <1>1 DEF IInv, EngineInv, Reasons
<1>3. r = q
  BY <1>1, <1>2 DEF Raised, DistinctIds
<1> QED BY <1>1, <1>2, <1>3

LEMMA BurstsFollow == IInv => BurstsExact
<1> SUFFICES ASSUME IInv PROVE BurstsExact
  OBVIOUS
<1>1. NoBurstMissed
  <2> SUFFICES ASSUME phase = "done", NEW r \in DOMAIN Rules, NEW S \in SUBSET DOMAIN log,
                      IsBurst(r, S)
               PROVE  \E i \in S : InEvidence(r, i)
    BY DEF NoBurstMissed
  <2>1. Rules[r].kind = "threshold"
    BY DEF IsBurst
  <2>2. CountedBy(r)
    BY DEF IInv, EngineInv, Counted
  <2> QED BY <2>1, <2>2, AllSeen DEF CountedBy
<1>2. ASSUME DistinctIds PROVE BurstsAreReal
  <2> SUFFICES ASSUME NEW r \in DOMAIN Rules, NEW k \in FiredBy(r), Rules[r].kind = "threshold"
               PROVE  /\ Len(fired[k].evidence) = Needed(r)
                      /\ \A i \in Ids(fired[k].evidence) :
                            /\ Counts(r, fired[k].id[2], i)
                            /\ fired[k].ts - Rules[r].window <= log[i].ts
                            /\ log[i].ts <= fired[k].ts
    BY DEF BurstsAreReal
  <2>1. Raised(r, fired[k])
    BY <1>2, AlertOfRule
  <2> QED BY <2>1 DEF Raised, Ids
<1>3. ASSUME DistinctIds PROVE EvidenceCountedOnce
  BY <1>3 DEF IInv, EngineInv, Once, OnceBy, EvidenceCountedOnce
<1> QED BY <1>1, <1>2, <1>3 DEF BurstsExact

\* For any threshold rules, windows and groups, and whatever the order of the log, the
\* alerts are bursts, share no event, and every burst of the log meets one: what
\* eval_threshold prunes and resets never loses one.
THEOREM BurstsAlwaysExact == Spec => []BurstsExact
BY Invariance, BurstsFollow, PTL

LEMMA ChainsFollow == IInv => ChainsExact
<1> SUFFICES ASSUME IInv, phase = "done", DistinctIds,
                    NEW r \in DOMAIN Rules, Rules[r].kind = "chain"
             PROVE  /\ {fired[k].evidence : k \in FiredBy(r)} = ChainPairs(r)
                    /\ Cardinality(FiredBy(r)) = Cardinality(ChainPairs(r))
  BY DEF ChainsExact
<1>1. Seen(r) = DOMAIN log
  BY AllSeen
<1>2. ASSUME NEW k \in FiredBy(r) PROVE fired[k].evidence \in ChainPairs(r)
  <2>1. Raised(r, fired[k])
    BY AlertOfRule
  <2>2. PICK i, j \in Seen(r) : fired[k].evidence = <<i, j>> /\ ChainPair(r, i, j)
    BY <2>1 DEF Raised
  <2> QED BY <1>1, <2>2 DEF ChainPairs
<1>3. ASSUME NEW p \in ChainPairs(r) PROVE \E k \in FiredBy(r) : fired[k].evidence = p
  <2>1. PICK i, j \in DOMAIN log : p = <<i, j>> /\ ChainPair(r, i, j)
    BY DEF ChainPairs
  <2>2. ChainedBy(r)
    BY DEF IInv, EngineInv, Chained
  <2> QED BY <1>1, <2>1, <2>2 DEF ChainedBy
<1>4. \A j, k \in FiredBy(r) : fired[j].evidence = fired[k].evidence => j = k
  BY DEF IInv, EngineInv, Once, OnceBy
<1> DEFINE f == [k \in FiredBy(r) |-> fired[k].evidence]
<1>5. f \in Bijection(FiredBy(r), ChainPairs(r))
  <2>1. f \in [FiredBy(r) -> ChainPairs(r)]
    BY <1>2
  <2>2. f \in Injection(FiredBy(r), ChainPairs(r))
    BY <1>4, <2>1 DEF Injection, IsInjective
  <2>3. f \in Surjection(FiredBy(r), ChainPairs(r))
    BY <1>3, <2>1 DEF Surjection
  <2> QED BY <2>2, <2>3 DEF Bijection
<1>6. IsFiniteSet(FiredBy(r))
  <2>1. fired \in Seq(AlertRecord)
    BY DEF IInv, EngineInv, Reasons
  <2>2. DOMAIN fired = 1 .. Len(fired) /\ Len(fired) \in Nat
    BY <2>1
  <2>3. IsFiniteSet(1 .. Len(fired))
    BY <2>2, FS_Interval
  <2>4. FiredBy(r) \in SUBSET (1 .. Len(fired))
    BY <2>2 DEF FiredBy
  <2> QED BY <2>3, <2>4, FS_Subset
<1> HIDE DEF f
<1>7. Cardinality(ChainPairs(r)) = Cardinality(FiredBy(r))
  BY <1>5, <1>6, FS_Bijection DEF ExistsBijection
<1>8. {fired[k].evidence : k \in FiredBy(r)} = ChainPairs(r)
  BY <1>2, <1>3
<1> QED BY <1>7, <1>8

\* A chain has fired on exactly the pairs it is about, once for each, however the pairs
\* interleave and whatever the order of the log.
THEOREM ChainsAlwaysExact == Spec => []ChainsExact
BY Invariance, ChainsFollow, PTL

LEMMA KeepsAll == IInv /\ Reported => DistinctTimesKeepAll
<1> SUFFICES ASSUME IInv, Reported, phase = "done", DistinctIds,
                    \A i, j \in DOMAIN log : i # j => log[i].ts # log[j].ts,
                    NEW r \in DOMAIN Rules, Rules[r].kind # "chain", NEW k \in FiredBy(r)
             PROVE  \E j \in DOMAIN alerts : alerts[j] = fired[k]
  BY DEF DistinctTimesKeepAll
<1>1. fired \in Seq(AlertRecord) /\ Len(fired) \in Nat /\ DOMAIN fired = 1 .. Len(fired)
  <2>1. fired \in Seq(AlertRecord)
    BY DEF IInv, EngineInv, Reasons
  <2> HIDE DEF AlertRecord
  <2> QED BY <2>1
<1>2. k \in DOMAIN fired
  BY AlertOfRule
<1> DEFINE S == {m \in DOMAIN fired : fired[m].id = fired[k].id}
           K == {m \in DOMAIN fired : \A j \in 1 .. m - 1 : fired[j].id # fired[m].id}
<1>3. PICK m \in S : \A j \in S : m <= j
  <2>1. S \in SUBSET Nat /\ S # {}
    BY <1>1, <1>2
  <2> HIDE DEF S
  <2> QED BY <2>1, LeastExists
<1>4. m \in DOMAIN fired /\ fired[m].id = fired[k].id
  BY <1>3
<1>5. m \in K
  <2>1. ASSUME NEW j \in 1 .. m - 1 PROVE fired[j].id # fired[m].id
    <3>1. j \in DOMAIN fired /\ ~(m <= j)
      BY <1>1, <1>4
    <3> QED BY <1>3, <1>4, <3>1
  <2> QED BY <1>4, <2>1
<1>6. \E j \in DOMAIN alerts : alerts[j] = fired[m]
  <2>1. alerts = Picked(fired, K)
    BY DEF Reported, Deduped
  <2> HIDE DEF K
  <2>2. alerts \in Seq(AlertRecord) /\ \E at : PickedAt(alerts, fired, K, Len(fired), at)
    BY <1>1, <2>1, PickedFacts
  <2>3. PICK at : PickedAt(alerts, fired, K, Len(fired), at)
    BY <2>2
  <2>4. DOMAIN alerts = 1 .. Len(alerts)
    BY <2>2
  <2>5. PICK j \in 1 .. Len(alerts) : at[j] = m
    BY <1>1, <1>4, <1>5, <2>3 DEF PickedAt
  <2> QED BY <2>3, <2>4, <2>5 DEF PickedAt
<1>7. m \in FiredBy(r)
  BY <1>4 DEF FiredBy
<1>8. Raised(r, fired[k]) /\ Raised(r, fired[m])
  BY <1>7, AlertOfRule
<1>9. fired[m].ts = fired[k].ts
  BY <1>4, <1>8 DEF Raised
<1>10. fired[m].evidence = fired[k].evidence
  <2>1. \A i, j \in DOMAIN log : log[i].ts = log[j].ts => i = j
    OBVIOUS
  <2>2. Seen(r) = DOMAIN log
    BY AllSeen
  <2>3. CASE Rules[r].kind = "atomic"
    <3>1. PICK i \in DOMAIN log : fired[k].evidence = <<i>> /\ fired[k].ts = log[i].ts
      BY <1>8, <2>2, <2>3 DEF Raised
    <3>2. PICK j \in DOMAIN log : fired[m].evidence = <<j>> /\ fired[m].ts = log[j].ts
      BY <1>8, <2>2, <2>3 DEF Raised
    <3> QED BY <1>9, <2>1, <3>1, <3>2
  <2>4. CASE Rules[r].kind = "threshold"
    <3> DEFINE e == fired[k].evidence
               d == fired[m].evidence
    <3>1. /\ e \in Seq(DOMAIN log) /\ Len(e) = Needed(r) /\ fired[k].ts = log[e[Len(e)]].ts
          /\ d \in Seq(DOMAIN log) /\ Len(d) = Needed(r) /\ fired[m].ts = log[d[Len(d)]].ts
      BY <1>8, <2>2, <2>4 DEF Raised
    <3>2. Needed(r) \in Nat \ {0}
      BY RuleFacts
    <3> HIDE DEF e, d
    <3>3. /\ Len(e) \in DOMAIN e /\ e[Len(e)] \in DOMAIN log
          /\ Len(d) \in DOMAIN d /\ d[Len(d)] \in DOMAIN log
      BY <3>1, <3>2
    <3>4. e[Len(e)] = d[Len(d)]
      BY <1>9, <2>1, <3>1, <3>3
    <3>5. e[Len(e)] \in Ids(e) /\ e[Len(e)] \in Ids(d)
      BY <3>3, <3>4 DEF Ids
    <3>6. k # m => Ids(e) \cap Ids(d) = {}
      BY <1>7, <2>4 DEF IInv, EngineInv, Once, OnceBy, e, d
    <3> QED BY <3>5, <3>6
  <2> QED BY <2>3, <2>4, RuleFacts
<1>11. fired[m] = fired[k]
  <2>1. fired[m] \in AlertRecord /\ fired[k] \in AlertRecord
    BY <1>1, <1>2, <1>4
  <2> QED BY <1>4, <1>9, <1>10, <2>1 DEF AlertRecord
<1> QED BY <1>6, <1>11

\* The state of the engine is sound, and with distinct timestamps and rule ids
\* deduplication drops no alert of an atomic or threshold rule.
THEOREM SoundAndComplete == Spec => []Inv
<1>1. IInv /\ Reported => Inv
  BY TypeFollows, KeepsAll DEF Inv
<1> QED BY <1>1, Invariance, PTL
=============================================================================
