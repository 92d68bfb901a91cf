---------------------------- MODULE NatRecursion ----------------------------
(***************************************************************************)
(* Induction and recursion over the naturals, of sets and functions: the   *)
(* library states both with operators as parameters, which the provers     *)
(* cannot instantiate.                                                     *)
(***************************************************************************)
EXTENDS Naturals, WellFoundedInduction, TLAPS

LEMMA LeastExists ==
    ASSUME NEW S \in SUBSET Nat, S # {} PROVE \E x \in S : \A y \in S : x <= y
<1> DEFINE R == OpToRel(<, Nat)
<1>1. IsWellFoundedOn(R, Nat)
  BY NatLessThanWellFounded, Zenon
<1>2. \A x, y \in Nat : x < y => <<x, y>> \in R
  BY SMT DEF OpToRel
<1> HIDE DEF R
<1>3. PICK x \in S : \A y \in S : ~(<<y, x>> \in R)
  BY <1>1, WFMin
<1>4. ASSUME NEW y \in S PROVE x <= y
  <2>1. x \in Nat /\ y \in Nat
    OBVIOUS
  <2>2. ~(y < x)
    BY <1>2, <1>3, <2>1
  <2> QED BY <2>1, <2>2
<1> QED BY <1>4

\* Induction, of a set of numbers.
LEMMA AllNat ==
    ASSUME NEW T \in SUBSET Nat, 0 \in T, \A k \in T : k + 1 \in T PROVE T = Nat
<1> SUFFICES ASSUME Nat \ T # {} PROVE FALSE
  OBVIOUS
<1>1. PICK x \in Nat \ T : \A y \in Nat \ T : x <= y
  BY LeastExists
<1>2. x # 0 /\ x - 1 \in Nat
  OBVIOUS
<1>3. x - 1 \in T
  BY <1>1, <1>2
<1> QED BY <1>1, <1>2, <1>3

\* f is what the recursion has come to after n steps.
UpTo(n, f, S, base, step) ==
    /\ f \in [0 .. n -> S]
    /\ f[0] = base
    /\ \A k \in 0 .. n - 1 : f[k + 1] = step[<<k, f[k]>>]

LEMMA UpToExists ==
    ASSUME NEW S, NEW base \in S, NEW step \in [Nat \X S -> S], NEW n \in Nat
    PROVE  \E f : UpTo(n, f, S, base, step)
<1> DEFINE T == {k \in Nat : \E f : UpTo(k, f, S, base, step)}
<1>1. 0 \in T
  <2> DEFINE f == [k \in 0 .. 0 |-> base]
  <2>1. f \in [0 .. 0 -> S] /\ f[0] = base /\ 0 .. 0 - 1 = {}
    OBVIOUS
  <2> HIDE DEF f
  <2>2. UpTo(0, f, S, base, step)
    BY <2>1 DEF UpTo
  <2> QED BY <2>2
<1>2. ASSUME NEW k \in T PROVE k + 1 \in T
  <2>1. PICK f : UpTo(k, f, S, base, step)
    OBVIOUS
  <2> DEFINE g == [m \in 0 .. k + 1 |-> IF m \in 0 .. k THEN f[m] ELSE step[<<k, f[k]>>]]
  <2>2. f \in [0 .. k -> S] /\ k \in 0 .. k /\ f[k] \in S /\ step[<<k, f[k]>>] \in S
    BY <2>1 DEF UpTo
  <2>3. g \in [0 .. k + 1 -> S] /\ g[0] = f[0]
    BY <2>2
  <2>4. ASSUME NEW m \in 0 .. (k + 1) - 1 PROVE g[m + 1] = step[<<m, g[m]>>]
    <3>1. g[m] = f[m]
      OBVIOUS
    <3>2. CASE m = k
      BY <3>1, <3>2
    <3>3. CASE m # k
      <4>1. m \in 0 .. k - 1 /\ m + 1 \in 0 .. k /\ m + 1 \in 0 .. k + 1
        BY <3>3
      <4>2. g[m + 1] = f[m + 1]
        BY <4>1
      <4> HIDE DEF g
      <4> QED BY <2>1, <3>1, <4>1, <4>2 DEF UpTo
    <3> QED BY <3>2, <3>3
  <2> HIDE DEF g
  <2>5. UpTo(k + 1, g, S, base, step)
    BY <2>1, <2>3, <2>4 DEF UpTo
  <2> QED BY <2>5
<1>3. T = Nat
  <2>1. T \in SUBSET Nat
    OBVIOUS
  <2> HIDE DEF T
  <2> QED BY <1>1, <1>2, <2>1, AllNat
<1> QED BY <1>3

LEMMA UpToUnique ==
    ASSUME NEW S, NEW base, NEW step, NEW n \in Nat, NEW m \in Nat, NEW f, NEW g, n <= m,
           UpTo(n, f, S, base, step), UpTo(m, g, S, base, step)
    PROVE  \A k \in 0 .. n : f[k] = g[k]
<1> DEFINE T == {k \in Nat : k <= n => f[k] = g[k]}
<1>1. 0 \in T
  BY DEF UpTo
<1>2. ASSUME NEW k \in T PROVE k + 1 \in T
  <2> SUFFICES ASSUME k + 1 <= n PROVE f[k + 1] = g[k + 1]
    OBVIOUS
  <2>1. k \in 0 .. n - 1 /\ k \in 0 .. m - 1 /\ f[k] = g[k]
    OBVIOUS
  <2> QED BY <2>1 DEF UpTo
<1>3. T = Nat
  <2>1. T \in SUBSET Nat
    OBVIOUS
  <2> HIDE DEF T
  <2> QED BY <1>1, <1>2, <2>1, AllNat
<1> QED BY <1>3

\* A value and a step define a function on the numbers.
Recurs(f, S, base, step) ==
    /\ f \in [Nat -> S]
    /\ f[0] = base
    /\ \A k \in Nat : f[k + 1] = step[<<k, f[k]>>]

LEMMA RecursionExists ==
    ASSUME NEW S, NEW base \in S, NEW step \in [Nat \X S -> S]
    PROVE  \E f : Recurs(f, S, base, step)
<1> DEFINE U(n) == CHOOSE f : UpTo(n, f, S, base, step)
           F == [n \in Nat |-> U(n)[n]]
<1>1. \A n \in Nat : UpTo(n, U(n), S, base, step)
  <2> TAKE n \in Nat
  <2>1. \E f : UpTo(n, f, S, base, step)
    BY UpToExists
  <2> QED BY <2>1
<1> HIDE DEF U
<1>2. F \in [Nat -> S]
  <2>1. ASSUME NEW n \in Nat PROVE U(n)[n] \in S
    <3>1. UpTo(n, U(n), S, base, step)
      BY <1>1
    <3> QED BY <3>1 DEF UpTo
  <2> QED BY <2>1
<1>3. F[0] = base
  <2>1. UpTo(0, U(0), S, base, step)
    BY <1>1
  <2> QED BY <2>1 DEF UpTo
<1>4. ASSUME NEW k \in Nat PROVE F[k + 1] = step[<<k, F[k]>>]
  <2>1. UpTo(k, U(k), S, base, step) /\ UpTo(k + 1, U(k + 1), S, base, step)
    BY <1>1
  <2>2. U(k)[k] = U(k + 1)[k]
    BY <2>1, UpToUnique
  <2>3. U(k + 1)[k + 1] = step[<<k, U(k + 1)[k]>>]
    BY <2>1 DEF UpTo
  <2> QED BY <2>2, <2>3
<1> HIDE DEF F
<1>5. Recurs(F, S, base, step)
  BY <1>2, <1>3, <1>4 DEF Recurs
<1> QED BY <1>5
=============================================================================
