----------------------------- MODULE SetProofs ------------------------------
(***************************************************************************)
(* Lemmas about sets of numbers and about sums over finite sets, which the *)
(* ledger, the evidence of the bandit and the panels of the workbench are  *)
(* made of.  Sums are proved about by induction over the subsets of a      *)
(* finite set: if any of them is good as soon as it is good without any    *)
(* one of its members, all of them are.                                    *)
(***************************************************************************)
EXTENDS Integers, FiniteSets, Functions, FiniteSetTheorems, WellFoundedInduction, TLAPS

\* Induction over a set of numbers
LEMMA NatSetInduction ==
  ASSUME NEW P, P \subseteq Nat, 0 \in P, \A n \in P : n + 1 \in P
  PROVE  P = Nat
<1> DEFINE R == OpToRel(<, Nat)
           T == Nat \ P
<1>1. IsWellFoundedOn(R, Nat)
  BY NatLessThanWellFounded
<1>2. \A m, n \in Nat : <<m, n>> \in R <=> m < n
  BY DEF OpToRel
<1> HIDE DEF R
<1>3. SUFFICES ASSUME T # {} PROVE FALSE
  OBVIOUS
<1>4. PICK m \in T : \A n \in T : ~(<<n, m>> \in R)
  BY <1>1, <1>3, WFMin
<1>5. m \in Nat /\ m # 0 /\ m - 1 \in Nat /\ m - 1 < m
  BY <1>4
<1>6. m - 1 \in P
  BY <1>2, <1>4, <1>5
<1> QED
  BY <1>4, <1>5, <1>6

\* A set of numbers has a least one, and one with a bound has a greatest.
LEMMA LeastOf == ASSUME NEW S \in SUBSET Nat, S # {} PROVE \E j \in S : \A k \in S : j <= k
<1> DEFINE R == OpToRel(<, Nat)
<1>1. PICK j \in S : \A k \in S : ~(<<k, j>> \in R)
  BY NatLessThanWellFounded, WFMin
<1>2. \A m, n \in Nat : m < n => <<m, n>> \in R
  BY DEF OpToRel
<1> HIDE DEF R
<1>3. j \in Nat /\ \A k \in S : k \in Nat
  OBVIOUS
<1>4. \A k \in S : ~(k < j)
  BY <1>1, <1>2, <1>3
<1> QED
  BY <1>3, <1>4

LEMMA GreatestOf ==
  ASSUME NEW S \in SUBSET Nat, NEW n \in Nat, S \subseteq 0..n, S # {}
  PROVE  \E j \in S : \A k \in S : k <= j
<1> DEFINE T == {n - k : k \in S}
<1>1. T \in SUBSET Nat /\ T # {}
  <2>1. \A k \in S : k \in Nat /\ k <= n
    OBVIOUS
  <2>2. \A k \in S : n - k \in Nat
    BY <2>1
  <2>3. \A u \in T : u \in Nat
    BY <2>2
  <2>4. PICK k \in S : TRUE
    OBVIOUS
  <2>5. n - k \in T
    BY <2>4
  <2> HIDE DEF T
  <2> QED
    BY <2>3, <2>5
<1>2. PICK t \in T : \A u \in T : t <= u
  <2> HIDE DEF T
  <2> QED
    BY <1>1, LeastOf
<1>3. PICK j \in S : t = n - j
  OBVIOUS
<1>4. \A k \in S : n - j <= n - k /\ k \in 0..n /\ j \in 0..n
  BY <1>2, <1>3
<1>5. \A k \in S : k <= j
  BY <1>4
<1> QED
  BY <1>5

LEMMA FiniteSetInduction ==
  ASSUME NEW S, IsFiniteSet(S), NEW Good,
         \A s \in SUBSET S : (\A x \in s : s \ {x} \in Good) => s \in Good
  PROVE  S \in Good
<1> DEFINE N == {n \in Nat : \A s \in SUBSET S : Cardinality(s) = n => s \in Good}
<1>1. \A s \in SUBSET S : IsFiniteSet(s) /\ Cardinality(s) \in Nat
  BY FS_Subset, FS_CardinalityType
<1>2. 0 \in N
  BY <1>1, FS_EmptySet
<1>3. ASSUME NEW n \in N PROVE n + 1 \in N
  <2> SUFFICES ASSUME NEW s \in SUBSET S, Cardinality(s) = n + 1, NEW x \in s
               PROVE  s \ {x} \in Good
    OBVIOUS
  <2>1. Cardinality(s \ {x}) = n
    BY <1>1, FS_RemoveElement
  <2> QED
    BY <2>1
<1> HIDE DEF N
<1>4. N = Nat
  <2>1. N \subseteq Nat
    BY DEF N
  <2> QED
    BY <1>2, <1>3, <2>1, NatSetInduction
<1> QED
  BY <1>1, <1>4 DEF N

-----------------------------------------------------------------------------

Pick(s) == CHOOSE x \in s : TRUE
Sums(g, f, D) == g = [s \in D |-> IF s = {} THEN 0 ELSE f[Pick(s)] + g[s \ {Pick(s)}]]
SumFcn(f, S) == CHOOSE g : Sums(g, f, SUBSET S)

LEMMA PickIn == ASSUME NEW s, s # {} PROVE Pick(s) \in s
  BY DEF Pick

LEMMA SumOverFcn == ASSUME NEW f, NEW S PROVE SumFunctionOnSet(f, S) = SumFcn(f, S)[S]
  BY DEF SumFunctionOnSet, FoldFunctionOnSet, MapThenFoldSet, SumFcn, Sums, Pick

Level(S, n) == {s \in SUBSET S : Cardinality(s) <= n}

LEMMA SumExists ==
  ASSUME NEW f, NEW S, IsFiniteSet(S) PROVE Sums(SumFcn(f, S), f, SUBSET S)
<1> DEFINE N == {n \in Nat : \E g : Sums(g, f, Level(S, n))}
<1>1. \A s \in SUBSET S : IsFiniteSet(s) /\ Cardinality(s) \in Nat /\ Cardinality(s) <= Cardinality(S)
  BY FS_Subset, FS_CardinalityType
<1>2. \A n \in Nat : \A s \in Level(S, n + 1) : s # {} => s \ {Pick(s)} \in Level(S, n)
  <2> SUFFICES ASSUME NEW n \in Nat, NEW s \in Level(S, n + 1), s # {}
               PROVE  Cardinality(s \ {Pick(s)}) <= n
    BY DEF Level
  <2> QED
    BY <1>1, PickIn, FS_RemoveElement DEF Level
<1>3. \A n \in Nat : Level(S, n) \subseteq Level(S, n + 1)
  BY <1>1 DEF Level
<1>4. 0 \in N
  <2> DEFINE g == [s \in Level(S, 0) |-> 0]
  <2>1. \A s \in Level(S, 0) : s = {}
    BY <1>1, FS_EmptySet DEF Level
  <2>2. Sums(g, f, Level(S, 0))
    BY <2>1 DEF Sums
  <2> QED
    BY <2>2
<1>5. ASSUME NEW n \in N PROVE n + 1 \in N
  <2>1. PICK g : Sums(g, f, Level(S, n))
    OBVIOUS
  <2> DEFINE h == [s \in Level(S, n + 1) |-> IF s = {} THEN 0 ELSE f[Pick(s)] + g[s \ {Pick(s)}]]
  <2>2. \A s \in Level(S, n) : h[s] = g[s]
    BY <1>3, <2>1 DEF Sums
  <2>3. \A s \in Level(S, n + 1) : s # {} => h[s \ {Pick(s)}] = g[s \ {Pick(s)}]
    BY <1>2, <2>2
  <2>4. Sums(h, f, Level(S, n + 1))
    BY <2>3 DEF Sums
  <2> QED
    BY <2>4
<1>6. N = Nat
  <2>1. N \subseteq Nat
    OBVIOUS
  <2> HIDE DEF N
  <2> QED
    BY <1>4, <1>5, <2>1, NatSetInduction
<1>7. Level(S, Cardinality(S)) = SUBSET S /\ Cardinality(S) \in Nat
  BY <1>1 DEF Level
<1>8. \E g : Sums(g, f, SUBSET S)
  <2>1. \E g : Sums(g, f, Level(S, Cardinality(S)))
    BY <1>6, <1>7
  <2> QED
    BY <1>7, <2>1
<1> QED
  BY <1>8 DEF SumFcn

LEMMA SumsAgree ==
  ASSUME NEW f, NEW S, IsFiniteSet(S), NEW T, S \subseteq T, NEW g, NEW h,
         Sums(g, f, SUBSET S), Sums(h, f, SUBSET T)
  PROVE  g[S] = h[S]
<1> DEFINE Good == {s \in SUBSET S : g[s] = h[s]}
<1>1. ASSUME NEW s \in SUBSET S, \A x \in s : s \ {x} \in Good PROVE s \in Good
  <2>1. /\ g[s] = IF s = {} THEN 0 ELSE f[Pick(s)] + g[s \ {Pick(s)}]
        /\ h[s] = IF s = {} THEN 0 ELSE f[Pick(s)] + h[s \ {Pick(s)}]
    BY DEF Sums
  <2> QED
    BY <1>1, <2>1, PickIn
<1>2. S \in Good
  <2> HIDE DEF Good
  <2> QED
    BY <1>1, FiniteSetInduction
<1> QED
  BY <1>2

LEMMA SumEmpty == ASSUME NEW f PROVE SumFunctionOnSet(f, {}) = 0
<1>1. Sums(SumFcn(f, {}), f, SUBSET {})
  BY SumExists, FS_EmptySet
<1> QED
  BY <1>1, SumOverFcn DEF Sums

LEMMA SumPick ==
  ASSUME NEW f, NEW S, IsFiniteSet(S), S # {}
  PROVE  SumFunctionOnSet(f, S) = f[Pick(S)] + SumFunctionOnSet(f, S \ {Pick(S)})
<1> DEFINE R == S \ {Pick(S)}
<1>1. IsFiniteSet(R) /\ R \subseteq S
  BY FS_Subset
<1>2. Sums(SumFcn(f, S), f, SUBSET S) /\ Sums(SumFcn(f, R), f, SUBSET R)
  BY <1>1, SumExists
<1>3. SumFcn(f, R)[R] = SumFcn(f, S)[R]
  <2> HIDE DEF R
  <2> QED
    BY <1>1, <1>2, SumsAgree
<1>4. SumFcn(f, S)[S] = f[Pick(S)] + SumFcn(f, S)[R]
  BY <1>2 DEF Sums
<1> QED
  BY <1>3, <1>4, SumOverFcn

LEMMA SumInt ==
  ASSUME NEW f, NEW S, IsFiniteSet(S), \A x \in S : f[x] \in Int
  PROVE  SumFunctionOnSet(f, S) \in Int
<1> DEFINE Good == {s \in SUBSET S : SumFunctionOnSet(f, s) \in Int}
<1>1. ASSUME NEW s \in SUBSET S, \A x \in s : s \ {x} \in Good PROVE s \in Good
  <2>1. CASE s = {}
    BY <2>1, SumEmpty
  <2>2. CASE s # {}
    <3>1. Pick(s) \in s /\ IsFiniteSet(s)
      BY <2>2, PickIn, FS_Subset
    <3>2. SumFunctionOnSet(f, s) = f[Pick(s)] + SumFunctionOnSet(f, s \ {Pick(s)})
      BY <2>2, <3>1, SumPick
    <3> QED
      BY <1>1, <3>1, <3>2
  <2> QED
    BY <2>1, <2>2
<1>2. S \in Good
  <2> HIDE DEF Good
  <2> QED
    BY <1>1, FiniteSetInduction
<1> QED
  BY <1>2

LEMMA SumRemove ==
  ASSUME NEW f, NEW S, IsFiniteSet(S), \A x \in S : f[x] \in Int, NEW y \in S
  PROVE  SumFunctionOnSet(f, S) = f[y] + SumFunctionOnSet(f, S \ {y})
<1> DEFINE Good == {s \in SUBSET S : \A x \in s : SumFunctionOnSet(f, s) = f[x] + SumFunctionOnSet(f, s \ {x})}
<1>1. ASSUME NEW s \in SUBSET S, \A x \in s : s \ {x} \in Good PROVE s \in Good
  <2> SUFFICES ASSUME NEW x \in s PROVE SumFunctionOnSet(f, s) = f[x] + SumFunctionOnSet(f, s \ {x})
    OBVIOUS
  <2> DEFINE p == Pick(s)
  <2>1. p \in s /\ IsFiniteSet(s) /\ IsFiniteSet(s \ {x}) /\ IsFiniteSet(s \ {p})
    BY PickIn, FS_Subset
  <2>2. SumFunctionOnSet(f, s) = f[p] + SumFunctionOnSet(f, s \ {p})
    BY <2>1, SumPick
  <2> HIDE DEF p
  <2>3. CASE x = p
    BY <2>2, <2>3
  <2>4. CASE x # p
    <3> DEFINE rest == (s \ {p}) \ {x}
    <3>1. SumFunctionOnSet(f, s \ {p}) = f[x] + SumFunctionOnSet(f, rest)
      BY <1>1, <2>1, <2>4
    <3>2. rest = (s \ {x}) \ {p}
      OBVIOUS
    <3>3. SumFunctionOnSet(f, s \ {x}) = f[p] + SumFunctionOnSet(f, rest)
      BY <1>1, <2>1, <2>4, <3>2
    <3>4. SumFunctionOnSet(f, rest) \in Int
      BY <2>1, FS_Subset, SumInt
    <3> HIDE DEF rest
    <3>5. f[x] \in Int /\ f[p] \in Int
      BY <2>1
    <3> QED
      BY <2>2, <3>1, <3>3, <3>4, <3>5
  <2> QED
    BY <2>3, <2>4
<1>2. S \in Good
  <2> HIDE DEF Good
  <2> QED
    BY <1>1, FiniteSetInduction
<1> QED
  BY <1>2

LEMMA SumLE ==
  ASSUME NEW f, NEW g, NEW S, IsFiniteSet(S),
         \A x \in S : f[x] \in Int /\ g[x] \in Int /\ f[x] <= g[x]
  PROVE  SumFunctionOnSet(f, S) <= SumFunctionOnSet(g, S)
<1> DEFINE Good == {s \in SUBSET S : SumFunctionOnSet(f, s) <= SumFunctionOnSet(g, s)}
<1>1. ASSUME NEW s \in SUBSET S, \A x \in s : s \ {x} \in Good PROVE s \in Good
  <2>1. CASE s = {}
    BY <2>1, SumEmpty
  <2>2. CASE s # {}
    <3> DEFINE p == Pick(s)
    <3>1. p \in s /\ IsFiniteSet(s) /\ IsFiniteSet(s \ {p})
      BY <2>2, PickIn, FS_Subset
    <3>2. SumFunctionOnSet(f, s) = f[p] + SumFunctionOnSet(f, s \ {p}) /\ SumFunctionOnSet(g, s) = g[p] + SumFunctionOnSet(g, s \ {p})
      BY <2>2, <3>1, SumPick
    <3> HIDE DEF p
    <3>3. SumFunctionOnSet(f, s \ {p}) \in Int /\ SumFunctionOnSet(g, s \ {p}) \in Int
      BY <3>1, SumInt
    <3>4. SumFunctionOnSet(f, s \ {p}) <= SumFunctionOnSet(g, s \ {p}) /\ f[p] <= g[p] /\ f[p] \in Int /\ g[p] \in Int
      BY <1>1, <3>1
    <3> QED
      BY <3>2, <3>3, <3>4
  <2> QED
    BY <2>1, <2>2
<1>2. S \in Good
  <2> HIDE DEF Good
  <2> QED
    BY <1>1, FiniteSetInduction
<1> QED
  BY <1>2

LEMMA SumSame ==
  ASSUME NEW f, NEW g, NEW S, IsFiniteSet(S), \A x \in S : f[x] \in Int /\ f[x] = g[x]
  PROVE  SumFunctionOnSet(f, S) = SumFunctionOnSet(g, S)
<1>1. SumFunctionOnSet(f, S) <= SumFunctionOnSet(g, S) /\ SumFunctionOnSet(g, S) <= SumFunctionOnSet(f, S)
  BY SumLE
<1>2. SumFunctionOnSet(f, S) \in Int /\ SumFunctionOnSet(g, S) \in Int
  BY SumInt
<1> QED
  BY <1>1, <1>2

\* One term changes.
LEMMA SumChange ==
  ASSUME NEW f, NEW g, NEW S, IsFiniteSet(S), NEW y \in S,
         \A x \in S : f[x] \in Int /\ g[x] \in Int /\ (x # y => f[x] = g[x])
  PROVE  SumFunctionOnSet(g, S) = SumFunctionOnSet(f, S) + (g[y] - f[y])
<1>1. SumFunctionOnSet(f, S) = f[y] + SumFunctionOnSet(f, S \ {y}) /\ SumFunctionOnSet(g, S) = g[y] + SumFunctionOnSet(g, S \ {y})
  BY SumRemove
<1>2. IsFiniteSet(S \ {y})
  BY FS_Subset
<1>3. SumFunctionOnSet(f, S \ {y}) = SumFunctionOnSet(g, S \ {y}) /\ SumFunctionOnSet(f, S \ {y}) \in Int
  BY <1>2, SumSame, SumInt
<1> QED
  BY <1>1, <1>3


\* A sum of nothing but zeros.
LEMMA SumZero ==
  ASSUME NEW f, NEW S, IsFiniteSet(S), \A x \in S : f[x] = 0
  PROVE  SumFunctionOnSet(f, S) = 0
<1> DEFINE Good == {s \in SUBSET S : SumFunctionOnSet(f, s) = 0}
<1>1. ASSUME NEW s \in SUBSET S, \A x \in s : s \ {x} \in Good PROVE s \in Good
  <2>1. CASE s = {}
    BY <2>1, SumEmpty
  <2>2. CASE s # {}
    <3>1. Pick(s) \in s /\ IsFiniteSet(s)
      BY <2>2, PickIn, FS_Subset
    <3>2. SumFunctionOnSet(f, s) = f[Pick(s)] + SumFunctionOnSet(f, s \ {Pick(s)})
      BY <2>2, <3>1, SumPick
    <3> QED
      BY <1>1, <3>1, <3>2
  <2> QED
    BY <2>1, <2>2
<1> HIDE DEF Good
<1>2. S \in Good
  BY <1>1, FiniteSetInduction
<1> QED
  BY <1>2 DEF Good

\* A sum of naturals.
LEMMA SumNat ==
  ASSUME NEW f, NEW S, IsFiniteSet(S), \A x \in S : f[x] \in Nat
  PROVE  SumFunctionOnSet(f, S) \in Nat
<1> DEFINE zero == [x \in S |-> 0]
<1>1. SumFunctionOnSet(zero, S) = 0
  BY SumZero
<1>2. \A x \in S : zero[x] \in Int /\ f[x] \in Int /\ zero[x] <= f[x]
  OBVIOUS
<1> HIDE DEF zero
<1>3. SumFunctionOnSet(zero, S) <= SumFunctionOnSet(f, S)
  BY <1>2, SumLE
<1>4. SumFunctionOnSet(f, S) \in Int
  BY SumInt
<1> QED
  BY <1>1, <1>3, <1>4

\* The sum over a part of the set.
LEMMA SumSubset ==
  ASSUME NEW f, NEW S, IsFiniteSet(S), \A x \in S : f[x] \in Nat, NEW T \in SUBSET S
  PROVE  SumFunctionOnSet(f, T) <= SumFunctionOnSet(f, S)
<1> DEFINE Good == {s \in SUBSET S : \A t \in SUBSET s :
                      SumFunctionOnSet(f, t) <= SumFunctionOnSet(f, s)}
<1>1. ASSUME NEW s \in SUBSET S, \A x \in s : s \ {x} \in Good PROVE s \in Good
  <2> SUFFICES ASSUME NEW t \in SUBSET s PROVE SumFunctionOnSet(f, t) <= SumFunctionOnSet(f, s)
    OBVIOUS
  <2>1. /\ IsFiniteSet(s) /\ IsFiniteSet(t) /\ \A x \in s : IsFiniteSet(s \ {x})
        /\ \A x \in s : f[x] \in Int
    BY FS_Subset
  <2>2. SumFunctionOnSet(f, t) \in Int
    BY <2>1, SumInt
  <2>3. CASE t = s
    BY <2>2, <2>3
  <2>4. CASE t # s
    <3>1. PICK x \in s : x \notin t
      BY <2>4
    <3>2. SumFunctionOnSet(f, s) = f[x] + SumFunctionOnSet(f, s \ {x})
      BY <2>1, SumRemove
    <3>3. SumFunctionOnSet(f, s \ {x}) \in Int
      BY <2>1, SumInt
    <3>4. SumFunctionOnSet(f, t) <= SumFunctionOnSet(f, s \ {x})
      BY <1>1, <3>1
    <3> QED
      BY <2>2, <3>2, <3>3, <3>4
  <2> QED
    BY <2>3, <2>4
<1> HIDE DEF Good
<1>2. S \in Good
  BY <1>1, FiniteSetInduction
<1> QED
  BY <1>2 DEF Good

\* Adding up the groups of a set adds up the set.
LEMMA SumGroups ==
  ASSUME NEW f, NEW k, NEW S, NEW R, IsFiniteSet(S), IsFiniteSet(R),
         \A x \in S : f[x] \in Int /\ k[x] \in R
  PROVE  SumFunctionOnSet([r \in R |-> SumFunctionOnSet(f, {x \in S : k[x] = r})], R)
           = SumFunctionOnSet(f, S)
<1> DEFINE G(s) == [r \in R |-> SumFunctionOnSet(f, {x \in s : k[x] = r})]
<1> DEFINE Good == {s \in SUBSET S : SumFunctionOnSet(G(s), R) = SumFunctionOnSet(f, s)}
<1>1. ASSUME NEW s \in SUBSET S, \A x \in s : s \ {x} \in Good PROVE s \in Good
  <2>1. CASE s = {}
    <3>1. \A r \in R : G(s)[r] = 0
      BY <2>1, SumEmpty
    <3> HIDE DEF G
    <3>2. SumFunctionOnSet(G(s), R) = 0
      BY <3>1, SumZero
    <3> QED
      BY <2>1, <3>2, SumEmpty
  <2>2. CASE s # {}
    <3>1. PICK y \in s : TRUE
      BY <2>2
    <3> DEFINE t == s \ {y}
    <3>2. /\ IsFiniteSet(s) /\ IsFiniteSet(t)
          /\ \A r : IsFiniteSet({x \in s : k[x] = r}) /\ IsFiniteSet({x \in t : k[x] = r})
      BY FS_Subset
    <3>3. \A r \in R : G(s)[r] \in Int /\ G(t)[r] \in Int
      <4> SUFFICES ASSUME NEW r \in R PROVE G(s)[r] \in Int /\ G(t)[r] \in Int
        OBVIOUS
      <4>1. /\ \A x \in {z \in s : k[z] = r} : f[x] \in Int
            /\ \A x \in {z \in t : k[z] = r} : f[x] \in Int
        OBVIOUS
      <4>2. /\ SumFunctionOnSet(f, {z \in s : k[z] = r}) \in Int
            /\ SumFunctionOnSet(f, {z \in t : k[z] = r}) \in Int
        BY <3>2, <4>1, SumInt
      <4> QED
        BY <4>2
    <3>4. \A r \in R : r # k[y] => G(t)[r] = G(s)[r]
      <4> SUFFICES ASSUME NEW r \in R, r # k[y] PROVE {x \in t : k[x] = r} = {x \in s : k[x] = r}
        OBVIOUS
      <4> QED
        OBVIOUS
    <3>5. G(s)[k[y]] = f[y] + G(t)[k[y]]
      <4> DEFINE own == {x \in s : k[x] = k[y]}
      <4>1. {x \in t : k[x] = k[y]} = own \ {y}
        OBVIOUS
      <4>2. y \in own /\ IsFiniteSet(own) /\ \A x \in own : f[x] \in Int
        BY <3>2
      <4>3. SumFunctionOnSet(f, own) = f[y] + SumFunctionOnSet(f, own \ {y})
        <5> HIDE DEF own
        <5> QED
          BY <4>2, SumRemove
      <4>4. k[y] \in R
        OBVIOUS
      <4> QED
        BY <4>1, <4>3, <4>4
    <3>6. SumFunctionOnSet(G(t), R) = SumFunctionOnSet(f, t)
      BY <1>1
    <3>7. SumFunctionOnSet(f, s) = f[y] + SumFunctionOnSet(f, t)
      BY <3>2, SumRemove
    <3>8. SumFunctionOnSet(f, t) \in Int /\ f[y] \in Int /\ k[y] \in R
      <4>1. \A x \in t : f[x] \in Int
        OBVIOUS
      <4> QED
        BY <3>2, <4>1, SumInt
    <3> HIDE DEF G, t
    <3>9. SumFunctionOnSet(G(s), R) = SumFunctionOnSet(G(t), R) + (G(s)[k[y]] - G(t)[k[y]])
      BY <3>3, <3>4, <3>8, SumChange
    <3>10. SumFunctionOnSet(G(s), R) = SumFunctionOnSet(f, s)
      BY <3>3, <3>5, <3>6, <3>7, <3>8, <3>9
    <3> QED
      BY <3>10
  <2> QED
    BY <2>1, <2>2
<1>2. S \in Good
  <2> HIDE DEF Good
  <2> QED
    BY <1>1, FiniteSetInduction
<1> QED
  BY <1>2

\* Counting is adding ones.
LEMMA CountIsSum ==
  ASSUME NEW f, NEW S, IsFiniteSet(S), \A x \in S : f[x] \in {0, 1}
  PROVE  Cardinality({x \in S : f[x] = 1}) = SumFunctionOnSet(f, S)
<1> DEFINE Good == {s \in SUBSET S : Cardinality({x \in s : f[x] = 1}) = SumFunctionOnSet(f, s)}
<1>1. ASSUME NEW s \in SUBSET S, \A x \in s : s \ {x} \in Good PROVE s \in Good
  <2>1. CASE s = {}
    BY <2>1, SumEmpty, FS_EmptySet
  <2>2. CASE s # {}
    <3>1. PICK y \in s : TRUE
      BY <2>2
    <3>2. IsFiniteSet(s) /\ IsFiniteSet(s \ {y}) /\ \A x \in s : f[x] \in Int
      BY FS_Subset
    <3>3. SumFunctionOnSet(f, s) = f[y] + SumFunctionOnSet(f, s \ {y})
      BY <3>2, SumRemove
    <3>4. Cardinality({x \in s \ {y} : f[x] = 1}) = SumFunctionOnSet(f, s \ {y})
      BY <1>1
    <3> DEFINE ones == {x \in s : f[x] = 1}
    <3>5. IsFiniteSet(ones) /\ {x \in s \ {y} : f[x] = 1} = ones \ {y}
      BY <3>2, FS_Subset
    <3>6. Cardinality(ones) \in Nat /\ Cardinality(ones \ {y}) =
            IF y \in ones THEN Cardinality(ones) - 1 ELSE Cardinality(ones)
      <4> HIDE DEF ones
      <4> QED
        BY <3>5, FS_RemoveElement, FS_CardinalityType
    <3>7. y \in ones <=> f[y] = 1
      OBVIOUS
    <3>8. f[y] \in {0, 1}
      OBVIOUS
    <3>9. Cardinality(ones \ {y}) = SumFunctionOnSet(f, s \ {y})
      BY <3>4, <3>5
    <3>10. Cardinality(ones) = f[y] + Cardinality(ones \ {y})
      <4> HIDE DEF ones
      <4> QED
        BY <3>6, <3>7, <3>8
    <3> QED
      BY <3>3, <3>9, <3>10
  <2> QED
    BY <2>1, <2>2
<1> HIDE DEF Good
<1>2. S \in Good
  BY <1>1, FiniteSetInduction
<1> QED
  BY <1>2 DEF Good
=============================================================================
