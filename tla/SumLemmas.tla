----------------------------- MODULE SumLemmas -----------------------------
(***************************************************************************)
(* What MapThenSumSet of FiniteSetsExt computes, for every finite set.  It *)
(* folds a set by a recursive function that picks the members in an order  *)
(* nobody knows, so that none of the facts below can be read off it.  The  *)
(* induction theorems of the library take an operator for the property;    *)
(* the inductions here run over a set of naturals instead (Climb).         *)
(***************************************************************************)
EXTENDS Integers, FiniteSetsExt, FiniteSetTheorems, WellFoundedInduction, TLAPS

----------------------------------------------------------------------------
(* Naturals. *)

Below == {ss \in Nat \X Nat : ss[1] < ss[2]}

\* The order of the naturals is well founded.
LEMMA BelowWF == IsWellFoundedOn(Below, Nat)
  <1>1. OpToRel(<, Nat) = Below
    BY Zenon DEF OpToRel, Below
  <1> QED BY <1>1, NatLessThanWellFounded, Zenon

\* A set of naturals that is not empty has a least element, and Min finds it.
LEMMA Least ==
  ASSUME NEW S \in SUBSET Nat, S # {}
  PROVE  Min(S) \in S /\ \A y \in S : Min(S) <= y
  <1>1. PICK x \in S : \A y \in S : ~(<<y, x>> \in Below)
    BY BelowWF, WFMin, Zenon
  <1>2. ASSUME NEW y \in S PROVE x <= y
    <2>1. <<y, x>> \notin Below
      BY <1>1
    <2>2. x \in Nat /\ y \in Nat
      OBVIOUS
    <2>3. y < x => <<y, x>> \in Below
      BY <2>2 DEF Below
    <2> QED BY <2>1, <2>2, <2>3
  <1> QED BY <1>2 DEF Min

\* Induction over the naturals, for a set of them.
LEMMA Climb ==
  ASSUME NEW S \in SUBSET Nat, 0 \in S, \A n \in S : n + 1 \in S
  PROVE  S = Nat
  <1> SUFFICES ASSUME Nat \ S # {} PROVE FALSE
    OBVIOUS
  <1> DEFINE x == Min(Nat \ S)
  <1>1. x \in Nat \ S /\ \A y \in Nat \ S : x <= y
    BY Least
  <1> HIDE DEF x
  <1>2. x # 0 /\ x - 1 \in Nat
    BY <1>1
  <1>3. x - 1 \in S
    BY <1>1, <1>2
  <1> QED BY <1>1, <1>2, <1>3

\* F takes the n steps G from b, within T.
Iterates(F, T, b, n, G) == F \in [0..n -> T] /\ F[0] = b /\ \A i \in 1..n : F[i] = G[<<i, F[i - 1]>>]

\* A recursion over 1..n whose steps stay within a set has a solution there.
LEMMA Folded ==
  ASSUME NEW T, NEW b \in T, NEW n \in Nat, NEW G \in [(1..n) \X T -> T]
  PROVE  \E F : Iterates(F, T, b, n, G)
  <1> DEFINE Solves(F, k) == F[0] = b /\ \A i \in 1..k : F[i] = G[<<i, F[i - 1]>>]
             N == {k \in Nat : k <= n => \E F \in [0..k -> T] : Solves(F, k)}
  <1>1. 0 \in N
    <2> DEFINE F == [i \in 0..0 |-> b]
    <2>1. F \in [0..0 -> T] /\ Solves(F, 0)
      OBVIOUS
    <2> HIDE DEF F, Solves
    <2> QED BY <2>1
  <1>2. ASSUME NEW k \in N PROVE k + 1 \in N
    <2> SUFFICES ASSUME k + 1 <= n PROVE \E F \in [0..(k + 1) -> T] : Solves(F, k + 1)
      OBVIOUS
    <2>1. PICK F \in [0..k -> T] : Solves(F, k)
      OBVIOUS
    <2> DEFINE H == [i \in 0..(k + 1) |-> IF i = k + 1 THEN G[<<k + 1, F[k]>>] ELSE F[i]]
    <2>2. k + 1 \in 1..n /\ F[k] \in T
      OBVIOUS
    <2>3. G[<<k + 1, F[k]>>] \in T
      BY <2>2
    <2>4. H \in [0..(k + 1) -> T]
      BY <2>3
    <2>5. /\ \A i \in 0..k : H[i] = F[i]
          /\ H[k + 1] = G[<<k + 1, F[k]>>]
      OBVIOUS
    <2> HIDE DEF H
    <2>6. ASSUME NEW i \in 1..(k + 1) PROVE H[i] = G[<<i, H[i - 1]>>]
      <3>1. i - 1 \in 0..k /\ H[i - 1] = F[i - 1]
        BY <2>5
      <3>2. CASE i = k + 1
        BY <2>5, <3>1, <3>2
      <3>3. CASE i # k + 1
        <4>1. i \in 1..k
          BY <3>3
        <4>2. F[i] = G[<<i, F[i - 1]>>]
          BY <2>1, <4>1
        <4>3. H[i] = F[i]
          BY <2>5, <4>1
        <4> QED BY <3>1, <4>2, <4>3
      <3> QED BY <3>2, <3>3
    <2>7. H[0] = b
      BY <2>1, <2>5
    <2>8. Solves(H, k + 1)
      BY <2>6, <2>7
    <2> HIDE DEF Solves
    <2> QED BY <2>4, <2>8
  <1>3. N = Nat
    <2> HIDE DEF N
    <2>1. N \subseteq Nat
      BY DEF N
    <2> QED BY <1>1, <1>2, <2>1, Climb
  <1>4. PICK F \in [0..n -> T] : Solves(F, n)
    BY <1>3
  <1>5. Iterates(F, T, b, n, G)
    BY <1>4 DEF Iterates
  <1> QED BY <1>5, Zenon

\* What every step preserves holds at the end.
LEMMA StepsStay ==
  ASSUME NEW T, NEW n \in Nat, NEW H, H[0] \in T, \A i \in 1..n : H[i - 1] \in T => H[i] \in T
  PROVE  H[n] \in T
  <1> DEFINE N == {k \in Nat : k <= n => H[k] \in T}
  <1>1. 0 \in N
    OBVIOUS
  <1>2. ASSUME NEW k \in N PROVE k + 1 \in N
    <2> SUFFICES ASSUME k + 1 <= n PROVE H[k + 1] \in T
      OBVIOUS
    <2>1. k + 1 \in 1..n /\ k + 1 - 1 = k /\ H[k] \in T
      OBVIOUS
    <2> QED BY <2>1
  <1>3. N = Nat
    <2> HIDE DEF N
    <2>1. N \subseteq Nat
      BY DEF N
    <2> QED BY <1>1, <1>2, <2>1, Climb
  <1> QED BY <1>3

----------------------------------------------------------------------------
(* The recursion of the fold. *)

\* The sum of g[x] over the x in S.
Total(g, S) == MapThenSumSet(LAMBDA x : g[x], S)

Pick(s) == CHOOSE y \in s : TRUE
Unroll(g, F, s) == IF s = {} THEN 0 ELSE g[Pick(s)] + F[s \ {Pick(s)}]
Sums(g, S) == CHOOSE F : F = [s \in SUBSET S |-> Unroll(g, F, s)]

\* The fold, with its LET written out.
LEMMA TotalDef == ASSUME NEW g, NEW S PROVE Total(g, S) = Sums(g, S)[S]
  BY DEF Total, MapThenSumSet, MapThenFoldSet, Sums, Unroll, Pick

\* The member that is taken out is a member, and the rest is smaller.
LEMMA Picked ==
  ASSUME NEW S, IsFiniteSet(S), S # {}
  PROVE  /\ Pick(S) \in S /\ IsFiniteSet(S \ {Pick(S)})
         /\ Cardinality(S) \in Nat /\ Cardinality(S \ {Pick(S)}) = Cardinality(S) - 1
  <1>1. Pick(S) \in S
    BY DEF Pick
  <1> QED BY <1>1, FS_RemoveElement, FS_CardinalityType

Small(S, n) == {s \in SUBSET S : Cardinality(s) <= n}

\* The recursion has a solution on the subsets of at most n members.
LEMMA SolvedSmall ==
  ASSUME NEW g, NEW S, IsFiniteSet(S), NEW k \in Nat
  PROVE  \E F : F = [s \in Small(S, k) |-> Unroll(g, F, s)]
  <1> DEFINE N == {n \in Nat : \E F : F = [s \in Small(S, n) |-> Unroll(g, F, s)]}
  <1>1. 0 \in N
    <2> DEFINE F == [s \in Small(S, 0) |-> 0]
    <2>1. ASSUME NEW s \in Small(S, 0) PROVE Unroll(g, F, s) = 0
      <3>1. IsFiniteSet(s) /\ Cardinality(s) <= 0
        BY FS_Subset DEF Small
      <3>2. s = {}
        BY <3>1, FS_EmptySet, FS_CardinalityType
      <3> QED BY <3>2 DEF Unroll
    <2>2. F = [s \in Small(S, 0) |-> Unroll(g, F, s)]
      BY <2>1
    <2> QED BY <2>2
  <1>2. ASSUME NEW n \in N PROVE n + 1 \in N
    <2>1. PICK F : F = [s \in Small(S, n) |-> Unroll(g, F, s)]
      OBVIOUS
    <2> DEFINE G == [s \in Small(S, n + 1) |-> Unroll(g, F, s)]
    <2>2. ASSUME NEW s \in Small(S, n + 1) PROVE Unroll(g, F, s) = Unroll(g, G, s)
      <3>1. CASE s = {}
        BY <3>1 DEF Unroll
      <3>2. CASE s # {}
        <4> DEFINE r == s \ {Pick(s)}
        <4>1. IsFiniteSet(s) /\ s \subseteq S /\ Cardinality(s) <= n + 1
          BY FS_Subset DEF Small
        <4>2. r \in SUBSET S /\ Cardinality(r) = Cardinality(s) - 1 /\ Cardinality(s) \in Nat
          BY <3>2, <4>1, Picked
        <4>3. r \in Small(S, n) /\ r \in Small(S, n + 1)
          BY <4>1, <4>2 DEF Small
        <4> HIDE DEF r
        <4>4. F[r] = Unroll(g, F, r)
          BY <2>1, <4>3
        <4>5. G[r] = Unroll(g, F, r)
          BY <4>3
        <4> QED BY <3>2, <4>4, <4>5 DEF Unroll, r
      <3> QED BY <3>1, <3>2
    <2>3. G = [s \in Small(S, n + 1) |-> Unroll(g, G, s)]
      BY <2>2
    <2>4. n + 1 \in Nat
      OBVIOUS
    <2> HIDE DEF G
    <2>5. \E H : H = [s \in Small(S, n + 1) |-> Unroll(g, H, s)]
      BY <2>3, Zenon
    <2> QED BY <2>4, <2>5
  <1>3. N = Nat
    <2> HIDE DEF N
    <2>1. N \subseteq Nat
      BY DEF N
    <2> QED BY <1>1, <1>2, <2>1, Climb
  <1> QED BY <1>3

\* So the fold is a function that satisfies its recursion.
LEMMA Solved ==
  ASSUME NEW g, NEW S, IsFiniteSet(S)
  PROVE  \A s \in SUBSET S : Sums(g, S)[s] = Unroll(g, Sums(g, S), s)
  <1>1. Cardinality(S) \in Nat
    BY FS_CardinalityType
  <1>2. SUBSET S = Small(S, Cardinality(S))
    BY FS_Subset DEF Small
  <1>3. PICK F : F = [s \in Small(S, Cardinality(S)) |-> Unroll(g, F, s)]
    BY <1>1, SolvedSmall
  <1>4. F = [s \in SUBSET S |-> Unroll(g, F, s)]
    BY <1>2, <1>3, Zenon
  <1>5. Sums(g, S) = [s \in SUBSET S |-> Unroll(g, Sums(g, S), s)]
    BY <1>4, Zenon DEF Sums
  <1> QED BY <1>5

\* It does not depend on the set it is restricted to, nor on anything but the terms.
LEMMA SumsAgree ==
  ASSUME NEW g, NEW h, NEW S, NEW T, IsFiniteSet(T), S \subseteq T, \A x \in S : g[x] = h[x],
         NEW r \in SUBSET S
  PROVE  Sums(g, S)[r] = Sums(h, T)[r]
  <1> DEFINE N == {n \in Nat : \A s \in SUBSET S : Cardinality(s) = n => Sums(g, S)[s] = Sums(h, T)[s]}
  <1>0. IsFiniteSet(S)
    BY FS_Subset
  <1>1. ASSUME NEW s \in SUBSET S
        PROVE  /\ Sums(g, S)[s] = Unroll(g, Sums(g, S), s)
               /\ Sums(h, T)[s] = Unroll(h, Sums(h, T), s)
               /\ IsFiniteSet(s) /\ Cardinality(s) \in Nat
    <2>1. s \in SUBSET S /\ s \in SUBSET T
      OBVIOUS
    <2>2. IsFiniteSet(s) /\ Cardinality(s) \in Nat
      BY <1>0, FS_Subset, FS_CardinalityType
    <2> HIDE DEF N
    <2> QED BY <1>0, <2>1, <2>2, Solved
  <1>2. 0 \in N
    <2>1. ASSUME NEW s \in SUBSET S, Cardinality(s) = 0 PROVE Sums(g, S)[s] = Sums(h, T)[s]
      <3>1. s = {}
        BY <1>1, <2>1, FS_EmptySet
      <3> QED BY <1>1, <3>1 DEF Unroll
    <2> QED BY <2>1
  <1>3. ASSUME NEW n \in N PROVE n + 1 \in N
    <2>1. ASSUME NEW s \in SUBSET S, Cardinality(s) = n + 1 PROVE Sums(g, S)[s] = Sums(h, T)[s]
      <3>1. s # {}
        BY <2>1, FS_EmptySet
      <3>2. /\ Pick(s) \in S /\ s \ {Pick(s)} \in SUBSET S
            /\ Cardinality(s \ {Pick(s)}) = n
        BY <1>1, <2>1, <3>1, Picked
      <3>3. Sums(g, S)[s \ {Pick(s)}] = Sums(h, T)[s \ {Pick(s)}]
        BY <3>2
      <3> QED BY <1>1, <3>1, <3>2, <3>3 DEF Unroll
    <2> QED BY <2>1
  <1>4. N = Nat
    <2> HIDE DEF N
    <2>1. N \subseteq Nat
      BY DEF N
    <2> QED BY <1>2, <1>3, <2>1, Climb
  <1> QED BY <1>1, <1>4

----------------------------------------------------------------------------
(* Sums. *)

\* The sum of nothing.
LEMMA TotalEmpty == ASSUME NEW g PROVE Total(g, {}) = 0
  BY TotalDef, Solved, FS_EmptySet DEF Unroll

\* Only the terms of the set count.
LEMMA TotalSame ==
  ASSUME NEW g, NEW h, NEW S, IsFiniteSet(S), \A x \in S : g[x] = h[x]
  PROVE  Total(g, S) = Total(h, S)
  BY TotalDef, SumsAgree

\* One member is taken out at a time.
LEMMA TotalPick ==
  ASSUME NEW g, NEW S, IsFiniteSet(S), S # {}
  PROVE  Total(g, S) = g[Pick(S)] + Total(g, S \ {Pick(S)})
  <1> DEFINE R == S \ {Pick(S)}
  <1>1. Sums(g, S)[S] = g[Pick(S)] + Sums(g, S)[R]
    BY Solved DEF Unroll
  <1>2. Sums(g, R)[R] = Sums(g, S)[R]
    <2>1. R \subseteq S /\ R \in SUBSET R /\ \A x \in R : g[x] = g[x]
      OBVIOUS
    <2> HIDE DEF R
    <2> QED BY <2>1, SumsAgree
  <1> QED BY <1>1, <1>2, TotalDef

\* The step of the inductions below.
LEMMA OneLess ==
  ASSUME NEW g, NEW S, IsFiniteSet(S), NEW s \in SUBSET S, NEW n \in Nat, Cardinality(s) = n + 1
  PROVE  /\ IsFiniteSet(s) /\ Pick(s) \in s
         /\ s \ {Pick(s)} \in SUBSET S /\ Cardinality(s \ {Pick(s)}) = n
         /\ Total(g, s) = g[Pick(s)] + Total(g, s \ {Pick(s)})
  <1>1. IsFiniteSet(s)
    BY FS_Subset
  <1>2. s # {}
    BY FS_EmptySet
  <1>3. Pick(s) \in s /\ Cardinality(s \ {Pick(s)}) = Cardinality(s) - 1
    BY <1>1, <1>2, Picked
  <1>4. Total(g, s) = g[Pick(s)] + Total(g, s \ {Pick(s)})
    BY <1>1, <1>2, TotalPick
  <1> QED BY <1>1, <1>3, <1>4

Closed(V) == 0 \in V /\ \A x, y \in V : x + y \in V

\* A sum of terms of a set that is closed under addition is in that set.
LEMMA TotalIn ==
  ASSUME NEW g, NEW S, IsFiniteSet(S), NEW V, Closed(V), \A x \in S : g[x] \in V
  PROVE  Total(g, S) \in V
  <1> DEFINE N == {n \in Nat : \A s \in SUBSET S : Cardinality(s) = n => Total(g, s) \in V}
  <1>1. 0 \in N
    <2>1. ASSUME NEW s \in SUBSET S, Cardinality(s) = 0 PROVE Total(g, s) \in V
      <3>1. s = {}
        BY <2>1, FS_Subset, FS_EmptySet
      <3> QED BY <3>1, TotalEmpty DEF Closed
    <2> QED BY <2>1
  <1>2. ASSUME NEW n \in N PROVE n + 1 \in N
    <2>1. ASSUME NEW s \in SUBSET S, Cardinality(s) = n + 1 PROVE Total(g, s) \in V
      <3>1. n \in Nat
        OBVIOUS
      <3> HIDE DEF N
      <3>2. /\ Pick(s) \in s /\ Cardinality(s \ {Pick(s)}) = n /\ s \ {Pick(s)} \in SUBSET S
            /\ Total(g, s) = g[Pick(s)] + Total(g, s \ {Pick(s)})
        BY <2>1, <3>1, OneLess
      <3>3. Total(g, s \ {Pick(s)}) \in V
        BY <3>2 DEF N
      <3> QED BY <3>2, <3>3 DEF Closed
    <2> QED BY <2>1
  <1>3. N = Nat
    <2> HIDE DEF N
    <2>1. N \subseteq Nat
      BY DEF N
    <2> QED BY <1>1, <1>2, <2>1, Climb
  <1>4. Cardinality(S) \in Nat
    BY FS_CardinalityType
  <1> QED BY <1>3, <1>4

\* A sum of integers is an integer.
LEMMA TotalInt ==
  ASSUME NEW g, NEW S, IsFiniteSet(S), \A x \in S : g[x] \in Int
  PROVE  Total(g, S) \in Int
  <1>1. Closed(Int)
    BY DEF Closed
  <1> QED BY <1>1, TotalIn

\* The same for naturals.
LEMMA TotalNat ==
  ASSUME NEW g, NEW S, IsFiniteSet(S), \A x \in S : g[x] \in Nat
  PROVE  Total(g, S) \in Nat
  <1>1. Closed(Nat)
    BY DEF Closed
  <1> QED BY <1>1, TotalIn

\* Any member may be taken out first.
LEMMA TotalRemove ==
  ASSUME NEW g, NEW S, IsFiniteSet(S), \A x \in S : g[x] \in Int, NEW a \in S
  PROVE  Total(g, S) = g[a] + Total(g, S \ {a})
  <1> DEFINE Right(q) == \A b \in q : Total(g, q) = g[b] + Total(g, q \ {b})
             N == {n \in Nat : \A s \in SUBSET S : Cardinality(s) = n => Right(s)}
  <1>1. 0 \in N
    <2>1. ASSUME NEW s \in SUBSET S, Cardinality(s) = 0 PROVE Right(s)
      <3>1. s = {}
        BY <2>1, FS_Subset, FS_EmptySet
      <3> QED BY <3>1
    <2> QED BY <2>1
  <1>2. ASSUME NEW n \in N PROVE n + 1 \in N
    <2>1. ASSUME NEW s \in SUBSET S, Cardinality(s) = n + 1 PROVE Right(s)
      <3>1. n \in Nat
        OBVIOUS
      <3> HIDE DEF N, Right
      <3>2. PICK p \in s : /\ IsFiniteSet(s) /\ Cardinality(s \ {p}) = n
                           /\ s \ {p} \in SUBSET S
                           /\ Total(g, s) = g[p] + Total(g, s \ {p})
        <4>1. IsFiniteSet(s) /\ Pick(s) \in s
          BY <2>1, <3>1, OneLess
        <4>2. s \ {Pick(s)} \in SUBSET S /\ Cardinality(s \ {Pick(s)}) = n
          BY <2>1, <3>1, OneLess
        <4>3. Total(g, s) = g[Pick(s)] + Total(g, s \ {Pick(s)})
          BY <2>1, <3>1, OneLess
        <4> QED BY <4>1, <4>2, <4>3
      <3>3. Right(s \ {p})
        BY <3>2 DEF N
      <3>4. ASSUME NEW b \in s, b # p PROVE Total(g, s) = g[b] + Total(g, s \ {b})
        <4>1. Total(g, s \ {p}) = g[b] + Total(g, (s \ {p}) \ {b})
          BY <3>3, <3>4 DEF Right
        <4>2. s \ {b} \in SUBSET S
          OBVIOUS
        <4>3. IsFiniteSet(s \ {b}) /\ Cardinality(s \ {b}) = n
          BY <2>1, <3>1, <3>2, FS_RemoveElement
        <4>4. Right(s \ {b})
          BY <4>2, <4>3 DEF N
        <4>5. Total(g, s \ {b}) = g[p] + Total(g, (s \ {b}) \ {p})
          BY <3>2, <3>4, <4>4 DEF Right
        <4>6. (s \ {b}) \ {p} = (s \ {p}) \ {b}
          OBVIOUS
        <4>7. IsFiniteSet((s \ {p}) \ {b}) /\ (s \ {p}) \ {b} \subseteq S
          BY <3>2, FS_Subset
        <4>8. Total(g, (s \ {p}) \ {b}) \in Int /\ g[p] \in Int /\ g[b] \in Int
          BY <3>2, <3>4, <4>7, TotalInt
        <4>9. g[p] + (g[b] + Total(g, (s \ {p}) \ {b})) = g[b] + (g[p] + Total(g, (s \ {p}) \ {b}))
          BY <4>8
        <4> QED BY <3>2, <4>1, <4>5, <4>6, <4>9, Zenon
      <3> QED BY <3>2, <3>4 DEF Right
    <2> QED BY <2>1
  <1>3. N = Nat
    <2> HIDE DEF N
    <2>1. N \subseteq Nat
      BY DEF N
    <2> QED BY <1>1, <1>2, <2>1, Climb
  <1>4. Cardinality(S) \in Nat
    BY FS_CardinalityType
  <1> QED BY <1>3, <1>4

\* One term changes, or joins, or leaves: what it does to the sum.
LEMMA TotalAdd ==
  ASSUME NEW g, NEW h, NEW S, IsFiniteSet(S), NEW a, a \notin S,
         \A x \in S : g[x] \in Int /\ h[x] = g[x], h[a] \in Int
  PROVE  Total(h, S \cup {a}) = Total(g, S) + h[a]
  <1>1. IsFiniteSet(S \cup {a}) /\ (S \cup {a}) \ {a} = S
    BY FS_AddElement
  <1>2. Total(h, S \cup {a}) = h[a] + Total(h, S)
    BY <1>1, TotalRemove
  <1>3. Total(h, S) = Total(g, S) /\ Total(g, S) \in Int
    BY TotalSame, TotalInt
  <1> QED BY <1>2, <1>3

\* Larger terms make a larger sum.
LEMMA TotalMonotone ==
  ASSUME NEW g, NEW h, NEW S, IsFiniteSet(S), \A x \in S : g[x] \in Int /\ h[x] \in Int /\ g[x] <= h[x]
  PROVE  Total(g, S) <= Total(h, S)
  <1> DEFINE N == {n \in Nat : \A s \in SUBSET S : Cardinality(s) = n => Total(g, s) <= Total(h, s)}
  <1>1. 0 \in N
    <2>1. ASSUME NEW s \in SUBSET S, Cardinality(s) = 0 PROVE Total(g, s) <= Total(h, s)
      <3>1. s = {}
        BY <2>1, FS_Subset, FS_EmptySet
      <3> QED BY <3>1, TotalEmpty
    <2> QED BY <2>1
  <1>2. ASSUME NEW n \in N PROVE n + 1 \in N
    <2>1. ASSUME NEW s \in SUBSET S, Cardinality(s) = n + 1 PROVE Total(g, s) <= Total(h, s)
      <3>1. n \in Nat
        OBVIOUS
      <3> HIDE DEF N
      <3>2. PICK p \in s : /\ Cardinality(s \ {p}) = n /\ s \ {p} \in SUBSET S
                           /\ Total(g, s) = g[p] + Total(g, s \ {p}) /\ Total(h, s) = h[p] + Total(h, s \ {p})
        <4>1. /\ Pick(s) \in s /\ Cardinality(s \ {Pick(s)}) = n /\ s \ {Pick(s)} \in SUBSET S
              /\ Total(g, s) = g[Pick(s)] + Total(g, s \ {Pick(s)})
          BY <2>1, <3>1, OneLess
        <4>2. Total(h, s) = h[Pick(s)] + Total(h, s \ {Pick(s)})
          BY <2>1, <3>1, OneLess
        <4> QED BY <4>1, <4>2
      <3>3. Total(g, s \ {p}) <= Total(h, s \ {p})
        BY <3>2 DEF N
      <3>4. IsFiniteSet(s \ {p})
        BY <3>2, FS_Subset
      <3>5. Total(g, s \ {p}) \in Int
        BY <3>2, <3>4, TotalInt
      <3>6. Total(h, s \ {p}) \in Int
        BY <3>2, <3>4, TotalInt
      <3>7. g[p] \in Int /\ h[p] \in Int /\ g[p] <= h[p]
        BY <3>2
      <3> QED BY <3>2, <3>3, <3>5, <3>6, <3>7
    <2> QED BY <2>1
  <1>3. N = Nat
    <2> HIDE DEF N
    <2>1. N \subseteq Nat
      BY DEF N
    <2> QED BY <1>1, <1>2, <2>1, Climb
  <1>4. Cardinality(S) \in Nat
    BY FS_CardinalityType
  <1> QED BY <1>3, <1>4

\* A term that is in no sum does not matter, nor does one that is zero.
LEMMA TotalZero ==
  ASSUME NEW g, NEW S, IsFiniteSet(S), \A x \in S : g[x] = 0
  PROVE  Total(g, S) = 0
  <1> DEFINE N == {n \in Nat : \A s \in SUBSET S : Cardinality(s) = n => Total(g, s) = 0}
  <1>1. 0 \in N
    <2>1. ASSUME NEW s \in SUBSET S, Cardinality(s) = 0 PROVE Total(g, s) = 0
      <3>1. s = {}
        BY <2>1, FS_Subset, FS_EmptySet
      <3> QED BY <3>1, TotalEmpty
    <2> QED BY <2>1
  <1>2. ASSUME NEW n \in N PROVE n + 1 \in N
    <2>1. ASSUME NEW s \in SUBSET S, Cardinality(s) = n + 1 PROVE Total(g, s) = 0
      <3>1. n \in Nat
        OBVIOUS
      <3> HIDE DEF N
      <3>2. /\ Pick(s) \in s /\ Cardinality(s \ {Pick(s)}) = n /\ s \ {Pick(s)} \in SUBSET S
            /\ Total(g, s) = g[Pick(s)] + Total(g, s \ {Pick(s)})
        BY <2>1, <3>1, OneLess
      <3> QED BY <3>2 DEF N
    <2> QED BY <2>1
  <1>3. N = Nat
    <2> HIDE DEF N
    <2>1. N \subseteq Nat
      BY DEF N
    <2> QED BY <1>1, <1>2, <2>1, Climb
  <1>4. Cardinality(S) \in Nat
    BY FS_CardinalityType
  <1> QED BY <1>3, <1>4

Counted(H, k, S) == {n \in H : k[n] \in S}

\* Counting the members of H by what k says of them: the sum of the counts is the
\* count of all of them.
LEMMA TotalCounts ==
  ASSUME NEW g, NEW S, IsFiniteSet(S), NEW H, IsFiniteSet(H), NEW k,
         \A x \in S : g[x] = Cardinality(Counted(H, k, {x}))
  PROVE  Total(g, S) = Cardinality(Counted(H, k, S))
  <1> DEFINE N == {n \in Nat : \A s \in SUBSET S :
                     Cardinality(s) = n => Total(g, s) = Cardinality(Counted(H, k, s))}
  <1>1. 0 \in N
    <2>1. ASSUME NEW s \in SUBSET S, Cardinality(s) = 0
          PROVE  Total(g, s) = Cardinality(Counted(H, k, s))
      <3>1. s = {}
        BY <2>1, FS_Subset, FS_EmptySet
      <3>2. Counted(H, k, s) = {}
        BY <3>1 DEF Counted
      <3> QED BY <3>1, <3>2, TotalEmpty, FS_EmptySet
    <2> QED BY <2>1
  <1>2. ASSUME NEW n \in N PROVE n + 1 \in N
    <2>1. ASSUME NEW s \in SUBSET S, Cardinality(s) = n + 1
          PROVE  Total(g, s) = Cardinality(Counted(H, k, s))
      <3> DEFINE p == Pick(s)
                 A == Counted(H, k, {p})
                 B == Counted(H, k, s \ {p})
      <3>1. n \in Nat
        OBVIOUS
      <3> HIDE DEF N
      <3>2. /\ p \in s /\ Cardinality(s \ {p}) = n /\ s \ {p} \in SUBSET S
            /\ Total(g, s) = g[p] + Total(g, s \ {p})
        <4>1. /\ IsFiniteSet(s) /\ Pick(s) \in s /\ s \ {Pick(s)} \in SUBSET S
              /\ Cardinality(s \ {Pick(s)}) = n
              /\ Total(g, s) = g[Pick(s)] + Total(g, s \ {Pick(s)})
          BY <2>1, <3>1, OneLess
        <4> QED BY <4>1
      <3>3. Total(g, s \ {p}) = Cardinality(B) /\ g[p] = Cardinality(A)
        BY <3>2 DEF N
      <3>4. IsFiniteSet(A) /\ IsFiniteSet(B)
        <4>1. A \subseteq H /\ B \subseteq H
          BY DEF Counted
        <4> QED BY <4>1, FS_Subset
      <3>5. A \cap B = {} /\ A \cup B = Counted(H, k, s)
        BY <3>2 DEF Counted
      <3>6. Cardinality(A \cup B) = Cardinality(A) + Cardinality(B)
        <4> HIDE DEF A, B
        <4>1. Cardinality(A) \in Nat /\ Cardinality(B) \in Nat
          BY <3>4, FS_CardinalityType
        <4>2. Cardinality(A \cap B) = 0
          BY <3>5, FS_EmptySet
        <4>3. Cardinality(A \cup B) = Cardinality(A) + Cardinality(B) - Cardinality(A \cap B)
          BY <3>4, FS_Union
        <4> QED BY <4>1, <4>2, <4>3
      <3> QED BY <3>2, <3>3, <3>5, <3>6
    <2> QED BY <2>1
  <1>3. N = Nat
    <2> HIDE DEF N
    <2>1. N \subseteq Nat
      BY DEF N
    <2> QED BY <1>1, <1>2, <2>1, Climb
  <1>4. Cardinality(S) \in Nat
    BY FS_CardinalityType
  <1> QED BY <1>3, <1>4

\* A function has finitely many values on a finite set.
LEMMA ImageFinite ==
  ASSUME NEW f, NEW S, IsFiniteSet(S)
  PROVE  IsFiniteSet({f[x] : x \in S})
  <1> DEFINE T == {f[x] : x \in S}
             g == [x \in S |-> f[x]]
  <1>1. g \in [S -> T] /\ \A t \in T : \E x \in S : g[x] = t
    OBVIOUS
  <1>2. g \in Surjection(S, T)
    <2> HIDE DEF g, T
    <2> QED BY <1>1, Zenon DEF Surjection
  <1> HIDE DEF g, T
  <1>3. IsFiniteSet(T)
    BY <1>2, FS_Surjection, Zenon
  <1> QED BY <1>3 DEF T

\* A finite set of integers that is not empty has a greatest element, and Max finds it.
LEMMA Greatest ==
  ASSUME NEW S \in SUBSET Int, IsFiniteSet(S), S # {}
  PROVE  Max(S) \in S /\ \A y \in S : Max(S) >= y
  <1> DEFINE Topped(s) == \E x \in s : \A y \in s : x >= y
             N == {n \in Nat : \A s \in SUBSET S : Cardinality(s) = n /\ s # {} => Topped(s)}
  <1>1. 0 \in N
    BY FS_Subset, FS_EmptySet
  <1>2. ASSUME NEW n \in N PROVE n + 1 \in N
    <2>1. ASSUME NEW s \in SUBSET S, Cardinality(s) = n + 1, s # {} PROVE Topped(s)
      <3>1. n \in Nat /\ IsFiniteSet(s)
        BY FS_Subset
      <3>2. PICK p : /\ p \in s /\ Cardinality(s \ {p}) = n /\ s \ {p} \in SUBSET S
        <4>1. Pick(s) \in s /\ Cardinality(s \ {Pick(s)}) = Cardinality(s) - 1
          BY <2>1, <3>1, Picked
        <4>2. Cardinality(s \ {Pick(s)}) = n
          BY <2>1, <3>1, <4>1
        <4> QED BY <4>1, <4>2
      <3>3. CASE s \ {p} = {}
        BY <3>2, <3>3
      <3>4. CASE s \ {p} # {}
        <4>1. Topped(s \ {p})
          BY <3>2, <3>4
        <4>2. PICK x \in s \ {p} : \A y \in s \ {p} : x >= y
          BY <4>1
        <4>3. x \in Int /\ p \in Int /\ \A y \in s : y \in Int
          BY <3>2
        <4>4. CASE x >= p
          BY <4>2, <4>4
        <4>5. CASE p >= x
          <5>1. \A y \in s : p >= y
            BY <4>2, <4>3, <4>5
          <5> QED BY <3>2, <5>1
        <4> QED BY <4>3, <4>4, <4>5
      <3> QED BY <3>3, <3>4
    <2>2. n + 1 \in Nat
      OBVIOUS
    <2> QED BY <2>1, <2>2
  <1>3. N = Nat
    <2> HIDE DEF N
    <2>1. N \subseteq Nat
      BY DEF N
    <2> QED BY <1>1, <1>2, <2>1, Climb
  <1>4. Cardinality(S) \in Nat
    BY FS_CardinalityType
  <1>5. Topped(S)
    BY <1>3, <1>4
  <1> QED BY <1>5 DEF Max

\* Members O of a set A leave it for places f outside of a set C, and each costs
\* no more there: together the two sums do not grow.
Movable(g, h, f, A, O, C) ==
    /\ IsFiniteSet(A) /\ IsFiniteSet(C) /\ O \subseteq A
    /\ \A a \in A : h[a] \in Int
    /\ \A c \in C : g[c] \in Int
    /\ \A a \in O : f[a] \notin C /\ g[f[a]] \in Int /\ g[f[a]] <= h[a]
    /\ \A a, b \in O : f[a] = f[b] => a = b
LEMMA TotalMoved ==
  ASSUME NEW g, NEW h, NEW f, NEW A, NEW O, NEW C, Movable(g, h, f, A, O, C)
  PROVE  Total(h, A \ O) + Total(g, C \cup {f[a] : a \in O}) <= Total(h, A) + Total(g, C)
  <1> DEFINE Image(o) == C \cup {f[a] : a \in o}
             Cheaper(o) == Total(h, A \ o) + Total(g, Image(o)) <= Total(h, A) + Total(g, C)
             N == {n \in Nat : \A o \in SUBSET O : Cardinality(o) = n => Cheaper(o)}
  <1>h. /\ IsFiniteSet(A) /\ IsFiniteSet(C) /\ O \subseteq A
        /\ \A a \in A : h[a] \in Int
        /\ \A c \in C : g[c] \in Int
        /\ \A a \in O : f[a] \notin C /\ g[f[a]] \in Int /\ g[f[a]] <= h[a]
        /\ \A a, b \in O : f[a] = f[b] => a = b
    BY DEF Movable
  <1>0. IsFiniteSet(O) /\ Total(h, A) \in Int /\ Total(g, C) \in Int
    BY <1>h, FS_Subset, TotalInt
  <1> USE <1>h
  <1>a. ASSUME NEW o \in SUBSET O
        PROVE  /\ IsFiniteSet(A \ o) /\ IsFiniteSet(Image(o)) /\ \A x \in Image(o) : g[x] \in Int
               /\ Total(h, A \ o) \in Int /\ Total(g, Image(o)) \in Int
    <2>1. IsFiniteSet(o) /\ IsFiniteSet(A \ o)
      BY <1>0, FS_Subset
    <2>2. IsFiniteSet({f[a] : a \in o})
      BY <2>1, ImageFinite
    <2>3. IsFiniteSet(Image(o))
      BY <2>2, FS_Union
    <2>4. \A x \in Image(o) : g[x] \in Int
      OBVIOUS
    <2> HIDE DEF Image
    <2>5. Total(h, A \ o) \in Int
      BY <2>1, TotalInt
    <2>6. Total(g, Image(o)) \in Int
      BY <2>3, <2>4, TotalInt
    <2> QED BY <2>1, <2>3, <2>4, <2>5, <2>6
  <1>1. 0 \in N
    <2>1. ASSUME NEW o \in SUBSET O, Cardinality(o) = 0 PROVE Cheaper(o)
      <3>1. o = {}
        BY <1>0, <2>1, FS_Subset, FS_EmptySet
      <3>2. A \ o = A /\ Image(o) = C
        BY <3>1
      <3> HIDE DEF Image
      <3>3. Total(h, A \ o) = Total(h, A) /\ Total(g, Image(o)) = Total(g, C)
        BY <3>2, Zenon
      <3>4. Total(h, A \ o) + Total(g, Image(o)) <= Total(h, A) + Total(g, C)
        BY <1>0, <3>3
      <3> QED BY <3>4
    <2> QED BY <2>1
  <1>2. ASSUME NEW n \in N PROVE n + 1 \in N
    <2>1. ASSUME NEW o \in SUBSET O, Cardinality(o) = n + 1 PROVE Cheaper(o)
      <3>1. n \in Nat
        OBVIOUS
      <3> HIDE DEF N
      <3>2. PICK p \in o : Cardinality(o \ {p}) = n /\ o \ {p} \in SUBSET O
        BY <1>0, <2>1, <3>1, OneLess
      <3> DEFINE q == o \ {p}
      <3>3. Cheaper(q)
        BY <3>2 DEF N
      <3>4. p \in A \ q /\ A \ o = (A \ q) \ {p}
        BY <3>2
      <3>5. Total(h, A \ q) = h[p] + Total(h, A \ o)
        <4>1. IsFiniteSet(A \ q) /\ \A x \in A \ q : h[x] \in Int
          BY <1>a, <3>2
        <4>2. Total(h, A \ q) = h[p] + Total(h, (A \ q) \ {p})
          <5> HIDE DEF q
          <5> QED BY <3>4, <4>1, TotalRemove
        <4> QED BY <3>4, <4>2, Zenon
      <3>6. f[p] \in Image(o) /\ Image(q) = Image(o) \ {f[p]}
        BY <3>2
      <3>7. Total(g, Image(o)) = g[f[p]] + Total(g, Image(q))
        <4>1. IsFiniteSet(Image(o)) /\ \A x \in Image(o) : g[x] \in Int
          BY <1>a
        <4>2. Total(g, Image(o)) = g[f[p]] + Total(g, Image(o) \ {f[p]})
          <5> HIDE DEF Image
          <5> QED BY <3>6, <4>1, TotalRemove
        <4> QED BY <3>6, <4>2, Zenon
      <3>8. g[f[p]] \in Int /\ h[p] \in Int /\ g[f[p]] <= h[p]
        BY <3>2
      <3>9. /\ Total(h, A \ o) \in Int /\ Total(g, Image(o)) \in Int
            /\ Total(h, A \ q) \in Int /\ Total(g, Image(q)) \in Int
        BY <1>a, <3>2
      <3> HIDE DEF Image, q
      <3> QED BY <1>0, <3>3, <3>5, <3>7, <3>8, <3>9
    <2> QED BY <2>1
  <1>3. N = Nat
    <2> HIDE DEF N
    <2>1. N \subseteq Nat
      BY DEF N
    <2> QED BY <1>1, <1>2, <2>1, Climb
  <1>4. Cardinality(O) \in Nat
    BY <1>0, FS_CardinalityType
  <1>5. Cheaper(O)
    <2> HIDE DEF Cheaper
    <2> QED BY <1>3, <1>4
  <1> QED BY <1>5
=============================================================================
