---------------------------- MODULE SumTheorems ----------------------------
(***************************************************************************)
(* Induction, the maximum of a finite set, and sums over finite sets.       *)
(*                                                                         *)
(* The models add up sizes with SumFunctionOnSet of the community modules, *)
(* which is a fold: a recursive function on the subsets of the index set.  *)
(* These lemmas say that the sum is what it should be.  Their parameters   *)
(* are sets and functions, never operators, so that the provers can        *)
(* instantiate them; induction is over a set that holds 0 and, with each   *)
(* number, the next.                                                       *)
(***************************************************************************)
EXTENDS Naturals, Functions, FiniteSets, FiniteSetsExt, FiniteSetTheorems, WellFoundedInduction, TLAPS

LEMMA NatSetInduction ==
    ASSUME NEW S, 0 \in S, \A n \in Nat : n \in S => n + 1 \in S
    PROVE  Nat \subseteq S
  <1> DEFINE T == Nat \ S
             R == OpToRel(<, Nat)
  <1> SUFFICES ASSUME T # {} PROVE FALSE
    OBVIOUS
  <1>1. IsWellFoundedOn(R, Nat)
    BY NatLessThanWellFounded
  <1>2. T \subseteq Nat
    OBVIOUS
  <1> HIDE DEF T, R
  <1>3. PICK n \in T : \A m \in T : <<m, n>> \notin R
    BY <1>1, <1>2, WFMin
  <1>4. n \in Nat /\ n \notin S /\ n # 0
    BY DEF T
  <1>5. n - 1 \in Nat /\ <<n - 1, n>> \in R
    BY <1>4 DEF R, OpToRel
  <1>6. n - 1 \in S
    BY <1>3, <1>5 DEF T
  <1> QED
    BY <1>4, <1>5, <1>6

\* A set that holds {} and, with all that a subset of S leaves without one of
\* its elements, that subset, holds S.
LEMMA FiniteSetInduction ==
    ASSUME NEW S, IsFiniteSet(S), NEW F, {} \in F,
           \A T \in SUBSET S : T # {} /\ (\A x \in T : T \ {x} \in F) => T \in F
    PROVE  S \in F
  <1> DEFINE N == {n \in Nat : \A T \in SUBSET S : Cardinality(T) = n => T \in F}
  <1>1. \A T \in SUBSET S : IsFiniteSet(T) /\ Cardinality(T) \in Nat
    BY FS_Subset, FS_CardinalityType
  <1>2. 0 \in N
    BY <1>1, FS_EmptySet
  <1>3. ASSUME NEW n \in Nat, n \in N
        PROVE  n + 1 \in N
    <2>1. ASSUME NEW T \in SUBSET S, Cardinality(T) = n + 1
          PROVE  T \in F
      <3> HIDE DEF N
      <3>1. T # {}
        <4> SUFFICES ASSUME T = {} PROVE FALSE
          OBVIOUS
        <4> QED
          BY <2>1, FS_EmptySet
      <3>2. \A x \in T : Cardinality(T \ {x}) = n /\ T \ {x} \in SUBSET S
        BY <1>1, <2>1, FS_RemoveElement
      <3>3. \A x \in T : T \ {x} \in F
        BY <1>3, <3>2 DEF N
      <3> QED
        BY <3>1, <3>3
    <2> QED
      BY <2>1
  <1> HIDE DEF N
  <1>4. Nat \subseteq N
    BY <1>2, <1>3, NatSetInduction
  <1> QED
    BY <1>1, <1>4 DEF N

\* A finite set of numbers has a largest member.
LEMMA BoundedMax ==
    ASSUME NEW S, NEW n \in Nat, S \subseteq 0..n, S # {}
    PROVE  Max(S) \in S /\ \A x \in S : x <= Max(S)
  <1> DEFINE up(x) == x..n
             T == {up(x) : x \in S}
  <1>1. \A x \in S : IsFiniteSet(up(x)) /\ up(x) \subseteq 0..n
    BY FS_Interval
  <1>2. T \subseteq FiniteSubsetsOf(0..n) /\ T # {}
    BY <1>1 DEF FiniteSubsetsOf
  <1>3. IsWellFoundedOn(StrictSubsetOrdering(0..n), FiniteSubsetsOf(0..n))
    BY FS_StrictSubsetOrderingWellFounded
  <1> HIDE DEF T
  <1>4. PICK least \in T : \A e \in T : <<e, least>> \notin StrictSubsetOrdering(0..n)
    BY <1>2, <1>3, WFMin
  <1>5. PICK m \in S : least = up(m)
    BY DEF T
  <1>6. \A x \in S : m >= x
    <2> SUFFICES ASSUME NEW x \in S, x > m PROVE FALSE
      OBVIOUS
    <2>1. up(x) \in T
      BY DEF T
    <2>2. up(x) \subseteq up(m) /\ up(x) # up(m) /\ up(m) \subseteq 0..n
      <3>1. m \in up(m) /\ m \notin up(x)
        OBVIOUS
      <3> QED
        BY <1>1, <3>1
    <2>3. <<up(x), up(m)>> \in StrictSubsetOrdering(0..n)
      BY <2>2 DEF StrictSubsetOrdering
    <2> QED
      BY <1>4, <1>5, <2>1, <2>3
  <1>7. Max(S) \in S /\ \A x \in S : Max(S) >= x
    BY <1>6 DEF Max
  <1> QED
    BY <1>7

\* A set of numbers has a smallest member.
LEMMA SmallestOf ==
    ASSUME NEW S, S \subseteq Nat, S # {}
    PROVE  Min(S) \in S /\ \A x \in S : Min(S) <= x
  <1> DEFINE N == {n \in Nat : \A x \in S : n <= x}
  <1>1. 0 \in N
    OBVIOUS
  <1>2. \E m \in S : \A x \in S : m <= x
    <2> SUFFICES ASSUME ~\E m \in S : \A x \in S : m <= x PROVE FALSE
      OBVIOUS
    <2>1. ASSUME NEW n \in Nat, n \in N PROVE n + 1 \in N
      BY <2>1
    <2>2. Nat \subseteq N
      <3> HIDE DEF N
      <3> QED
        BY <1>1, <2>1, NatSetInduction
    <2>3. PICK x \in S : TRUE
      OBVIOUS
    <2>4. x + 1 \in N
      BY <2>2
    <2> QED
      BY <2>4
  <1>3. Min(S) = CHOOSE x \in S : \A y \in S : x <= y
    BY DEF Min
  <1> QED
    BY <1>2, <1>3

-----------------------------------------------------------------------------
(* The fold behind a sum.                                                   *)

Picked(s) == CHOOSE x \in s : TRUE

\* The recursive function on the subsets of T that the sum takes the last
\* value of.
IsPartialSum(g, f, T) ==
    g = [s \in SUBSET T |-> IF s = {} THEN 0 ELSE f[Picked(s)] + g[s \ {Picked(s)}]]

LEMMA SumIsPartialSum ==
    ASSUME NEW f, NEW T
    PROVE  SumFunctionOnSet(f, T) = (CHOOSE g : IsPartialSum(g, f, T))[T]
  BY DEF SumFunctionOnSet, FoldFunctionOnSet, MapThenFoldSet, IsPartialSum, Picked

LEMMA PartialSumExists ==
    ASSUME NEW f, NEW S, IsFiniteSet(S)
    PROVE  \E g : IsPartialSum(g, f, S)
  <1> DEFINE U(n) == {s \in SUBSET S : Cardinality(s) <= n}
             term(g, s) == IF s = {} THEN 0 ELSE f[Picked(s)] + g[s \ {Picked(s)}]
             Upto(g, n) == g = [s \in U(n) |-> term(g, s)]
             N == {n \in Nat : \E g : Upto(g, n)}
  <1>1. \A s \in SUBSET S : /\ IsFiniteSet(s) /\ Cardinality(s) \in Nat
                            /\ Cardinality(s) = 0 <=> s = {}
    BY FS_Subset, FS_CardinalityType, FS_EmptySet
  <1>2. ASSUME NEW n \in Nat, NEW s \in U(n + 1), s # {}
        PROVE  s \ {Picked(s)} \in U(n)
    <2>1. Picked(s) \in s
      BY <1>2 DEF Picked
    <2>2. Cardinality(s \ {Picked(s)}) = Cardinality(s) - 1
      BY <1>1, <2>1, FS_RemoveElement
    <2> QED
      BY <1>1, <2>2
  <1>3. 0 \in N
    <2> DEFINE g == [s \in U(0) |-> 0]
    <2>1. \A s \in U(0) : s = {}
      BY <1>1
    <2>2. Upto(g, 0)
      BY <2>1
    <2> QED
      BY <2>2
  <1>4. ASSUME NEW n \in Nat, n \in N
        PROVE  n + 1 \in N
    <2>1. PICK g : Upto(g, n)
      BY <1>4
    <2> DEFINE h == [s \in U(n + 1) |-> term(g, s)]
    <2>2. U(n) \subseteq U(n + 1)
      BY <1>1
    <2>3. \A s \in U(n) : g[s] = h[s]
      BY <2>1, <2>2
    <2>4. \A s \in U(n + 1) : term(g, s) = term(h, s)
      <3> HIDE DEF h, U
      <3> QED
        BY <1>2, <2>3
    <2>5. Upto(h, n + 1)
      BY <2>4
    <2> HIDE DEF h, Upto
    <2> QED
      BY <2>5
  <1>5. Cardinality(S) \in Nat
    BY <1>1
  <1>6. U(Cardinality(S)) = SUBSET S
    BY FS_Subset
  <1>7. Cardinality(S) \in N
    <2> HIDE DEF N
    <2> QED
      BY <1>3, <1>4, <1>5, NatSetInduction
  <1> QED
    BY <1>6, <1>7 DEF IsPartialSum

LEMMA PartialSumsAgree ==
    ASSUME NEW f, NEW S, NEW T, NEW g, NEW h, IsPartialSum(g, f, S), IsPartialSum(h, f, T),
           NEW s, s \subseteq S, s \subseteq T, IsFiniteSet(s)
    PROVE  g[s] = h[s]
  <1> DEFINE F == {r \in SUBSET s : g[r] = h[r]}
  <1>1. {} \in F
    BY DEF IsPartialSum
  <1>2. ASSUME NEW r \in SUBSET s, r # {}, \A x \in r : r \ {x} \in F
        PROVE  r \in F
    <2>1. Picked(r) \in r
      BY <1>2 DEF Picked
    <2>2. g[r] = f[Picked(r)] + g[r \ {Picked(r)}] /\ h[r] = f[Picked(r)] + h[r \ {Picked(r)}]
      BY <1>2 DEF IsPartialSum
    <2> QED
      BY <1>2, <2>1, <2>2
  <1> HIDE DEF F
  <1>3. s \in F
    BY <1>1, <1>2, FiniteSetInduction
  <1> QED
    BY <1>3 DEF F

LEMMA SumPicked ==
    ASSUME NEW f, NEW S, IsFiniteSet(S)
    PROVE  SumFunctionOnSet(f, S) =
              IF S = {} THEN 0 ELSE f[Picked(S)] + SumFunctionOnSet(f, S \ {Picked(S)})
  <1> DEFINE sum(T) == CHOOSE g : IsPartialSum(g, f, T)
  <1>1. ASSUME NEW T, IsFiniteSet(T)
        PROVE  IsPartialSum(sum(T), f, T) /\ SumFunctionOnSet(f, T) = sum(T)[T]
    BY <1>1, PartialSumExists, SumIsPartialSum
  <1>2. IsFiniteSet(S \ {Picked(S)})
    BY FS_RemoveElement
  <1> HIDE DEF sum
  <1>3. sum(S)[S] = IF S = {} THEN 0 ELSE f[Picked(S)] + sum(S)[S \ {Picked(S)}]
    BY <1>1 DEF IsPartialSum
  <1>4. sum(S)[S \ {Picked(S)}] = sum(S \ {Picked(S)})[S \ {Picked(S)}]
    BY <1>1, <1>2, PartialSumsAgree
  <1> QED
    BY <1>1, <1>2, <1>3, <1>4

-----------------------------------------------------------------------------
(* Sums.                                                                    *)

LEMMA SumEmpty == ASSUME NEW f PROVE SumFunctionOnSet(f, {}) = 0
  BY SumPicked, FS_EmptySet

LEMMA SumNat ==
    ASSUME NEW f, NEW S, IsFiniteSet(S), \A x \in S : f[x] \in Nat
    PROVE  SumFunctionOnSet(f, S) \in Nat
  <1> DEFINE F == {T \in SUBSET S : SumFunctionOnSet(f, T) \in Nat}
  <1>1. {} \in F
    BY SumEmpty
  <1>2. ASSUME NEW T \in SUBSET S, T # {}, \A x \in T : T \ {x} \in F
        PROVE  T \in F
    <2>1. Picked(T) \in T /\ IsFiniteSet(T)
      BY <1>2, FS_Subset DEF Picked
    <2>2. SumFunctionOnSet(f, T) = f[Picked(T)] + SumFunctionOnSet(f, T \ {Picked(T)})
      BY <1>2, <2>1, SumPicked
    <2> QED
      BY <1>2, <2>1, <2>2
  <1> HIDE DEF F
  <1>3. S \in F
    BY <1>1, <1>2, FiniteSetInduction
  <1> QED
    BY <1>3 DEF F

\* Any term may be taken out, not only the one the fold picks.
LEMMA SumRemove ==
    ASSUME NEW f, NEW S, IsFiniteSet(S), \A x \in S : f[x] \in Nat, NEW y \in S
    PROVE  SumFunctionOnSet(f, S) = f[y] + SumFunctionOnSet(f, S \ {y})
  <1> DEFINE sum(T) == SumFunctionOnSet(f, T)
             F == {T \in SUBSET S : \A x \in T : sum(T) = f[x] + sum(T \ {x})}
  <1>1. {} \in F
    OBVIOUS
  <1>2. ASSUME NEW T \in SUBSET S, T # {}, \A x \in T : T \ {x} \in F
        PROVE  T \in F
    <2> DEFINE p == Picked(T)
    <2>1. p \in T /\ IsFiniteSet(T)
      BY <1>2, FS_Subset DEF Picked
    <2>2. sum(T) = f[p] + sum(T \ {p})
      BY <1>2, <2>1, SumPicked
    <2> HIDE DEF p
    <2>3. ASSUME NEW x \in T, x # p
          PROVE  sum(T) = f[x] + sum(T \ {x})
      <3>1. T \ {p} \in F /\ x \in T \ {p} /\ T \ {x} \in F /\ p \in T \ {x}
        BY <1>2, <2>1, <2>3
      <3>2. sum(T \ {p}) = f[x] + sum((T \ {p}) \ {x}) /\ sum(T \ {x}) = f[p] + sum((T \ {x}) \ {p})
        BY <3>1
      <3>3. (T \ {p}) \ {x} = (T \ {x}) \ {p}
        OBVIOUS
      <3>4. IsFiniteSet((T \ {x}) \ {p})
        BY <2>1, FS_Subset
      <3>5. f[x] \in Nat /\ f[p] \in Nat /\ sum((T \ {x}) \ {p}) \in Nat
        BY <2>1, <3>4, SumNat
      <3> HIDE DEF sum, F
      <3> QED
        BY <2>2, <3>2, <3>3, <3>5
    <2> QED
      BY <2>2, <2>3
  <1> HIDE DEF F
  <1>3. S \in F
    BY <1>1, <1>2, FiniteSetInduction
  <1> QED
    BY <1>3 DEF F

LEMMA SumAdd ==
    ASSUME NEW f, NEW S, IsFiniteSet(S), NEW y, y \notin S, \A x \in S \cup {y} : f[x] \in Nat
    PROVE  SumFunctionOnSet(f, S \cup {y}) = SumFunctionOnSet(f, S) + f[y]
  <1>1. IsFiniteSet(S \cup {y}) /\ (S \cup {y}) \ {y} = S
    BY FS_AddElement
  <1>2. SumFunctionOnSet(f, S) \in Nat /\ f[y] \in Nat
    BY SumNat
  <1> QED
    BY <1>1, <1>2, SumRemove

\* Terms that are pointwise at most as large.
LEMMA SumMonotone ==
    ASSUME NEW f, NEW g, NEW S, IsFiniteSet(S),
           \A x \in S : f[x] \in Nat /\ g[x] \in Nat /\ f[x] <= g[x]
    PROVE  SumFunctionOnSet(f, S) <= SumFunctionOnSet(g, S)
  <1> DEFINE F == {T \in SUBSET S : SumFunctionOnSet(f, T) <= SumFunctionOnSet(g, T)}
  <1>1. {} \in F
    BY SumEmpty
  <1>2. ASSUME NEW T \in SUBSET S, T # {}, \A x \in T : T \ {x} \in F
        PROVE  T \in F
    <2>1. PICK y \in T : TRUE
      BY <1>2
    <2>2. IsFiniteSet(T) /\ IsFiniteSet(T \ {y})
      BY FS_Subset
    <2>3. /\ SumFunctionOnSet(f, T) = f[y] + SumFunctionOnSet(f, T \ {y})
          /\ SumFunctionOnSet(g, T) = g[y] + SumFunctionOnSet(g, T \ {y})
      BY <2>2, SumRemove
    <2>4. SumFunctionOnSet(f, T \ {y}) \in Nat /\ SumFunctionOnSet(g, T \ {y}) \in Nat
      BY <2>2, SumNat
    <2>5. SumFunctionOnSet(f, T \ {y}) <= SumFunctionOnSet(g, T \ {y})
      BY <1>2
    <2>6. f[y] \in Nat /\ g[y] \in Nat /\ f[y] <= g[y]
      OBVIOUS
    <2> QED
      BY <2>3, <2>4, <2>5, <2>6
  <1> HIDE DEF F
  <1>3. S \in F
    BY <1>1, <1>2, FiniteSetInduction
  <1> QED
    BY <1>3 DEF F

LEMMA SumAgree ==
    ASSUME NEW f, NEW g, NEW S, IsFiniteSet(S), \A x \in S : f[x] \in Nat /\ f[x] = g[x]
    PROVE  SumFunctionOnSet(f, S) = SumFunctionOnSet(g, S)
  <1>1. SumFunctionOnSet(f, S) \in Nat /\ SumFunctionOnSet(g, S) \in Nat
    BY SumNat
  <1>2. SumFunctionOnSet(f, S) <= SumFunctionOnSet(g, S) /\ SumFunctionOnSet(g, S) <= SumFunctionOnSet(f, S)
    BY SumMonotone
  <1> QED
    BY <1>1, <1>2

LEMMA SumDisjoint ==
    ASSUME NEW f, NEW S, NEW T, IsFiniteSet(S), IsFiniteSet(T), S \cap T = {},
           \A x \in S \cup T : f[x] \in Nat
    PROVE  SumFunctionOnSet(f, S \cup T) = SumFunctionOnSet(f, S) + SumFunctionOnSet(f, T)
  <1> DEFINE F == {U \in SUBSET T :
                     SumFunctionOnSet(f, S \cup U) = SumFunctionOnSet(f, S) + SumFunctionOnSet(f, U)}
  <1>1. {} \in F
    <2>1. S \cup {} = S /\ SumFunctionOnSet(f, S) \in Nat
      BY SumNat
    <2> QED
      BY <2>1, SumEmpty
  <1>2. ASSUME NEW U \in SUBSET T, U # {}, \A x \in U : U \ {x} \in F
        PROVE  U \in F
    <2>1. PICK y \in U : TRUE
      BY <1>2
    <2> DEFINE V == U \ {y}
    <2>2. IsFiniteSet(V) /\ IsFiniteSet(S \cup V)
      BY FS_Subset, FS_Union
    <2>3. U = V \cup {y} /\ S \cup U = (S \cup V) \cup {y} /\ y \notin V /\ y \notin S \cup V
          /\ V \subseteq T
      OBVIOUS
    <2>4. SumFunctionOnSet(f, S \cup V) = SumFunctionOnSet(f, S) + SumFunctionOnSet(f, V)
      BY <1>2
    <2> HIDE DEF V
    <2>5. /\ SumFunctionOnSet(f, U) = SumFunctionOnSet(f, V) + f[y]
          /\ SumFunctionOnSet(f, S \cup U) = SumFunctionOnSet(f, S \cup V) + f[y]
      BY <2>2, <2>3, SumAdd
    <2>6. SumFunctionOnSet(f, S) \in Nat /\ SumFunctionOnSet(f, V) \in Nat /\ f[y] \in Nat
      BY <2>2, <2>3, SumNat
    <2> QED
      BY <2>4, <2>5, <2>6
  <1> HIDE DEF F
  <1>3. T \in F
    BY <1>1, <1>2, FiniteSetInduction
  <1> QED
    BY <1>3 DEF F

LEMMA SumOfPart ==
    ASSUME NEW f, NEW S, NEW T, IsFiniteSet(S), T \subseteq S, \A x \in S : f[x] \in Nat
    PROVE  SumFunctionOnSet(f, S) = SumFunctionOnSet(f, T) + SumFunctionOnSet(f, S \ T)
  <1>1. IsFiniteSet(T) /\ IsFiniteSet(S \ T) /\ T \cup (S \ T) = S
    BY FS_Subset
  <1>2. SumFunctionOnSet(f, T \cup (S \ T)) = SumFunctionOnSet(f, T) + SumFunctionOnSet(f, S \ T)
    BY <1>1, SumDisjoint
  <1> QED
    BY <1>1, <1>2

\* Of more terms, the old ones among them.
LEMMA SumGrows ==
    ASSUME NEW f, NEW g, NEW S, NEW T, IsFiniteSet(S), T \subseteq S,
           \A x \in S : f[x] \in Nat, \A x \in T : g[x] = f[x]
    PROVE  SumFunctionOnSet(g, T) <= SumFunctionOnSet(f, S)
  <1>1. IsFiniteSet(T) /\ IsFiniteSet(S \ T)
    BY FS_Subset
  <1>2. SumFunctionOnSet(f, S) = SumFunctionOnSet(f, T) + SumFunctionOnSet(f, S \ T)
    BY SumOfPart
  <1>3. SumFunctionOnSet(g, T) = SumFunctionOnSet(f, T)
    BY <1>1, SumAgree
  <1>4. SumFunctionOnSet(f, T) \in Nat /\ SumFunctionOnSet(f, S \ T) \in Nat
    BY <1>1, SumNat
  <1> QED
    BY <1>2, <1>3, <1>4

\* Terms outside of T that are zero.
LEMMA SumSupport ==
    ASSUME NEW f, NEW S, NEW T, IsFiniteSet(S), T \subseteq S,
           \A x \in S : f[x] \in Nat, \A x \in S \ T : f[x] = 0
    PROVE  SumFunctionOnSet(f, S) = SumFunctionOnSet(f, T)
  <1> DEFINE g == [x \in S |-> 0]
             F == {U \in SUBSET (S \ T) : SumFunctionOnSet(f, U) = 0}
  <1>1. {} \in F
    BY SumEmpty
  <1>2. ASSUME NEW U \in SUBSET (S \ T), U # {}, \A x \in U : U \ {x} \in F
        PROVE  U \in F
    <2>1. PICK y \in U : TRUE
      BY <1>2
    <2>2. IsFiniteSet(U) /\ \A x \in U : f[x] \in Nat
      BY FS_Subset
    <2>3. SumFunctionOnSet(f, U) = f[y] + SumFunctionOnSet(f, U \ {y})
      BY <2>2, SumRemove
    <2>4. f[y] = 0 /\ SumFunctionOnSet(f, U \ {y}) = 0
      BY <1>2
    <2> QED
      BY <2>3, <2>4
  <1>3. IsFiniteSet(S \ T) /\ IsFiniteSet(T)
    BY FS_Subset
  <1> HIDE DEF F
  <1>4. S \ T \in F
    BY <1>1, <1>2, <1>3, FiniteSetInduction
  <1>5. SumFunctionOnSet(f, S) = SumFunctionOnSet(f, T) + SumFunctionOnSet(f, S \ T)
    BY SumOfPart
  <1>6. SumFunctionOnSet(f, T) \in Nat
    BY <1>3, SumNat
  <1> QED
    BY <1>4, <1>5, <1>6 DEF F

\* Term by term.
LEMMA SumPlus ==
    ASSUME NEW f, NEW g, NEW h, NEW S, IsFiniteSet(S),
           \A x \in S : f[x] \in Nat /\ g[x] \in Nat /\ h[x] = f[x] + g[x]
    PROVE  SumFunctionOnSet(h, S) = SumFunctionOnSet(f, S) + SumFunctionOnSet(g, S)
  <1> DEFINE F == {T \in SUBSET S :
                     SumFunctionOnSet(h, T) = SumFunctionOnSet(f, T) + SumFunctionOnSet(g, T)}
  <1>1. {} \in F
    BY SumEmpty
  <1>2. ASSUME NEW T \in SUBSET S, T # {}, \A x \in T : T \ {x} \in F
        PROVE  T \in F
    <2>1. PICK y \in T : TRUE
      BY <1>2
    <2>2. /\ IsFiniteSet(T) /\ IsFiniteSet(T \ {y})
          /\ \A x \in T : f[x] \in Nat /\ g[x] \in Nat /\ h[x] \in Nat
      BY FS_Subset
    <2>3. /\ SumFunctionOnSet(f, T) = f[y] + SumFunctionOnSet(f, T \ {y})
          /\ SumFunctionOnSet(g, T) = g[y] + SumFunctionOnSet(g, T \ {y})
          /\ SumFunctionOnSet(h, T) = h[y] + SumFunctionOnSet(h, T \ {y})
      BY <2>2, SumRemove
    <2>4. SumFunctionOnSet(f, T \ {y}) \in Nat /\ SumFunctionOnSet(g, T \ {y}) \in Nat
      BY <2>2, SumNat
    <2>5. SumFunctionOnSet(h, T \ {y}) = SumFunctionOnSet(f, T \ {y}) + SumFunctionOnSet(g, T \ {y})
      BY <1>2
    <2>6. f[y] \in Nat /\ g[y] \in Nat /\ h[y] = f[y] + g[y]
      OBVIOUS
    <2> QED
      BY <2>3, <2>4, <2>5, <2>6
  <1> HIDE DEF F
  <1>3. S \in F
    BY <1>1, <1>2, FiniteSetInduction
  <1> QED
    BY <1>3 DEF F

\* The p[e] are disjoint parts of S, and all of it.
Splits(p, E, S) ==
    /\ \A e \in E : IsFiniteSet(p[e]) /\ p[e] \subseteq S
    /\ \A d \in E, e \in E : \A x \in p[d] : x \in p[e] => d = e
    /\ \A x \in S : \E e \in E : x \in p[e]

\* A sum of sums.
LEMMA SumOfParts ==
    ASSUME NEW f, NEW E, IsFiniteSet(E), NEW p, NEW S, Splits(p, E, S), NEW g,
           \A e \in E : g[e] = SumFunctionOnSet(f, p[e]),
           \A x \in S : f[x] \in Nat
    PROVE  SumFunctionOnSet(g, E) = SumFunctionOnSet(f, S) /\ IsFiniteSet(S)
  <1> USE DEF Splits
  <1> DEFINE of(T) == {x \in S : \E e \in T : x \in p[e]}
             F == {T \in SUBSET E : IsFiniteSet(of(T)) /\ SumFunctionOnSet(g, T) = SumFunctionOnSet(f, of(T))}
  <1>1. {} \in F
    <2>1. of({}) = {}
      OBVIOUS
    <2> QED
      BY <2>1, SumEmpty, FS_EmptySet
  <1>2. ASSUME NEW T \in SUBSET E, T # {}, \A x \in T : T \ {x} \in F
        PROVE  T \in F
    <2>1. PICK y \in T : TRUE
      BY <1>2
    <2> DEFINE R == T \ {y}
    <2>2. of(T) = of(R) \cup p[y] /\ of(R) \cap p[y] = {} /\ of(T) \subseteq S
      OBVIOUS
    <2>3. IsFiniteSet(of(R)) /\ IsFiniteSet(p[y]) /\ SumFunctionOnSet(g, R) = SumFunctionOnSet(f, of(R))
      BY <1>2
    <2>4. \A x \in of(R) \cup p[y] : f[x] \in Nat
      BY <2>2
    <2>5. \A e \in T : g[e] \in Nat
      <3> SUFFICES ASSUME NEW e \in T PROVE g[e] \in Nat
        OBVIOUS
      <3>1. IsFiniteSet(p[e]) /\ (\A x \in p[e] : f[x] \in Nat) /\ g[e] = SumFunctionOnSet(f, p[e])
        OBVIOUS
      <3> QED
        BY <3>1, SumNat
    <2> HIDE DEF of
    <2> DEFINE A == of(R)
               B == p[y]
    <2>6. IsFiniteSet(of(T)) /\ SumFunctionOnSet(f, of(T)) = SumFunctionOnSet(f, of(R)) + SumFunctionOnSet(f, p[y])
      <3>1. of(T) = A \cup B /\ A \cap B = {} /\ IsFiniteSet(A) /\ IsFiniteSet(B)
            /\ \A x \in A \cup B : f[x] \in Nat
        BY <2>2, <2>3, <2>4
      <3> HIDE DEF A, B
      <3>2. IsFiniteSet(A \cup B)
        BY <3>1, FS_Union
      <3>3. SumFunctionOnSet(f, A \cup B) = SumFunctionOnSet(f, A) + SumFunctionOnSet(f, B)
        BY <3>1, SumDisjoint
      <3> QED
        BY <3>1, <3>2, <3>3 DEF A, B
    <2>7. SumFunctionOnSet(g, T) = g[y] + SumFunctionOnSet(g, R)
      BY <2>5, FS_Subset, SumRemove
    <2>8. g[y] = SumFunctionOnSet(f, p[y]) /\ g[y] \in Nat /\ SumFunctionOnSet(f, of(R)) \in Nat
      BY <2>3, <2>4, <2>5, SumNat
    <2> QED
      BY <2>3, <2>6, <2>7, <2>8
  <1>3. E \in F
    <2> HIDE DEF F
    <2> QED
      BY <1>1, <1>2, FiniteSetInduction
  <1>4. of(E) = S
    OBVIOUS
  <1> QED
    BY <1>3, <1>4
=============================================================================
