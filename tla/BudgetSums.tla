----------------------------- MODULE BudgetSums -----------------------------
(***************************************************************************)
(* Sums over finite sets, as the community modules define them. A sum is a *)
(* CHOOSE of a recursive function on sets; what the model needs to know of *)
(* it follows from the recursion by induction on the size of a set. The    *)
(* induction is stated for sets of naturals and of subsets, and rests on   *)
(* the well-foundedness of < on the naturals.                              *)
(***************************************************************************)
EXTENDS FiniteSetsExt, Integers, FiniteSetTheorems, TLAPS

(* A set of naturals that a well-founded order orders has a least element. *)
LEMMA LeastOfOrder ==
    ASSUME NEW R, IsWellFoundedOn(R, Nat),
           \A m \in Nat : \A n \in Nat : m < n => <<m, n>> \in R,
           NEW T, T \subseteq Nat, T # {}
    PROVE  \E n \in T : \A m \in T : n <= m
<1>1. PICK n \in T : \A m \in T : ~(<<m, n>> \in R)
  <2>1. \E x \in T : \A y \in T : ~(<<y, x>> \in R)
    <3> DEFINE N == Nat
    <3>1. IsWellFoundedOn(R, N) /\ T \subseteq N /\ T # {}
      OBVIOUS
    <3> HIDE DEF N
    <3> QED
      BY ONLY <3>1, WFMin
  <2> QED
    BY <2>1, Zenon
<1>2. ASSUME NEW m \in T PROVE n <= m
  <2>1. m \in Nat /\ n \in Nat
    OBVIOUS
  <2>2. ~(m < n)
    BY <1>1, <2>1, Zenon
  <2> QED
    BY <2>1, <2>2
<1> QED
  BY <1>2

(* Every nonempty set of naturals has a least element. *)
LEMMA LeastNat ==
    ASSUME NEW T, T \subseteq Nat, T # {}
    PROVE  \E n \in T : \A m \in T : n <= m
<1>1. OpToRel(<, Nat) = {ss \in Nat \X Nat : ss[1] < ss[2]}
  BY Zenon DEF OpToRel
<1> DEFINE Less == {ss \in Nat \X Nat : ss[1] < ss[2]}
<1>2. \A m \in Nat : \A n \in Nat : m < n => <<m, n>> \in Less
  OBVIOUS
<1>3. IsWellFoundedOn(Less, Nat)
  BY <1>1, NatLessThanWellFounded, Zenon
<1> HIDE DEF Less
<1> QED
  BY <1>2, <1>3, LeastOfOrder

(* Induction on the naturals, for a set instead of a predicate: what holds *)
(* 0 and the successor of each of its elements holds them all.             *)
LEMMA NatInductionSet ==
    ASSUME NEW F, 0 \in F, \A n \in Nat : n \in F => n + 1 \in F
    PROVE  Nat \subseteq F
<1> SUFFICES ASSUME NEW k \in Nat, k \notin F PROVE FALSE
  OBVIOUS
<1> DEFINE Missing == {n \in Nat : n \notin F}
<1>1. PICK n \in Missing : \A m \in Missing : n <= m
  <2>1. Missing \subseteq Nat /\ Missing # {}
    OBVIOUS
  <2> QED
    BY <2>1, LeastNat
<1>2. n # 0 /\ n \in Nat
  OBVIOUS
<1>3. n - 1 \in F
  BY <1>1, <1>2
<1> QED
  BY <1>2, <1>3

(* Induction on the size of the subsets of a finite set. *)
LEMMA SubsetInduction ==
    ASSUME NEW U, IsFiniteSet(U), NEW F,
           \A T \in SUBSET U : (\A V \in SUBSET T : V # T => V \in F) => T \in F
    PROVE  SUBSET U \subseteq F
<1> SUFFICES ASSUME NEW W \in SUBSET U, W \notin F PROVE FALSE
  OBVIOUS
<1> DEFINE Missing == {T \in SUBSET U : T \notin F}
           Sizes == {Cardinality(T) : T \in Missing}
<1>1. ASSUME NEW T \in SUBSET U
      PROVE  IsFiniteSet(T) /\ Cardinality(T) \in Nat
  BY FS_Subset, FS_CardinalityType
<1>2. PICK n \in Sizes : \A m \in Sizes : n <= m
  <2>1. Sizes \subseteq Nat
    BY <1>1
  <2>2. Sizes # {}
    OBVIOUS
  <2> HIDE DEF Sizes
  <2> QED
    BY <2>1, <2>2, LeastNat
<1>3. PICK T \in Missing : n = Cardinality(T)
  OBVIOUS
<1>4. ASSUME NEW V \in SUBSET T, V # T PROVE V \in F
  <2>1. Cardinality(V) <= Cardinality(T) /\ Cardinality(V) # Cardinality(T)
    BY <1>1, <1>4, FS_Subset
  <2>2. Cardinality(V) \in Nat /\ Cardinality(T) \in Nat
    BY <1>1
  <2>3. ~(Cardinality(T) <= Cardinality(V))
    BY <2>1, <2>2
  <2> QED
    BY <1>2, <1>3, <2>3
<1> QED
  BY <1>4

(* The element that a sum over a set takes first. *)
Pick(s) == CHOOSE x \in s : TRUE

(* It is an element of the set. *)
LEMMA PickType ==
    ASSUME NEW s, s # {} PROVE Pick(s) \in s
BY DEF Pick

(* The recursion that a sum is defined by, on the sets of D. *)
Recurs(g, f, D) ==
    g = [s \in D |-> IF s = {} THEN 0 ELSE f[Pick(s)] + g[s \ {Pick(s)}]]

(* The sum of a function over a set of its domain. *)
Sum(f, S) == MapThenSumSet(LAMBDA x : f[x], S)

(* If some function satisfies the recursion, the sum is what one of them   *)
(* gives.                                                                  *)
LEMMA SumDefined ==
    ASSUME NEW f, NEW S, \E g : Recurs(g, f, SUBSET S)
    PROVE  \E g : Recurs(g, f, SUBSET S) /\ Sum(f, S) = g[S]
<1> DEFINE G == CHOOSE g : Recurs(g, f, SUBSET S)
<1>1. Recurs(G, f, SUBSET S)
  OBVIOUS
<1>2. Sum(f, S) = G[S]
  BY DEF Sum, MapThenSumSet, MapThenFoldSet, Recurs, Pick
<1> QED
  BY <1>1, <1>2

(* Some function does, on the subsets of a finite set. *)
LEMMA SumRecursion ==
    ASSUME NEW S, IsFiniteSet(S), NEW f
    PROVE  \E g : Recurs(g, f, SUBSET S)
<1> DEFINE Small(n) == {s \in SUBSET S : Cardinality(s) <= n}
           F == {n \in Nat : \E g : Recurs(g, f, Small(n))}
<1>1. ASSUME NEW s \in SUBSET S
      PROVE  IsFiniteSet(s) /\ Cardinality(s) \in Nat /\ Cardinality(s) <= Cardinality(S)
             /\ (Cardinality(s) = 0 <=> s = {})
  BY FS_Subset, FS_CardinalityType, FS_EmptySet
<1>2. ASSUME NEW s \in SUBSET S, s # {}
      PROVE  s \ {Pick(s)} \in SUBSET S /\ Cardinality(s \ {Pick(s)}) = Cardinality(s) - 1
  BY <1>1, <1>2, PickType, FS_RemoveElement
<1>3. 0 \in F
  <2> DEFINE g == [s \in Small(0) |-> 0]
  <2>1. \A s \in Small(0) : s = {}
    BY <1>1
  <2>2. Recurs(g, f, Small(0))
    BY <2>1 DEF Recurs
  <2> QED
    BY <2>2
<1>4. ASSUME NEW n \in Nat, n \in F PROVE n + 1 \in F
  <2>1. PICK g : Recurs(g, f, Small(n))
    BY <1>4
  <2> DEFINE k == [s \in Small(n + 1) |-> IF s = {} THEN 0 ELSE f[Pick(s)] + g[s \ {Pick(s)}]]
  <2>2. ASSUME NEW s \in Small(n + 1), s # {}
        PROVE  s \ {Pick(s)} \in Small(n) /\ s \ {Pick(s)} \in Small(n + 1)
    <3>1. Cardinality(s \ {Pick(s)}) = Cardinality(s) - 1 /\ s \ {Pick(s)} \in SUBSET S
      BY <1>2, <2>2
    <3>2. Cardinality(s) \in Nat /\ Cardinality(s) <= n + 1
      BY <1>1
    <3> QED
      BY <3>1, <3>2
  <2>3. ASSUME NEW s \in Small(n), s \in Small(n + 1) PROVE k[s] = g[s]
    <3>1. g[s] = IF s = {} THEN 0 ELSE f[Pick(s)] + g[s \ {Pick(s)}]
      BY <2>1 DEF Recurs
    <3> HIDE DEF Small
    <3> QED
      BY <2>3, <3>1
  <2>4. ASSUME NEW s \in Small(n + 1), s # {}
        PROVE  g[s \ {Pick(s)}] = k[s \ {Pick(s)}]
    BY <2>2, <2>3, <2>4
  <2>5. Recurs(k, f, Small(n + 1))
    <3>0. k = [s \in Small(n + 1) |-> IF s = {} THEN 0 ELSE f[Pick(s)] + g[s \ {Pick(s)}]]
      OBVIOUS
    <3> HIDE DEF k, Small
    <3> QED
      BY <2>4, <3>0 DEF Recurs
  <2>6. \E G : Recurs(G, f, Small(n + 1))
    <3> HIDE DEF k, Small
    <3> QED
      BY <2>5
  <2> QED
    <3> HIDE DEF k, Small
    <3> QED
      BY <2>6
<1>5. Cardinality(S) \in F
  <2>1. Cardinality(S) \in Nat
    BY FS_CardinalityType
  <2> HIDE DEF F
  <2> QED
    BY <1>3, <1>4, <2>1, NatInductionSet
<1>6. Small(Cardinality(S)) = SUBSET S
  BY <1>1
<1> QED
  BY <1>5, <1>6

(* Two functions that satisfy the recursion agree where both do. *)
LEMMA RecursionAgrees ==
    ASSUME NEW T, IsFiniteSet(T), NEW D, SUBSET T \subseteq D,
           NEW f, NEW g, NEW h, Recurs(g, f, D), Recurs(h, f, SUBSET T)
    PROVE  g[T] = h[T]
<1> DEFINE F == {t \in SUBSET T : g[t] = h[t]}
<1>2. ASSUME NEW t \in SUBSET T, \A v \in SUBSET t : v # t => v \in F PROVE t \in F
  <2>1. t \in D
    OBVIOUS
  <2>2. g[t] = IF t = {} THEN 0 ELSE f[Pick(t)] + g[t \ {Pick(t)}]
    BY <2>1 DEF Recurs
  <2>3. h[t] = IF t = {} THEN 0 ELSE f[Pick(t)] + h[t \ {Pick(t)}]
    BY DEF Recurs
  <2>4. CASE t = {}
    BY <2>2, <2>3, <2>4
  <2>5. CASE t # {}
    <3>1. t \ {Pick(t)} \in SUBSET t /\ t \ {Pick(t)} # t
      BY <2>5, PickType
    <3> QED
      BY <1>2, <2>2, <2>3, <2>5, <3>1
  <2> QED
    BY <2>4, <2>5
<1>3. SUBSET T \subseteq F
  <2> HIDE DEF F
  <2> QED
    BY <1>2, SubsetInduction
<1> QED
  BY <1>3

(* So that every function that satisfies it gives the sum. *)
LEMMA SumOfRecursion ==
    ASSUME NEW S, IsFiniteSet(S), NEW f, NEW G, Recurs(G, f, SUBSET S)
    PROVE  G[S] = Sum(f, S)
<1>1. PICK g : Recurs(g, f, SUBSET S) /\ Sum(f, S) = g[S]
  BY SumDefined, SumRecursion
<1>2. G[S] = g[S]
  BY <1>1, RecursionAgrees
<1> QED
  BY <1>1, <1>2

(* A sum over no element is 0. *)
LEMMA SumEmpty ==
    ASSUME NEW f PROVE Sum(f, {}) = 0
<1>1. PICK g : Recurs(g, f, SUBSET {}) /\ Sum(f, {}) = g[{}]
  BY SumDefined, SumRecursion, FS_EmptySet
<1> QED
  BY <1>1 DEF Recurs

(* A sum is its first term and the sum of the others. *)
LEMMA SumUnfold ==
    ASSUME NEW S, IsFiniteSet(S), S # {}, NEW f
    PROVE  Sum(f, S) = f[Pick(S)] + Sum(f, S \ {Pick(S)})
<1> SUFFICES ASSUME NEW T, T = S \ {Pick(S)}
             PROVE  Sum(f, S) = f[Pick(S)] + Sum(f, T)
  OBVIOUS
<1>1. IsFiniteSet(T)
  BY FS_Subset
<1>2. PICK g : Recurs(g, f, SUBSET S) /\ Sum(f, S) = g[S]
  BY SumDefined, SumRecursion
<1>3. PICK h : Recurs(h, f, SUBSET T) /\ Sum(f, T) = h[T]
  BY <1>1, SumDefined, SumRecursion
<1>4. g[T] = h[T]
  <2>1. SUBSET T \subseteq SUBSET S
    OBVIOUS
  <2>2. Recurs(g, f, SUBSET S)
    BY <1>2
  <2>3. Recurs(h, f, SUBSET T)
    BY <1>3
  <2> QED
    BY ONLY <1>1, <2>1, <2>2, <2>3, RecursionAgrees
<1>5. g[S] = f[Pick(S)] + g[T]
  BY <1>2 DEF Recurs
<1> QED
  BY <1>2, <1>3, <1>4, <1>5

(* The sums of integers over the subsets of a finite set are integers. *)
LEMMA SumType ==
    ASSUME NEW S, IsFiniteSet(S), NEW f, \A x \in S : f[x] \in Int
    PROVE  \A T \in SUBSET S : Sum(f, T) \in Int
<1> DEFINE F == {T \in SUBSET S : Sum(f, T) \in Int}
<1>1. ASSUME NEW T \in SUBSET S, \A V \in SUBSET T : V # T => V \in F
      PROVE  T \in F
  <2>1. CASE T = {}
    BY <2>1, SumEmpty
  <2>2. CASE T # {}
    <3>1. Pick(T) \in S /\ T \ {Pick(T)} \in SUBSET T /\ T \ {Pick(T)} # T
      BY <2>2, PickType
    <3>2. Sum(f, T) = f[Pick(T)] + Sum(f, T \ {Pick(T)})
      BY <2>2, SumUnfold, FS_Subset
    <3>3. Sum(f, T \ {Pick(T)}) \in Int
      BY <1>1, <3>1
    <3> QED
      BY <3>1, <3>2, <3>3
  <2> QED
    BY <2>1, <2>2
<1>2. SUBSET S \subseteq F
  <2> HIDE DEF F
  <2> QED
    BY <1>1, SubsetInduction
<1> QED
  BY <1>2

(* Any term may be taken first. *)
LEMMA SumRemove ==
    ASSUME NEW S, IsFiniteSet(S), NEW f, \A x \in S : f[x] \in Int, NEW x \in S
    PROVE  Sum(f, S) = f[x] + Sum(f, S \ {x})
<1> DEFINE F == {T \in SUBSET S : \A y \in T : Sum(f, T) = f[y] + Sum(f, T \ {y})}
<1>1. ASSUME NEW T \in SUBSET S, \A V \in SUBSET T : V # T => V \in F, NEW y \in T
      PROVE  Sum(f, T) = f[y] + Sum(f, T \ {y})
  <2> DEFINE p == Pick(T)
  <2>1. p \in T /\ T # {}
    BY PickType
  <2>2. Sum(f, T) = f[p] + Sum(f, T \ {p})
    BY <2>1, SumUnfold, FS_Subset
  <2>3. CASE y = p
    BY <2>2, <2>3
  <2>4. CASE y # p
    <3> HIDE DEF p
    <3>1. T \ {p} \in F /\ y \in T \ {p}
      BY <1>1, <2>1, <2>4
    <3>2. T \ {y} \in F /\ p \in T \ {y}
      BY <1>1, <2>1, <2>4
    <3>3. Sum(f, T \ {p}) = f[y] + Sum(f, (T \ {p}) \ {y})
      BY <3>1
    <3>4. Sum(f, T \ {y}) = f[p] + Sum(f, (T \ {y}) \ {p})
      BY <3>2
    <3>5. (T \ {p}) \ {y} = (T \ {y}) \ {p}
      OBVIOUS
    <3>6. f[y] \in Int /\ f[p] \in Int /\ Sum(f, (T \ {y}) \ {p}) \in Int
      BY <2>1, SumType
    <3>7. Sum(f, T \ {p}) = f[y] + Sum(f, (T \ {y}) \ {p})
      BY <3>3, <3>5
    <3> DEFINE A == Sum(f, T \ {p})
               B == Sum(f, (T \ {y}) \ {p})
               C == Sum(f, T \ {y})
    <3>8. Sum(f, T) = f[p] + A /\ A = f[y] + B /\ C = f[p] + B /\ B \in Int
      BY <2>2, <3>4, <3>6, <3>7
    <3>9. Sum(f, T) = f[y] + C
      <4> HIDE DEF A, B, C
      <4> QED
        BY <3>6, <3>8
    <3> QED
      BY <3>9
  <2> QED
    BY <2>3, <2>4
<1>2. SUBSET S \subseteq F
  <2>1. \A T \in SUBSET S : (\A V \in SUBSET T : V # T => V \in F) => T \in F
    BY <1>1
  <2> HIDE DEF F
  <2> QED
    BY <2>1, SubsetInduction
<1> QED
  BY <1>2

(* A sum over one more element. *)
LEMMA SumAdd ==
    ASSUME NEW S, IsFiniteSet(S), NEW x, x \notin S, NEW f,
           f[x] \in Int, \A y \in S : f[y] \in Int
    PROVE  Sum(f, S \cup {x}) = f[x] + Sum(f, S)
<1>1. IsFiniteSet(S \cup {x})
  BY FS_AddElement
<1>2. (S \cup {x}) \ {x} = S
  OBVIOUS
<1>3. \A y \in S \cup {x} : f[y] \in Int
  OBVIOUS
<1> QED
  BY <1>1, <1>2, <1>3, SumRemove

(* Induction on a finite set, an element at a time. *)
LEMMA FiniteInduction ==
    ASSUME NEW U, IsFiniteSet(U), NEW F, {} \in F,
           \A T \in SUBSET U : \A x \in U \ T : T \in F => T \cup {x} \in F
    PROVE  \A T \in SUBSET U : T \in F
<1>1. ASSUME NEW T \in SUBSET U, \A V \in SUBSET T : V # T => V \in F
      PROVE  T \in F
  <2>1. CASE T = {}
    BY <2>1
  <2>2. CASE T # {}
    <3>1. PICK x \in T : TRUE
      BY <2>2
    <3>2. T \ {x} \in F /\ T \ {x} \in SUBSET U /\ x \in U \ (T \ {x})
      BY <1>1, <3>1
    <3>3. (T \ {x}) \cup {x} = T
      BY <3>1
    <3> QED
      BY <3>2, <3>3
  <2> QED
    BY <2>1, <2>2
<1> QED
  BY <1>1, SubsetInduction

(* Functions that agree on a set have one sum over it. *)
LEMMA SumEqual ==
    ASSUME NEW S, IsFiniteSet(S), NEW f, NEW g,
           \A x \in S : f[x] \in Int /\ g[x] = f[x]
    PROVE  Sum(f, S) = Sum(g, S)
<1> DEFINE F == {T \in SUBSET S : Sum(f, T) = Sum(g, T)}
<1>1. {} \in F
  BY SumEmpty
<1>2. ASSUME NEW T \in SUBSET S, NEW x \in S \ T, T \in F
      PROVE  T \cup {x} \in F
  <2>1. IsFiniteSet(T)
    BY FS_Subset
  <2>2. Sum(f, T \cup {x}) = f[x] + Sum(f, T)
    BY <2>1, SumAdd
  <2>3. Sum(g, T \cup {x}) = g[x] + Sum(g, T)
    BY <2>1, SumAdd
  <2> QED
    BY <1>2, <2>2, <2>3
<1>3. S \in F
  <2> HIDE DEF F
  <2> QED
    BY <1>1, <1>2, FiniteInduction
<1> QED
  BY <1>3

(* The sum over two disjoint sets. *)
LEMMA SumUnion ==
    ASSUME NEW S, IsFiniteSet(S), NEW T, IsFiniteSet(T), S \cap T = {}, NEW f,
           \A x \in S \cup T : f[x] \in Int
    PROVE  Sum(f, S \cup T) = Sum(f, S) + Sum(f, T)
<1> DEFINE F == {V \in SUBSET T : Sum(f, S \cup V) = Sum(f, S) + Sum(f, V)}
<1>0. Sum(f, S) \in Int /\ \A V \in SUBSET T : Sum(f, V) \in Int
  BY SumType
<1>1. {} \in F
  <2>1. S \cup {} = S
    OBVIOUS
  <2> QED
    BY <1>0, <2>1, SumEmpty
<1>2. ASSUME NEW V \in SUBSET T, NEW x \in T \ V, V \in F
      PROVE  V \cup {x} \in F
  <2>1. IsFiniteSet(V) /\ IsFiniteSet(S \cup V)
    BY FS_Subset, FS_Union
  <2>2. Sum(f, V \cup {x}) = f[x] + Sum(f, V)
    BY <2>1, SumAdd
  <2>3. Sum(f, (S \cup V) \cup {x}) = f[x] + Sum(f, S \cup V)
    <3>1. x \notin S \cup V
      OBVIOUS
    <3> QED
      BY <2>1, <3>1, SumAdd
  <2>4. (S \cup V) \cup {x} = S \cup (V \cup {x})
    OBVIOUS
  <2>5. f[x] \in Int /\ Sum(f, V) \in Int
    BY <1>0
  <2> QED
    BY <1>0, <1>2, <2>2, <2>3, <2>4, <2>5
<1>3. T \in F
  <2> HIDE DEF F
  <2> QED
    BY <1>1, <1>2, FiniteInduction
<1> QED
  BY <1>3

(* The sum of differences is the difference of the sums. *)
LEMMA SumDifference ==
    ASSUME NEW S, IsFiniteSet(S), NEW f, NEW g, NEW h,
           \A x \in S : f[x] \in Int /\ g[x] \in Int /\ h[x] = f[x] - g[x]
    PROVE  Sum(h, S) = Sum(f, S) - Sum(g, S)
<1> DEFINE F == {T \in SUBSET S : Sum(h, T) = Sum(f, T) - Sum(g, T)}
<1>1. {} \in F
  BY SumEmpty
<1>2. ASSUME NEW T \in SUBSET S, NEW x \in S \ T, T \in F
      PROVE  T \cup {x} \in F
  <2>1. IsFiniteSet(T) /\ \A y \in S : h[y] \in Int
    BY FS_Subset
  <2>2. Sum(f, T \cup {x}) = f[x] + Sum(f, T)
    BY <2>1, SumAdd
  <2>3. Sum(g, T \cup {x}) = g[x] + Sum(g, T)
    BY <2>1, SumAdd
  <2>4. Sum(h, T \cup {x}) = h[x] + Sum(h, T)
    BY <2>1, SumAdd
  <2>5. Sum(f, T) \in Int /\ Sum(g, T) \in Int
    BY SumType
  <2> QED
    BY <1>2, <2>2, <2>3, <2>4, <2>5
<1>3. S \in F
  <2> HIDE DEF F
  <2> QED
    BY <1>1, <1>2, FiniteInduction
<1> QED
  BY <1>3

(* A sum grows with its terms. *)
LEMMA SumMonotone ==
    ASSUME NEW S, IsFiniteSet(S), NEW f, NEW g,
           \A x \in S : f[x] \in Int /\ g[x] \in Int /\ f[x] <= g[x]
    PROVE  Sum(f, S) <= Sum(g, S)
<1> DEFINE F == {T \in SUBSET S : Sum(f, T) <= Sum(g, T)}
<1>1. {} \in F
  BY SumEmpty
<1>2. ASSUME NEW T \in SUBSET S, NEW x \in S \ T, T \in F
      PROVE  T \cup {x} \in F
  <2>1. IsFiniteSet(T)
    BY FS_Subset
  <2>2. Sum(f, T \cup {x}) = f[x] + Sum(f, T)
    BY <2>1, SumAdd
  <2>3. Sum(g, T \cup {x}) = g[x] + Sum(g, T)
    BY <2>1, SumAdd
  <2>5. Sum(f, T) \in Int /\ Sum(g, T) \in Int
    BY SumType
  <2> QED
    BY <1>2, <2>2, <2>3, <2>5
<1>3. S \in F
  <2> HIDE DEF F
  <2> QED
    BY <1>1, <1>2, FiniteInduction
<1> QED
  BY <1>3

(* A sum of terms of at least 0 is at least 0. *)
LEMMA SumNonNegative ==
    ASSUME NEW S, IsFiniteSet(S), NEW f, \A x \in S : f[x] \in Int /\ 0 <= f[x]
    PROVE  0 <= Sum(f, S)
<1> DEFINE F == {T \in SUBSET S : 0 <= Sum(f, T)}
<1>1. {} \in F
  BY SumEmpty
<1>2. ASSUME NEW T \in SUBSET S, NEW x \in S \ T, T \in F
      PROVE  T \cup {x} \in F
  <2>1. IsFiniteSet(T)
    BY FS_Subset
  <2>2. Sum(f, T \cup {x}) = f[x] + Sum(f, T) /\ Sum(f, T) \in Int
    BY <2>1, SumAdd, SumType
  <2> QED
    BY <1>2, <2>2
<1>3. S \in F
  <2> HIDE DEF F
  <2> QED
    BY <1>1, <1>2, FiniteInduction
<1> QED
  BY <1>3

(* A sum of n terms of at most L is at most n * L. *)
LEMMA SumBound ==
    ASSUME NEW S, IsFiniteSet(S), NEW f, NEW L \in Int,
           \A x \in S : f[x] \in Int /\ f[x] <= L
    PROVE  Sum(f, S) <= Cardinality(S) * L
<1> DEFINE F == {T \in SUBSET S : Sum(f, T) <= Cardinality(T) * L}
<1>1. {} \in F
  BY SumEmpty, FS_EmptySet
<1>2. ASSUME NEW T \in SUBSET S, NEW x \in S \ T, T \in F
      PROVE  T \cup {x} \in F
  <2>1. IsFiniteSet(T) /\ Cardinality(T) \in Nat
    BY FS_Subset, FS_CardinalityType
  <2>2. Sum(f, T \cup {x}) = f[x] + Sum(f, T)
    BY <2>1, SumAdd
  <2>3. Cardinality(T \cup {x}) = Cardinality(T) + 1
    BY <2>1, FS_AddElement
  <2>4. Sum(f, T) \in Int
    BY SumType
  <2>5. (Cardinality(T) + 1) * L = Cardinality(T) * L + L /\ Cardinality(T) * L \in Int
    BY <2>1
  <2>6. Sum(f, T \cup {x}) <= Cardinality(T \cup {x}) * L
    BY <1>2, <2>2, <2>3, <2>4, <2>5
  <2> QED
    BY <2>6
<1>3. S \in F
  <2> HIDE DEF F
  <2> QED
    BY <1>1, <1>2, FiniteInduction
<1> QED
  BY <1>3

(* A sum over the image of an injective function is one over its domain. *)
LEMMA SumReindex ==
    ASSUME NEW I, IsFiniteSet(I), NEW g, NEW f, NEW h,
           \A i \in I : f[g[i]] \in Int /\ h[i] = f[g[i]],
           \A i \in I : \A j \in I : g[i] = g[j] => i = j
    PROVE  IsFiniteSet({g[i] : i \in I}) /\ Sum(f, {g[i] : i \in I}) = Sum(h, I)
<1> DEFINE Image(T) == {g[i] : i \in T}
           F == {T \in SUBSET I : IsFiniteSet(Image(T)) /\ Sum(f, Image(T)) = Sum(h, T)}
<1>1. {} \in F
  <2>1. Image({}) = {}
    OBVIOUS
  <2> QED
    BY <2>1, SumEmpty, FS_EmptySet
<1>2. ASSUME NEW T \in SUBSET I, NEW x \in I \ T, T \in F
      PROVE  T \cup {x} \in F
  <2>1. Image(T \cup {x}) = Image(T) \cup {g[x]}
    OBVIOUS
  <2>2. g[x] \notin Image(T)
    OBVIOUS
  <2>3. \A y \in Image(T) : f[y] \in Int
    OBVIOUS
  <2>4. IsFiniteSet(T) /\ f[g[x]] \in Int /\ h[x] = f[g[x]] /\ \A i \in T : h[i] \in Int
    BY FS_Subset
  <2>5. Sum(h, T \cup {x}) = h[x] + Sum(h, T)
    BY <2>4, SumAdd
  <2>6. IsFiniteSet(Image(T)) /\ Sum(f, Image(T)) = Sum(h, T)
    BY <1>2
  <2>7. IsFiniteSet(Image(T) \cup {g[x]})
    BY <2>6, FS_AddElement
  <2>8. Sum(f, Image(T) \cup {g[x]}) = f[g[x]] + Sum(f, Image(T))
    <3> HIDE DEF Image
    <3> QED
      BY <2>2, <2>3, <2>4, <2>6, SumAdd
  <2>9. IsFiniteSet(Image(T \cup {x})) /\ Sum(f, Image(T \cup {x})) = Sum(h, T \cup {x})
    BY <2>1, <2>4, <2>5, <2>6, <2>7, <2>8
  <2> QED
    BY <2>9
<1>3. I \in F
  <2> HIDE DEF F
  <2> QED
    BY <1>1, <1>2, FiniteInduction
<1> QED
  BY <1>3

(* The image of a finite set is finite. *)
LEMMA ImageIsFinite ==
    ASSUME NEW I, IsFiniteSet(I), NEW g
    PROVE  IsFiniteSet({g[i] : i \in I})
<1> DEFINE Image == {g[i] : i \in I}
           k == [i \in I |-> g[i]]
<1>1. k \in Surjection(I, Image)
  BY DEF Surjection
<1> HIDE DEF k, Image
<1>2. IsFiniteSet(Image)
  BY <1>1, FS_Surjection
<1> QED
  BY <1>2 DEF Image

(* A nonempty finite set of integers has a maximum. *)
LEMMA MaximumExists ==
    ASSUME NEW S, IsFiniteSet(S), S \subseteq Int, S # {}
    PROVE  Max(S) \in S /\ \A x \in S : x <= Max(S)
<1> DEFINE F == {T \in SUBSET S : T # {} => \E m \in T : \A x \in T : x <= m}
<1>1. {} \in F
  OBVIOUS
<1>2. ASSUME NEW T \in SUBSET S, NEW x \in S \ T, T \in F
      PROVE  T \cup {x} \in F
  <2>1. CASE T = {}
    BY <2>1
  <2>2. CASE T # {}
    <3>1. PICK m \in T : \A y \in T : y <= m
      BY <1>2, <2>2
    <3>2. m \in Int /\ x \in Int /\ T \subseteq Int
      OBVIOUS
    <3>3. CASE x <= m
      BY <3>1, <3>3
    <3>4. CASE m <= x
      <4>1. \A y \in T \cup {x} : y <= x
        BY <3>1, <3>2, <3>4
      <4> QED
        BY <4>1
    <3> QED
      BY <3>2, <3>3, <3>4
  <2> QED
    BY <2>1, <2>2
<1>3. S \in F
  <2> HIDE DEF F
  <2> QED
    BY <1>1, <1>2, FiniteInduction
<1>4. \E m \in S : \A x \in S : m >= x
  BY <1>3
<1> QED
  BY <1>4 DEF Max
=============================================================================
