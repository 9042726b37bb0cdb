----------------------------- MODULE FiniteSums -----------------------------
(***************************************************************************)
(* Facts about recursion over a finite set, and about SumFunctionOnSet of  *)
(* the module Functions, that theorems about counts and averages need.     *)
(* The induction rules take a set where a textbook has a predicate: what   *)
(* is to be shown of a number, or of a subset, is membership in that set.  *)
(***************************************************************************)
EXTENDS Integers, FiniteSets, Functions, FiniteSetTheorems, WellFoundedInduction, TLAPS

-----------------------------------------------------------------------------
(* Induction and recursion *)

LEMMA CountUp ==
    ASSUME NEW P, 0 \in P, \A n \in Nat : n \in P => n + 1 \in P
    PROVE  Nat \subseteq P
<1> SUFFICES ASSUME ~(Nat \subseteq P) PROVE FALSE
  OBVIOUS
<1>1. Nat \ P # {} /\ Nat \ P \subseteq Nat
  OBVIOUS
<1>2. PICK n \in Nat \ P : \A m \in Nat \ P : ~(<<m, n>> \in OpToRel(<, Nat))
  BY <1>1, WFMin, NatLessThanWellFounded, Zenon
<1>3. \A m \in Nat \ P : ~(m < n)
  BY <1>2, Zenon DEF OpToRel
<1>4. n - 1 \in Nat /\ n - 1 < n /\ (n - 1) + 1 = n
  OBVIOUS
<1> QED
  BY <1>3, <1>4

LEMMA GrowSet ==
    ASSUME NEW S, IsFiniteSet(S), NEW P, {} \in P,
           \A T \in SUBSET S : \A x \in S \ T : T \in P => T \cup {x} \in P
    PROVE  S \in P
<1> DEFINE Q == {n \in Nat : \A T \in SUBSET S : Cardinality(T) = n => T \in P}
<1>1. 0 \in Q
  BY FS_Subset, FS_EmptySet
<1>2. ASSUME NEW n \in Nat, n \in Q PROVE n + 1 \in Q
  <2> SUFFICES ASSUME NEW T \in SUBSET S, Cardinality(T) = n + 1 PROVE T \in P
    OBVIOUS
  <2>1. IsFiniteSet(T) /\ T # {}
    BY FS_Subset, FS_EmptySet
  <2>2. PICK x \in T : TRUE
    BY <2>1
  <2>3. Cardinality(T \ {x}) = n
    <3>1. Cardinality(T \ {x}) = Cardinality(T) - 1
      BY <2>1, <2>2, FS_RemoveElement, Zenon
    <3> QED
      BY <3>1
  <2>4. T \ {x} \in P /\ T \ {x} \in SUBSET S /\ x \in S \ (T \ {x})
    BY <1>2, <2>3
  <2>5. (T \ {x}) \cup {x} = T
    BY <2>2
  <2> QED
    BY <2>4, <2>5
<1> HIDE DEF Q
<1>3. Nat \subseteq Q
  BY <1>1, <1>2, CountUp
<1>4. Cardinality(S) \in Q
  BY <1>3, FS_CardinalityType
<1> QED
  BY <1>4 DEF Q

(* The element MapThenFoldSet takes first. *)
Pick(T) == CHOOSE x \in T : TRUE

LEMMA PickIsElement == \A T : T # {} => Pick(T) \in T
  BY DEF Pick

(* g gives base for {}, and otherwise adds the element picked by H. *)
Recursion(g, S, V, base, H) ==
    /\ g \in [SUBSET S -> V]
    /\ \A T \in SUBSET S : g[T] = IF T = {} THEN base ELSE H[<<Pick(T), g[T \ {Pick(T)}]>>]

(* A function on the subsets of a finite set may be defined by recursion. *)
LEMMA RecursionExists ==
    ASSUME NEW S, IsFiniteSet(S), NEW V, NEW base \in V, NEW H \in [S \X V -> V]
    PROVE  \E g : Recursion(g, S, V, base, H)
<1> DEFINE Upto(n) == {T \in SUBSET S : Cardinality(T) <= n}
           Value(g, T) == IF T = {} THEN base ELSE H[<<Pick(T), g[T \ {Pick(T)}]>>]
           Q == {n \in Nat : \E g \in [Upto(n) -> V] : \A T \in Upto(n) : g[T] = Value(g, T)}
<1>1. \A T \in SUBSET S : /\ IsFiniteSet(T) /\ Cardinality(T) \in Nat
                          /\ Cardinality(T) <= Cardinality(S)
                          /\ Cardinality(T) = 0 <=> T = {}
  BY FS_Subset, FS_CardinalityType, FS_EmptySet
<1>2. \A T \in SUBSET S : T # {} => Pick(T) \in T /\ T \ {Pick(T)} \in SUBSET S
  BY PickIsElement
<1>3. \A T \in SUBSET S : T # {} => Cardinality(T \ {Pick(T)}) = Cardinality(T) - 1
  BY <1>1, <1>2, FS_RemoveElement
<1>4. 0 \in Q
  <2> DEFINE g == [T \in Upto(0) |-> base]
  <2>1. Upto(0) = {{}}
    BY <1>1
  <2>2. g \in [Upto(0) -> V] /\ \A T \in Upto(0) : g[T] = Value(g, T)
    BY <2>1
  <2> QED
    BY <2>2
<1>5. ASSUME NEW n \in Nat, n \in Q PROVE n + 1 \in Q
  <2>1. PICK g \in [Upto(n) -> V] : \A T \in Upto(n) : g[T] = Value(g, T)
    BY <1>5
  <2> DEFINE h == [T \in Upto(n + 1) |-> IF T \in Upto(n) THEN g[T] ELSE Value(g, T)]
  <2>2. \A T \in Upto(n + 1) : T # {} => T \ {Pick(T)} \in Upto(n)
    BY <1>1, <1>2, <1>3
  <2>3. \A T \in Upto(n + 1) : Value(g, T) \in V
    <3> TAKE T \in Upto(n + 1)
    <3>1. CASE T = {}
      BY <3>1
    <3>2. CASE T # {}
      <4>1. g[T \ {Pick(T)}] \in V /\ Pick(T) \in S
        BY <1>2, <2>2, <3>2
      <4> QED
        BY <3>2, <4>1
    <3> QED
      BY <3>1, <3>2
  <2>4. h \in [Upto(n + 1) -> V]
    BY <2>3
  <2>5. Upto(n) \subseteq Upto(n + 1)
    BY <1>1
  <2>6. \A T \in Upto(n + 1) : T # {} => h[T \ {Pick(T)}] = g[T \ {Pick(T)}]
    BY <2>2, <2>5
  <2>7. \A T \in Upto(n + 1) : h[T] = Value(g, T)
    BY <2>1
  <2>8. \A T \in Upto(n + 1) : Value(g, T) = Value(h, T)
    BY <2>6
  <2>9. \A T \in Upto(n + 1) : h[T] = Value(h, T)
    BY <2>7, <2>8
  <2> HIDE DEF Upto, Value, h
  <2>10. \E f \in [Upto(n + 1) -> V] : \A T \in Upto(n + 1) : f[T] = Value(f, T)
    BY <2>4, <2>9
  <2> QED
    BY <2>10
<1>6. Cardinality(S) \in Nat /\ Upto(Cardinality(S)) = SUBSET S
  BY <1>1, FS_CardinalityType
<1> HIDE DEF Q
<1>7. Cardinality(S) \in Q
  BY <1>4, <1>5, <1>6, CountUp
<1>8. PICK g \in [SUBSET S -> V] : \A T \in SUBSET S : g[T] = Value(g, T)
  BY <1>6, <1>7 DEF Q
<1> QED
  BY <1>8 DEF Recursion

LEMMA PickDown ==
    ASSUME NEW S, IsFiniteSet(S), NEW P, {} \in P,
           \A T \in SUBSET S : T # {} /\ T \ {Pick(T)} \in P => T \in P
    PROVE  SUBSET S \subseteq P
<1> DEFINE Q == {n \in Nat : \A T \in SUBSET S : Cardinality(T) = n => T \in P}
<1>1. \A T \in SUBSET S : IsFiniteSet(T) /\ Cardinality(T) \in Nat /\ (Cardinality(T) = 0 => T = {})
  BY FS_Subset, FS_CardinalityType, FS_EmptySet
<1>2. 0 \in Q
  BY <1>1
<1>3. ASSUME NEW n \in Nat, n \in Q PROVE n + 1 \in Q
  <2> SUFFICES ASSUME NEW T \in SUBSET S, Cardinality(T) = n + 1 PROVE T \in P
    OBVIOUS
  <2>1. T # {} /\ Pick(T) \in T
    <3>1. T # {}
      <4>1. Cardinality({}) = 0
        BY FS_EmptySet
      <4> QED
        BY <4>1
    <3> QED
      BY <3>1, PickIsElement
  <2>2. Cardinality(T \ {Pick(T)}) = Cardinality(T) - 1
    BY <1>1, <2>1, FS_RemoveElement, Zenon
  <2>3. T \ {Pick(T)} \in P
    BY <1>3, <2>2
  <2> QED
    BY <2>1, <2>3
<1> HIDE DEF Q
<1>4. \A T \in SUBSET S : Cardinality(T) \in Q
  BY <1>1, <1>2, <1>3, CountUp
<1> QED
  BY <1>4 DEF Q

-----------------------------------------------------------------------------
(* Sums *)

(* The recursion behind SumFunctionOnSet. *)
Summing(g, f, S) ==
    g = [T \in SUBSET S |-> IF T = {} THEN 0 ELSE f[Pick(T)] + g[T \ {Pick(T)}]]

LEMMA SummingExists ==
    ASSUME NEW f, NEW S, IsFiniteSet(S), \A s \in S : f[s] \in Int
    PROVE  \E g \in [SUBSET S -> Int] : Summing(g, f, S)
<1> DEFINE H == [p \in S \X Int |-> f[p[1]] + p[2]]
<1>1. H \in [S \X Int -> Int]
  OBVIOUS
<1>2. PICK g : Recursion(g, S, Int, 0, H)
  <2> HIDE DEF H
  <2>1. 0 \in Int
    OBVIOUS
  <2> QED
    BY <1>1, <2>1, RecursionExists
<1> USE DEF Recursion
<1>3. \A T \in SUBSET S : T # {} => Pick(T) \in S /\ g[T \ {Pick(T)}] \in Int
  BY <1>2, PickIsElement
<1>4. \A T \in SUBSET S : g[T] = IF T = {} THEN 0 ELSE f[Pick(T)] + g[T \ {Pick(T)}]
  BY <1>2, <1>3
<1> QED
  BY <1>2, <1>4 DEF Summing

LEMMA SummingUnique ==
    ASSUME NEW f, NEW S, IsFiniteSet(S), NEW R \in SUBSET S, NEW g, NEW h,
           Summing(g, f, S), Summing(h, f, R)
    PROVE  g[R] = h[R]
<1> DEFINE P == {T \in SUBSET R : g[T] = h[T]}
<1>1. \A T \in SUBSET R : h[T] = IF T = {} THEN 0 ELSE f[Pick(T)] + h[T \ {Pick(T)}]
  BY Zenon DEF Summing
<1>2. \A T \in SUBSET R : g[T] = IF T = {} THEN 0 ELSE f[Pick(T)] + g[T \ {Pick(T)}]
  BY Zenon DEF Summing
<1>3. {} \in P
  BY <1>1, <1>2
<1>4. \A T \in SUBSET R : T # {} /\ T \ {Pick(T)} \in P => T \in P
  BY <1>1, <1>2
<1>5. IsFiniteSet(R)
  BY FS_Subset
<1> HIDE DEF P
<1>6. R \in P
  BY <1>3, <1>4, <1>5, PickDown
<1> QED
  BY <1>6 DEF P

LEMMA SumIsSumming ==
    ASSUME NEW f, NEW S, IsFiniteSet(S), \A s \in S : f[s] \in Int
    PROVE  \E g \in [SUBSET S -> Int] :
              Summing(g, f, S) /\ \A T \in SUBSET S : SumFunctionOnSet(f, T) = g[T]
<1>1. PICK g \in [SUBSET S -> Int] : Summing(g, f, S)
  BY SummingExists
<1>2. ASSUME NEW T \in SUBSET S PROVE SumFunctionOnSet(f, T) = g[T]
  <2> DEFINE iter == CHOOSE h : Summing(h, f, T)
  <2>1. IsFiniteSet(T) /\ \A s \in T : f[s] \in Int
    BY FS_Subset
  <2>2. \E h : Summing(h, f, T)
    BY <2>1, SummingExists
  <2>3. Summing(iter, f, T)
    BY <2>2
  <2>4. SumFunctionOnSet(f, T) = iter[T]
    BY DEF SumFunctionOnSet, FoldFunctionOnSet, MapThenFoldSet, Summing, Pick
  <2> HIDE DEF iter
  <2> QED
    BY <1>1, <2>3, <2>4, SummingUnique
<1> QED
  BY <1>1, <1>2

LEMMA SumOfNone == ASSUME NEW f PROVE SumFunctionOnSet(f, {}) = 0
<1>1. IsFiniteSet({}) /\ \A s \in {} : f[s] \in Int
  BY FS_EmptySet
<1>2. PICK g \in [SUBSET {} -> Int] :
         Summing(g, f, {}) /\ \A T \in SUBSET {} : SumFunctionOnSet(f, T) = g[T]
  BY <1>1, SumIsSumming
<1>3. g[{}] = 0
  BY <1>2 DEF Summing
<1> QED
  BY <1>2, <1>3

LEMMA SumType ==
    ASSUME NEW f, NEW S, IsFiniteSet(S), \A s \in S : f[s] \in Int
    PROVE  SumFunctionOnSet(f, S) \in Int
<1>1. PICK g \in [SUBSET S -> Int] :
         Summing(g, f, S) /\ \A T \in SUBSET S : SumFunctionOnSet(f, T) = g[T]
  BY SumIsSumming
<1>2. SumFunctionOnSet(f, S) = g[S]
  BY <1>1
<1> QED
  BY <1>2

LEMMA SumPick ==
    ASSUME NEW f, NEW S, IsFiniteSet(S), \A s \in S : f[s] \in Int,
           NEW T \in SUBSET S, T # {}
    PROVE  SumFunctionOnSet(f, T) = f[Pick(T)] + SumFunctionOnSet(f, T \ {Pick(T)})
<1>1. PICK g \in [SUBSET S -> Int] :
         Summing(g, f, S) /\ \A U \in SUBSET S : SumFunctionOnSet(f, U) = g[U]
  BY SumIsSumming
<1>2. g[T] = f[Pick(T)] + g[T \ {Pick(T)}]
  BY <1>1 DEF Summing
<1> QED
  BY <1>1, <1>2

(* A sum may be taken in any order. *)
LEMMA SumAnyElement ==
    ASSUME NEW f, NEW S, IsFiniteSet(S), \A s \in S : f[s] \in Int, NEW x \in S
    PROVE  SumFunctionOnSet(f, S) = f[x] + SumFunctionOnSet(f, S \ {x})
<1> DEFINE Sum(T) == SumFunctionOnSet(f, T)
           Q == {n \in Nat : \A T \in SUBSET S : Cardinality(T) = n =>
                    \A y \in T : Sum(T) = f[y] + Sum(T \ {y})}
<1>1. \A T \in SUBSET S : /\ IsFiniteSet(T) /\ Cardinality(T) \in Nat
                          /\ Cardinality(T) = 0 => T = {}
  BY FS_Subset, FS_CardinalityType, FS_EmptySet
<1>2. \A T \in SUBSET S : Sum(T) \in Int
  BY <1>1, SumType
<1>3. \A T \in SUBSET S : T # {} => Pick(T) \in T /\ Sum(T) = f[Pick(T)] + Sum(T \ {Pick(T)})
  BY SumPick, PickIsElement
<1>4. \A T \in SUBSET S : \A y \in T : Cardinality(T \ {y}) = Cardinality(T) - 1
  BY <1>1, FS_RemoveElement
<1> HIDE DEF Sum
<1>5. 0 \in Q
  BY <1>1
<1>6. ASSUME NEW n \in Nat, n \in Q PROVE n + 1 \in Q
  <2> SUFFICES ASSUME NEW T \in SUBSET S, Cardinality(T) = n + 1, NEW y \in T
               PROVE  Sum(T) = f[y] + Sum(T \ {y})
    OBVIOUS
  <2> DEFINE p == Pick(T)
  <2>1. p \in T /\ Sum(T) = f[p] + Sum(T \ {p})
    BY <1>3
  <2> HIDE DEF p
  <2>2. CASE y = p
    BY <2>1, <2>2
  <2>3. CASE y # p
    <3>1. Cardinality(T \ {y}) = n /\ Cardinality(T \ {p}) = n
      BY <1>4, <2>1
    <3>2. p \in T \ {y} /\ y \in T \ {p}
      BY <2>1, <2>3
    <3>3. (T \ {y}) \ {p} = (T \ {p}) \ {y}
      OBVIOUS
    <3>4. Sum(T \ {y}) = f[p] + Sum((T \ {y}) \ {p})
      BY <1>6, <3>1, <3>2
    <3>5. Sum(T \ {p}) = f[y] + Sum((T \ {p}) \ {y})
      BY <1>6, <3>1, <3>2
    <3>6. f[p] \in Int /\ f[y] \in Int /\ Sum((T \ {p}) \ {y}) \in Int
      BY <1>2, <2>1
    <3>7. Sum(T) = f[p] + (f[y] + Sum((T \ {p}) \ {y}))
      BY <2>1, <3>5
    <3>8. Sum(T \ {y}) = f[p] + Sum((T \ {p}) \ {y})
      BY <3>3, <3>4
    <3> HIDE DEF Q
    <3> QED
      BY <3>6, <3>7, <3>8
  <2> QED
    BY <2>2, <2>3
<1> HIDE DEF Q
<1>7. Nat \subseteq Q
  BY <1>5, <1>6, CountUp
<1>8. Cardinality(S) \in Q
  BY <1>1, <1>7
<1> QED
  BY <1>8 DEF Q, Sum

LEMMA SumAdd ==
    ASSUME NEW f, NEW S, IsFiniteSet(S), NEW x, x \notin S,
           \A s \in S \cup {x} : f[s] \in Int
    PROVE  SumFunctionOnSet(f, S \cup {x}) = SumFunctionOnSet(f, S) + f[x]
<1>1. IsFiniteSet(S \cup {x})
  BY FS_AddElement
<1>2. SumFunctionOnSet(f, S \cup {x}) = f[x] + SumFunctionOnSet(f, (S \cup {x}) \ {x})
  BY <1>1, SumAnyElement
<1>3. (S \cup {x}) \ {x} = S
  OBVIOUS
<1>4. SumFunctionOnSet(f, S) \in Int /\ f[x] \in Int
  BY SumType
<1>5. SumFunctionOnSet(f, S \cup {x}) = f[x] + SumFunctionOnSet(f, S)
  BY <1>2, <1>3
<1> QED
  BY <1>4, <1>5

(* What inductions on a summed set use. *)
LEMMA SumSteps ==
    ASSUME NEW f, NEW S, IsFiniteSet(S), \A s \in S : f[s] \in Int
    PROVE  /\ SumFunctionOnSet(f, {}) = 0
           /\ \A T \in SUBSET S : SumFunctionOnSet(f, T) \in Int
           /\ \A T \in SUBSET S : \A x \in S \ T :
                 SumFunctionOnSet(f, T \cup {x}) = SumFunctionOnSet(f, T) + f[x]
<1>1. \A T \in SUBSET S : IsFiniteSet(T)
  BY FS_Subset
<1>2. \A T \in SUBSET S : SumFunctionOnSet(f, T) \in Int
  BY <1>1, SumType
<1>3. ASSUME NEW T \in SUBSET S, NEW x \in S \ T
      PROVE  SumFunctionOnSet(f, T \cup {x}) = SumFunctionOnSet(f, T) + f[x]
  BY <1>1, SumAdd
<1> QED
  BY <1>2, <1>3, SumOfNone

LEMMA SumSame ==
    ASSUME NEW f, NEW g, NEW S, IsFiniteSet(S), \A s \in S : f[s] \in Int /\ g[s] = f[s]
    PROVE  SumFunctionOnSet(g, S) = SumFunctionOnSet(f, S)
<1> DEFINE F(T) == SumFunctionOnSet(f, T)  G(T) == SumFunctionOnSet(g, T)
           P == {T \in SUBSET S : G(T) = F(T)}
<1>1. F({}) = 0 /\ G({}) = 0
  BY SumOfNone
<1>2. \A T \in SUBSET S : \A x \in S \ T :
         F(T \cup {x}) = F(T) + f[x] /\ G(T \cup {x}) = G(T) + g[x]
  BY SumSteps
<1> HIDE DEF F, G
<1>3. S \in P
  <2>1. {} \in P
    BY <1>1
  <2>2. \A T \in SUBSET S : \A x \in S \ T : T \in P => T \cup {x} \in P
    BY <1>2
  <2> HIDE DEF P
  <2> QED
    BY <2>1, <2>2, GrowSet
<1> QED
  BY <1>3 DEF P, F, G

(* Of no more than the other. *)
LEMMA SumAtMost ==
    ASSUME NEW f, NEW g, NEW S, IsFiniteSet(S),
           \A s \in S : f[s] \in Int /\ g[s] \in Int /\ f[s] <= g[s]
    PROVE  SumFunctionOnSet(f, S) <= SumFunctionOnSet(g, S)
<1> DEFINE F(T) == SumFunctionOnSet(f, T)  G(T) == SumFunctionOnSet(g, T)
           P == {T \in SUBSET S : F(T) <= G(T)}
<1>1. F({}) = 0 /\ G({}) = 0
  BY SumOfNone
<1>2. \A T \in SUBSET S : F(T) \in Int /\ G(T) \in Int
  BY SumSteps
<1>3. \A T \in SUBSET S : \A x \in S \ T :
         F(T \cup {x}) = F(T) + f[x] /\ G(T \cup {x}) = G(T) + g[x]
  BY SumSteps
<1> HIDE DEF F, G
<1>4. S \in P
  <2>1. {} \in P
    BY <1>1
  <2>2. \A T \in SUBSET S : \A x \in S \ T : T \in P => T \cup {x} \in P
    BY <1>2, <1>3
  <2> HIDE DEF P
  <2> QED
    BY <2>1, <2>2, GrowSet
<1> QED
  BY <1>4 DEF P, F, G

LEMMA SumPlus ==
    ASSUME NEW f, NEW g, NEW h, NEW S, IsFiniteSet(S),
           \A s \in S : f[s] \in Int /\ g[s] \in Int /\ h[s] = f[s] + g[s]
    PROVE  SumFunctionOnSet(h, S) = SumFunctionOnSet(f, S) + SumFunctionOnSet(g, S)
<1> DEFINE F(T) == SumFunctionOnSet(f, T)  G(T) == SumFunctionOnSet(g, T)
           H(T) == SumFunctionOnSet(h, T)
           P == {T \in SUBSET S : H(T) = F(T) + G(T)}
<1>1. F({}) = 0 /\ G({}) = 0 /\ H({}) = 0
  BY SumOfNone
<1>2. \A T \in SUBSET S : F(T) \in Int /\ G(T) \in Int
  BY SumSteps
<1>3. \A T \in SUBSET S : \A x \in S \ T :
         F(T \cup {x}) = F(T) + f[x] /\ G(T \cup {x}) = G(T) + g[x]
  <2>1. \A T \in SUBSET S : \A x \in S \ T : F(T \cup {x}) = F(T) + f[x]
    BY SumSteps
  <2>2. \A T \in SUBSET S : \A x \in S \ T : G(T \cup {x}) = G(T) + g[x]
    BY SumSteps
  <2> QED
    BY <2>1, <2>2
<1>4. \A T \in SUBSET S : \A x \in S \ T : H(T \cup {x}) = H(T) + h[x]
  <2>1. \A s \in S : h[s] \in Int
    OBVIOUS
  <2> QED
    BY <2>1, SumSteps
<1> HIDE DEF F, G, H
<1>5. S \in P
  <2>1. {} \in P
    BY <1>1
  <2>2. \A T \in SUBSET S : \A x \in S \ T : T \in P => T \cup {x} \in P
    BY <1>2, <1>3, <1>4
  <2> HIDE DEF P
  <2> QED
    BY <2>1, <2>2, GrowSet
<1> QED
  BY <1>5 DEF P, F, G, H

LEMMA SumTimes ==
    ASSUME NEW f, NEW h, NEW k \in Int, NEW S, IsFiniteSet(S),
           \A s \in S : f[s] \in Int /\ h[s] = k * f[s]
    PROVE  SumFunctionOnSet(h, S) = k * SumFunctionOnSet(f, S)
<1> DEFINE F(T) == SumFunctionOnSet(f, T)  H(T) == SumFunctionOnSet(h, T)
           P == {T \in SUBSET S : H(T) = k * F(T)}
<1>1. F({}) = 0 /\ H({}) = 0
  BY SumOfNone
<1>2. \A T \in SUBSET S : F(T) \in Int
  BY SumSteps
<1>3. \A T \in SUBSET S : \A x \in S \ T : F(T \cup {x}) = F(T) + f[x]
  BY SumSteps
<1>4. \A T \in SUBSET S : \A x \in S \ T : H(T \cup {x}) = H(T) + h[x]
  <2>1. \A s \in S : h[s] \in Int
    OBVIOUS
  <2> QED
    BY <2>1, SumSteps
<1>5. \A a, b \in Int : k * (a + b) = k * a + k * b
  OBVIOUS
<1> HIDE DEF F, H
<1>6. S \in P
  <2>1. {} \in P
    BY <1>1
  <2>2. ASSUME NEW T \in SUBSET S, NEW x \in S \ T, T \in P PROVE T \cup {x} \in P
    <3>1. H(T \cup {x}) = k * F(T) + k * f[x]
      BY <1>4, <2>2
    <3>2. F(T \cup {x}) = F(T) + f[x] /\ F(T) \in Int /\ f[x] \in Int
      BY <1>2, <1>3
    <3>3. k * F(T \cup {x}) = k * F(T) + k * f[x]
      BY <1>5, <3>2
    <3> QED
      BY <3>1, <3>3
  <2> HIDE DEF P
  <2> QED
    BY <2>1, <2>2, GrowSet
<1> QED
  BY <1>6 DEF P, F, H

LEMMA SumUnion ==
    ASSUME NEW f, NEW S, IsFiniteSet(S), NEW T, IsFiniteSet(T), S \cap T = {},
           \A s \in S \cup T : f[s] \in Int
    PROVE  SumFunctionOnSet(f, S \cup T) = SumFunctionOnSet(f, S) + SumFunctionOnSet(f, T)
<1> DEFINE F(A) == SumFunctionOnSet(f, A)
           P == {A \in SUBSET T : F(S \cup A) = F(S) + F(A)}
<1>1. IsFiniteSet(S \cup T)
  BY FS_Union
<1>2. F({}) = 0
  BY SumOfNone
<1>3. \A A \in SUBSET (S \cup T) : F(A) \in Int
  BY <1>1, SumSteps
<1>4. \A A \in SUBSET (S \cup T) : \A x \in (S \cup T) \ A : F(A \cup {x}) = F(A) + f[x]
  BY <1>1, SumSteps
<1> HIDE DEF F
<1>5. T \in P
  <2>1. {} \in P
    <3>1. S \cup {} = S /\ F(S) \in Int
      BY <1>3
    <3> QED
      BY <1>2, <3>1
  <2>2. ASSUME NEW A \in SUBSET T, NEW x \in T \ A, A \in P PROVE A \cup {x} \in P
    <3>1. S \cup (A \cup {x}) = (S \cup A) \cup {x} /\ x \in (S \cup T) \ (S \cup A)
      OBVIOUS
    <3>2. F(S \cup (A \cup {x})) = F(S \cup A) + f[x]
      BY <1>4, <3>1
    <3>3. F(A \cup {x}) = F(A) + f[x] /\ F(S \cup A) = F(S) + F(A)
      BY <1>4, <2>2
    <3>4. F(S) \in Int /\ F(A) \in Int /\ f[x] \in Int
      BY <1>3
    <3> QED
      BY <3>2, <3>3, <3>4
  <2> HIDE DEF P
  <2> QED
    BY <2>1, <2>2, GrowSet
<1> QED
  BY <1>5 DEF P, F

LEMMA SumOfNaturals ==
    ASSUME NEW f, NEW S, IsFiniteSet(S), \A s \in S : f[s] \in Nat
    PROVE  /\ SumFunctionOnSet(f, S) \in Nat
           /\ \A s \in S : f[s] <= SumFunctionOnSet(f, S)
           /\ SumFunctionOnSet(f, S) = 0 <=> \A s \in S : f[s] = 0
<1> DEFINE F(T) == SumFunctionOnSet(f, T)
           P == {T \in SUBSET S : F(T) \in Nat /\ (\A s \in T : f[s] <= F(T))
                                  /\ ((\A s \in T : f[s] = 0) => F(T) = 0)}
<1>0. \A s \in S : f[s] \in Int
  OBVIOUS
<1>1. F({}) = 0
  BY SumOfNone
<1>2. \A T \in SUBSET S : \A x \in S \ T : F(T \cup {x}) = F(T) + f[x]
  BY <1>0, SumSteps
<1> HIDE DEF F
<1>3. S \in P
  <2>1. {} \in P
    BY <1>1
  <2>2. ASSUME NEW T \in SUBSET S, NEW x \in S \ T, T \in P PROVE T \cup {x} \in P
    <3>1. /\ F(T) \in Nat /\ (\A s \in T : f[s] <= F(T)) /\ ((\A s \in T : f[s] = 0) => F(T) = 0)
      BY <2>2
    <3>2. F(T \cup {x}) = F(T) + f[x] /\ f[x] \in Nat
      BY <1>2
    <3>3. \A s \in T \cup {x} : f[s] <= F(T \cup {x})
      BY <3>1, <3>2
    <3> QED
      BY <3>1, <3>2, <3>3
  <2> HIDE DEF P
  <2> QED
    BY <2>1, <2>2, GrowSet
<1>4. F(S) \in Nat /\ (\A s \in S : f[s] <= F(S)) /\ ((\A s \in S : f[s] = 0) => F(S) = 0)
  BY <1>3
<1> QED
  BY <1>4 DEF F

(* Counting is a sum of ones. *)
LEMMA SumCounts ==
    ASSUME NEW f, NEW S, IsFiniteSet(S), NEW A \in SUBSET S,
           \A s \in S : f[s] = IF s \in A THEN 1 ELSE 0
    PROVE  SumFunctionOnSet(f, S) = Cardinality(A)
<1> DEFINE F(T) == SumFunctionOnSet(f, T)
           P == {T \in SUBSET S : F(T) = Cardinality(T \cap A)}
<1>1. F({}) = 0
  BY SumOfNone
<1>2. \A T \in SUBSET S : \A x \in S \ T : F(T \cup {x}) = F(T) + f[x]
  <2>1. \A s \in S : f[s] \in Int
    OBVIOUS
  <2> QED
    BY <2>1, SumSteps
<1> HIDE DEF F
<1>3. S \in P
  <2>1. {} \in P
    BY <1>1, FS_EmptySet
  <2>2. ASSUME NEW T \in SUBSET S, NEW x \in S \ T, T \in P PROVE T \cup {x} \in P
    <3>1. IsFiniteSet(T \cap A) /\ Cardinality(T \cap A) \in Nat
      BY FS_Subset, FS_CardinalityType
    <3>2. CASE x \in A
      <4>1. (T \cup {x}) \cap A = (T \cap A) \cup {x} /\ x \notin T \cap A
        BY <3>2
      <4>2. Cardinality((T \cup {x}) \cap A) = Cardinality(T \cap A) + 1
        BY <3>1, <4>1, FS_AddElement
      <4>3. F(T \cup {x}) = F(T) + 1 /\ F(T) = Cardinality(T \cap A)
        BY <1>2, <2>2, <3>2
      <4> QED
        BY <4>2, <4>3
    <3>3. CASE x \notin A
      <4>1. (T \cup {x}) \cap A = T \cap A
        BY <3>3
      <4>2. F(T \cup {x}) = F(T) + 0 /\ F(T) = Cardinality(T \cap A)
        BY <1>2, <2>2, <3>3
      <4>3. F(T \cup {x}) = Cardinality(T \cap A)
        BY <3>1, <4>2
      <4>4. F(T \cup {x}) = Cardinality((T \cup {x}) \cap A)
        BY <4>1, <4>3
      <4> QED
        BY <4>4
    <3> QED
      BY <3>2, <3>3
  <2> HIDE DEF P
  <2> QED
    BY <2>1, <2>2, GrowSet
<1>4. S \cap A = A
  OBVIOUS
<1> QED
  BY <1>3, <1>4 DEF P, F

-----------------------------------------------------------------------------
(* Sums over the parts of a set *)

(* The elements of S that h sends to k. *)
Fiber(h, S, k) == {s \in S : h[s] = k}

(* The sums of the fibers of h add up to the sum of the whole. *)
LEMMA SumOfFibers ==
    ASSUME NEW f, NEW S, IsFiniteSet(S), \A s \in S : f[s] \in Int,
           NEW K, IsFiniteSet(K), NEW h, \A s \in S : h[s] \in K,
           NEW F, \A k \in K : F[k] = SumFunctionOnSet(f, Fiber(h, S, k))
    PROVE  SumFunctionOnSet(F, K) = SumFunctionOnSet(f, S)
<1> DEFINE Sum(T) == SumFunctionOnSet(f, T)
           Over(L) == {s \in S : h[s] \in L}
           FSum(L) == SumFunctionOnSet(F, L)
           P == {L \in SUBSET K : FSum(L) = Sum(Over(L))}
<1>1. \A T \in SUBSET S : IsFiniteSet(T) /\ Sum(T) \in Int
  BY FS_Subset, SumSteps
<1>2. \A k \in K : F[k] \in Int /\ F[k] = Sum(Fiber(h, S, k))
  BY <1>1 DEF Fiber
<1>3. FSum({}) = 0 /\ Sum({}) = 0
  BY SumOfNone
<1>4. \A L \in SUBSET K : \A k \in K \ L : FSum(L \cup {k}) = FSum(L) + F[k]
  <2>1. \A k \in K : F[k] \in Int
    BY <1>2
  <2> QED
    BY <2>1, SumSteps
<1>5. \A A, B \in SUBSET S : A \cap B = {} => Sum(A \cup B) = Sum(A) + Sum(B)
  <2> TAKE A, B \in SUBSET S
  <2> HAVE A \cap B = {}
  <2>1. IsFiniteSet(A) /\ IsFiniteSet(B) /\ \A s \in A \cup B : f[s] \in Int
    BY <1>1
  <2> QED
    BY <2>1, SumUnion
<1> HIDE DEF Sum, FSum
<1>6. K \in P
  <2>1. {} \in P
    <3>1. Over({}) = {}
      OBVIOUS
    <3> QED
      BY <1>3, <3>1
  <2>2. ASSUME NEW L \in SUBSET K, NEW k \in K \ L, L \in P PROVE L \cup {k} \in P
    <3>1. Over(L \cup {k}) = Over(L) \cup Fiber(h, S, k) /\ Over(L) \cap Fiber(h, S, k) = {}
      BY DEF Fiber
    <3>2. Over(L) \in SUBSET S /\ Fiber(h, S, k) \in SUBSET S
      BY DEF Fiber
    <3> HIDE DEF Over
    <3>3. Sum(Over(L \cup {k})) = Sum(Over(L)) + Sum(Fiber(h, S, k))
      BY <1>5, <3>1, <3>2
    <3>4. FSum(L \cup {k}) = FSum(L) + Sum(Fiber(h, S, k))
      BY <1>2, <1>4
    <3> QED
      BY <2>2, <3>3, <3>4
  <2> HIDE DEF P
  <2> QED
    BY <2>1, <2>2, GrowSet
<1>7. Over(K) = S
  OBVIOUS
<1> QED
  BY <1>6, <1>7 DEF P, FSum, Sum

LEMMA CountOfFibers ==
    ASSUME NEW S, IsFiniteSet(S), NEW K, IsFiniteSet(K), NEW h, \A s \in S : h[s] \in K,
           NEW F, \A k \in K : F[k] = Cardinality(Fiber(h, S, k))
    PROVE  SumFunctionOnSet(F, K) = Cardinality(S)
<1> DEFINE one == [s \in S |-> 1]
<1>1. \A s \in S : one[s] \in Int
  OBVIOUS
<1>2. ASSUME NEW T \in SUBSET S PROVE SumFunctionOnSet(one, T) = Cardinality(T)
  <2>1. IsFiniteSet(T) /\ \A s \in T : one[s] = IF s \in T THEN 1 ELSE 0
    BY FS_Subset
  <2> HIDE DEF one
  <2> QED
    BY <2>1, SumCounts
<1> HIDE DEF one
<1>3. \A k \in K : F[k] = SumFunctionOnSet(one, Fiber(h, S, k))
  BY <1>2 DEF Fiber
<1>4. SumFunctionOnSet(F, K) = SumFunctionOnSet(one, S)
  BY <1>1, <1>3, SumOfFibers
<1> QED
  BY <1>2, <1>4

LEMMA CountUnion ==
    ASSUME NEW S, IsFiniteSet(S), NEW T, IsFiniteSet(T), S \cap T = {}
    PROVE  Cardinality(S \cup T) = Cardinality(S) + Cardinality(T)
<1>1. Cardinality(S \cup T) = Cardinality(S) + Cardinality(T) - Cardinality(S \cap T)
  BY FS_Union, Zenon
<1>2. Cardinality(S \cap T) = 0
  BY FS_EmptySet
<1>3. Cardinality(S) \in Nat /\ Cardinality(T) \in Nat
  BY FS_CardinalityType
<1> QED
  BY <1>1, <1>2, <1>3

LEMMA FiniteImage ==
    ASSUME NEW S, IsFiniteSet(S), NEW h PROVE IsFiniteSet({h[s] : s \in S})
<1> DEFINE T == {h[s] : s \in S}  g == [s \in S |-> h[s]]
<1>1. g \in Surjection(S, T)
  BY DEF Surjection
<1> QED
  BY <1>1, FS_Surjection

(* The indices in I of the sets k is in. *)
Having(A, I, k) == {i \in I : k \in A[i]}

(* Counting the pairs of a relation by either side. *)
LEMMA DoubleCount ==
    ASSUME NEW I, IsFiniteSet(I), NEW K, IsFiniteSet(K), NEW A, \A i \in I : A[i] \subseteq K,
           NEW F, \A k \in K : F[k] = Cardinality(Having(A, I, k)),
           NEW G, \A i \in I : G[i] = Cardinality(A[i])
    PROVE  SumFunctionOnSet(F, K) = SumFunctionOnSet(G, I)
<1> DEFINE N(J, k) == Cardinality({i \in J : k \in A[i]})
           By(J) == [k \in K |-> N(J, k)]
           GSum(J) == SumFunctionOnSet(G, J)
           P == {J \in SUBSET I : SumFunctionOnSet(By(J), K) = GSum(J)}
<1>1. \A i \in I : A[i] \in SUBSET K /\ IsFiniteSet(A[i]) /\ G[i] \in Int
  BY FS_Subset, FS_CardinalityType
<1>2. \A J \in SUBSET I : \A k \in K : N(J, k) \in Int /\ IsFiniteSet({i \in J : k \in A[i]})
  BY FS_Subset, FS_CardinalityType
<1>3. GSum({}) = 0 /\ \A J \in SUBSET I : \A i \in I \ J : GSum(J \cup {i}) = GSum(J) + G[i]
  BY <1>1, SumSteps
<1> HIDE DEF GSum
<1>4. I \in P
  <2>1. {} \in P
    <3>1. \A k \in K : By({})[k] = IF k \in {} THEN 1 ELSE 0
      <4>1. \A k \in K : {i \in {} : k \in A[i]} = {}
        OBVIOUS
      <4> QED
        BY <4>1, FS_EmptySet
    <3>2. SumFunctionOnSet(By({}), K) = Cardinality({})
      <4> HIDE DEF By
      <4> QED
        BY <3>1, SumCounts
    <3> QED
      BY <1>3, <3>2, FS_EmptySet
  <2>2. ASSUME NEW J \in SUBSET I, NEW j \in I \ J, J \in P PROVE J \cup {j} \in P
    <3> DEFINE one == [k \in K |-> IF k \in A[j] THEN 1 ELSE 0]
    <3>1. ASSUME NEW k \in K PROVE By(J \cup {j})[k] = By(J)[k] + one[k]
      <4> DEFINE B == {i \in J : k \in A[i]}
      <4>1. j \notin B /\ IsFiniteSet(B) /\ Cardinality(B) \in Int
        BY <1>2
      <4>2. CASE k \in A[j]
        <5>1. {i \in J \cup {j} : k \in A[i]} = B \cup {j}
          BY <4>2
        <5>2. Cardinality(B \cup {j}) = Cardinality(B) + 1
          BY <4>1, FS_AddElement
        <5> QED
          BY <4>2, <5>1, <5>2
      <4>3. CASE k \notin A[j]
        <5>1. {i \in J \cup {j} : k \in A[i]} = B
          BY <4>3
        <5>2. Cardinality(B) + 0 = Cardinality(B)
          BY <4>1
        <5> QED
          BY <4>3, <5>1, <5>2
      <4> QED
        BY <4>2, <4>3
    <3>2. \A k \in K : By(J)[k] \in Int /\ one[k] \in Int
      <4>1. \A k \in K : N(J, k) \in Int
        BY <1>2
      <4> HIDE DEF N
      <4> QED
        BY <4>1
    <3>3. \A k \in K : one[k] = IF k \in A[j] THEN 1 ELSE 0
      OBVIOUS
    <3> HIDE DEF By, one
    <3>4. SumFunctionOnSet(By(J \cup {j}), K)
             = SumFunctionOnSet(By(J), K) + SumFunctionOnSet(one, K)
      <4> DEFINE old == By(J)  new == By(J \cup {j})
      <4>1. \A k \in K : old[k] \in Int /\ one[k] \in Int /\ new[k] = old[k] + one[k]
        BY <3>1, <3>2
      <4> HIDE DEF old, new
      <4>2. SumFunctionOnSet(new, K) = SumFunctionOnSet(old, K) + SumFunctionOnSet(one, K)
        BY <4>1, SumPlus
      <4> QED
        BY <4>2 DEF old, new
    <3>5. SumFunctionOnSet(one, K) = Cardinality(A[j])
      BY <1>1, <3>3, SumCounts
    <3>6. GSum(J \cup {j}) = GSum(J) + Cardinality(A[j])
      BY <1>3
    <3> QED
      BY <2>2, <3>4, <3>5, <3>6
  <2> HIDE DEF P
  <2> QED
    BY <2>1, <2>2, GrowSet
<1>5. SumFunctionOnSet(By(I), K) = GSum(I)
  BY <1>4
<1>6. SumFunctionOnSet(F, K) = SumFunctionOnSet(By(I), K)
  <2>1. \A k \in K : By(I)[k] \in Int /\ F[k] = By(I)[k]
    BY <1>2 DEF Having
  <2> HIDE DEF By
  <2> QED
    BY <2>1, SumSame
<1> QED
  BY <1>5, <1>6 DEF GSum

-----------------------------------------------------------------------------
(* Two inequalities *)

Magnitude(i) == IF i < 0 THEN -i ELSE i

LEMMA SumMagnitude ==
    ASSUME NEW f, NEW g, NEW S, IsFiniteSet(S),
           \A s \in S : f[s] \in Int /\ g[s] = Magnitude(f[s])
    PROVE  Magnitude(SumFunctionOnSet(f, S)) <= SumFunctionOnSet(g, S)
<1> DEFINE F(T) == SumFunctionOnSet(f, T)  G(T) == SumFunctionOnSet(g, T)
           P == {T \in SUBSET S : Magnitude(F(T)) <= G(T)}
<1> USE DEF Magnitude
<1>1. \A s \in S : g[s] \in Int
  OBVIOUS
<1>2. F({}) = 0 /\ G({}) = 0
  BY SumOfNone
<1>3. \A T \in SUBSET S : F(T) \in Int
  BY SumSteps
<1>4. \A T \in SUBSET S : G(T) \in Int
  BY <1>1, SumSteps
<1>5. \A T \in SUBSET S : \A x \in S \ T : F(T \cup {x}) = F(T) + f[x]
  BY SumSteps
<1>6. \A T \in SUBSET S : \A x \in S \ T : G(T \cup {x}) = G(T) + g[x]
  BY <1>1, SumSteps
<1> HIDE DEF F, G
<1>7. S \in P
  <2>1. {} \in P
    BY <1>2
  <2>2. ASSUME NEW T \in SUBSET S, NEW x \in S \ T, T \in P PROVE T \cup {x} \in P
    <3>1. F(T \cup {x}) = F(T) + f[x] /\ G(T \cup {x}) = G(T) + g[x]
      BY <1>5, <1>6
    <3>2. F(T) \in Int /\ G(T) \in Int /\ f[x] \in Int /\ Magnitude(F(T)) <= G(T)
      BY <1>3, <1>4, <2>2
    <3> QED
      BY <3>1, <3>2
  <2> HIDE DEF P
  <2> QED
    BY <2>1, <2>2, GrowSet
<1> QED
  BY <1>7 DEF P, F, G

LEMMA Expanded ==
    ASSUME NEW A \in Int, NEW B \in Int, NEW n \in Nat, NEW a \in Int,
           A * A <= n * B, B >= 0, n = 0 => A = 0
    PROVE  (A + a) * (A + a) <= (n + 1) * (B + a * a) /\ B + a * a >= 0 /\ n + 1 # 0
<1>1. \A i \in Int : i * i >= 0
  OBVIOUS
<1>2. a * a \in Int /\ a * a >= 0 /\ A * A \in Int /\ n * B \in Int /\ A * a \in Int
  BY <1>1
<1>3. 2 * (A * a) <= B + n * (a * a)
  <2>1. CASE n = 0
    BY <2>1, <1>2
  <2>2. CASE n > 0
    <3>1. (A - n * a) * (A - n * a) >= 0
      BY <1>1
    <3>2. 2 * (n * (A * a)) <= A * A + n * (n * (a * a))
      BY <3>1
    <3>3. n * (2 * (A * a)) <= n * (B + n * (a * a))
      BY <3>2
    <3>4. \A i, j \in Int : n * i <= n * j => i <= j
      BY <2>2
    <3> QED
      BY <3>3, <3>4
  <2> QED
    BY <2>1, <2>2
<1> QED
  BY <1>2, <1>3

(* The square of a sum is at most the count times the sum of the squares. *)
LEMMA SumSquared ==
    ASSUME NEW f, NEW q, NEW S, IsFiniteSet(S),
           \A s \in S : f[s] \in Int /\ q[s] = f[s] * f[s]
    PROVE  SumFunctionOnSet(f, S) * SumFunctionOnSet(f, S)
              <= Cardinality(S) * SumFunctionOnSet(q, S)
<1> DEFINE F(T) == SumFunctionOnSet(f, T)  Q(T) == SumFunctionOnSet(q, T)
           N(T) == Cardinality(T)
           P == {T \in SUBSET S : /\ F(T) * F(T) <= N(T) * Q(T)
                                  /\ Q(T) >= 0
                                  /\ N(T) = 0 => F(T) = 0}
<1>1. \A s \in S : q[s] \in Int
  OBVIOUS
<1>2. F({}) = 0 /\ Q({}) = 0 /\ N({}) = 0
  BY SumOfNone, FS_EmptySet
<1>3. \A T \in SUBSET S : F(T) \in Int
  BY SumSteps
<1>4. \A T \in SUBSET S : Q(T) \in Int
  BY <1>1, SumSteps
<1>5. \A T \in SUBSET S : \A x \in S \ T : F(T \cup {x}) = F(T) + f[x]
  BY SumSteps
<1>6. \A T \in SUBSET S : \A x \in S \ T : Q(T \cup {x}) = Q(T) + q[x]
  BY <1>1, SumSteps
<1>7. \A T \in SUBSET S : N(T) \in Nat /\ \A x \in S \ T : N(T \cup {x}) = N(T) + 1
  BY FS_Subset, FS_CardinalityType, FS_AddElement
<1> HIDE DEF F, Q, N
<1>8. S \in P
  <2>1. {} \in P
    BY <1>2
  <2>2. ASSUME NEW T \in SUBSET S, NEW x \in S \ T, T \in P PROVE T \cup {x} \in P
    <3> SUFFICES ASSUME NEW A \in Int, A = F(T), NEW B \in Int, B = Q(T),
                        NEW n \in Nat, n = N(T), NEW a \in Int, a = f[x]
                 PROVE  T \cup {x} \in P
      BY <1>3, <1>4, <1>7
    <3>1. A * A <= n * B /\ B >= 0 /\ (n = 0 => A = 0)
      BY <2>2
    <3>2. (A + a) * (A + a) <= (n + 1) * (B + a * a) /\ B + a * a >= 0 /\ n + 1 # 0
      BY <3>1, Expanded
    <3>3. F(T \cup {x}) = A + a /\ Q(T \cup {x}) = B + a * a /\ N(T \cup {x}) = n + 1
      BY <1>5, <1>6, <1>7
    <3> QED
      BY <3>2, <3>3
  <2> HIDE DEF P
  <2> QED
    BY <2>1, <2>2, GrowSet
<1> QED
  BY <1>8 DEF P, F, Q, N
=============================================================================
