---------------------------- MODULE TablesProofs ----------------------------
(***************************************************************************)
(* The laws of sums over columns.  Total is a recursion that takes the     *)
(* rows in some order CHOOSE fixes; that the order does not matter is an   *)
(* induction over the finite subsets of the rows.  The induction is put as *)
(* a search for a smallest counterexample: a set of sets instead of a      *)
(* predicate, so that the theorems it rests on can be cited.               *)
(***************************************************************************)
EXTENDS Tables, FiniteSetTheorems, TLAPS

LEMMA SmallestNumber ==
  ASSUME NEW N \in SUBSET Nat, N # {}
  PROVE  \E n \in N : \A m \in N : n <= m
<1> DEFINE R == OpToRel(<, Nat)
<1>1. IsWellFoundedOn(R, Nat)
  BY NatLessThanWellFounded
<1>2. \A m, n \in Nat : <<m, n>> \in R <=> m < n
  BY DEF OpToRel
<1> HIDE DEF R
<1>3. PICK n \in N : \A m \in N : ~(<<m, n>> \in R)
  BY <1>1, WFMin
<1>4. \A m \in N : m \in Nat /\ n \in Nat /\ ~(m < n)
  BY <1>2, <1>3
<1> QED
  BY <1>4

\* Among sets of finite sets, one without the sets that lack one of its elements.
LEMMA SmallestSet ==
  ASSUME NEW S, IsFiniteSet(S), NEW F \in SUBSET SUBSET S, F # {}
  PROVE  \E T \in F : \A x \in T : T \ {x} \notin F
<1> DEFINE N == {Cardinality(T) : T \in F}
<1>1. \A T \in F : IsFiniteSet(T) /\ Cardinality(T) \in Nat
  BY FS_Subset, FS_CardinalityType
<1>2. /\ \A T \in F : Cardinality(T) \in N
      /\ \A n \in N : \E T \in F : n = Cardinality(T)
  OBVIOUS
<1>3. N \in SUBSET Nat /\ N # {}
  BY <1>1
<1> HIDE DEF N
<1>4. PICK n \in N : \A m \in N : n <= m
  BY <1>3, SmallestNumber
<1>5. PICK T \in F : \A U \in F : Cardinality(T) <= Cardinality(U)
  BY <1>2, <1>4
<1>6. ASSUME NEW x \in T
      PROVE  T \ {x} \notin F
  BY <1>1, <1>5, FS_RemoveElement
<1> QED
  BY <1>6

-----------------------------------------------------------------------------
(* The sum of a column over all subsets of S at once, by a function that   *)
(* prefers no order.                                                       *)

Adds(g, f, S) ==
  /\ g \in [SUBSET S -> Int]
  /\ g[{}] = 0
  /\ \A T \in SUBSET S : \A x \in T : g[T] = f[x] + g[T \ {x}]

LEMMA OneMoreAdds ==
  ASSUME NEW f, NEW T, NEW x \in T, \A y \in T : f[y] \in Int, NEW g, Adds(g, f, T \ {x})
  PROVE  \E h : Adds(h, f, T)
<1> DEFINE h == [U \in SUBSET T |-> IF x \in U THEN f[x] + g[U \ {x}] ELSE g[U]]
<1>1. \A U \in SUBSET T : U \ {x} \in SUBSET (T \ {x}) /\ g[U \ {x}] \in Int
  BY DEF Adds
<1>2. \A U \in SUBSET T : x \notin U => U \ {x} = U
  OBVIOUS
<1>3. \A U \in SUBSET T : x \in U => h[U] = f[x] + g[U \ {x}]
  OBVIOUS
<1>4. \A U \in SUBSET T : x \notin U => h[U] = g[U]
  OBVIOUS
<1>5. h \in [SUBSET T -> Int]
  BY <1>1, <1>2
<1>6. h[{}] = 0
  BY <1>4 DEF Adds
<1> HIDE DEF h
<1>7. ASSUME NEW U \in SUBSET T, NEW y \in U
      PROVE  h[U] = f[y] + h[U \ {y}]
  <2>1. CASE y = x
    BY <2>1, <1>2, <1>3, <1>4
  <2>2. CASE y # x /\ x \in U
    <3>1. (U \ {x}) \ {y} = (U \ {y}) \ {x}
      OBVIOUS
    <3>2. g[U \ {x}] = f[y] + g[(U \ {y}) \ {x}]
      BY <2>2, <3>1, <1>1 DEF Adds
    <3>3. h[U] = f[x] + g[U \ {x}] /\ h[U \ {y}] = f[x] + g[(U \ {y}) \ {x}]
      BY <2>2, <1>3
    <3>4. f[x] \in Int /\ f[y] \in Int /\ g[(U \ {y}) \ {x}] \in Int
      BY <1>1
    <3> QED
      BY <3>2, <3>3, <3>4
  <2>3. CASE y # x /\ x \notin U
    BY <2>3, <1>1, <1>2, <1>4 DEF Adds
  <2> QED
    BY <2>1, <2>2, <2>3
<1> QED
  BY <1>5, <1>6, <1>7 DEF Adds

LEMMA SomethingAdds ==
  ASSUME NEW f, NEW S, IsFiniteSet(S), \A x \in S : f[x] \in Int
  PROVE  \E g : Adds(g, f, S)
<1> DEFINE F == {T \in SUBSET S : ~\E g : Adds(g, f, T)}
<1> SUFFICES ASSUME F # {}
             PROVE  FALSE
  OBVIOUS
<1>1. F \in SUBSET SUBSET S
  OBVIOUS
<1>2. PICK T \in F : \A x \in T : T \ {x} \notin F
  <2> HIDE DEF F
  <2> QED
    BY <1>1, SmallestSet
<1>3. CASE T = {}
  <2> DEFINE g == [U \in SUBSET {} |-> 0]
  <2>1. Adds(g, f, {})
    BY DEF Adds
  <2> QED
    BY <1>2, <1>3, <2>1
<1>4. CASE T # {}
  <2>1. PICK x \in T : TRUE
    BY <1>4
  <2>2. \E g : Adds(g, f, T \ {x})
    BY <1>2
  <2>3. \A y \in T : f[y] \in Int
    BY <1>2
  <2>4. \E g : Adds(g, f, T)
    BY <2>1, <2>2, <2>3, OneMoreAdds
  <2> QED
    BY <1>2, <2>4
<1> QED
  BY <1>3, <1>4

\* The recursion that Total stands for.
Recursion(f, S) ==
  CHOOSE iter : iter = [s \in SUBSET S |->
     IF s = {} THEN 0
     ELSE f[CHOOSE r \in s : TRUE] + iter[s \ {CHOOSE r \in s : TRUE}]]

LEMMA TotalRecurs ==
  ASSUME NEW f, NEW S
  PROVE  Total(f, S) = Recursion(f, S)[S]
  BY DEF Total, MapThenFoldSet, Recursion

LEMMA TotalAdds ==
  ASSUME NEW f, NEW S, IsFiniteSet(S), NEW g, Adds(g, f, S)
  PROVE  Total(f, S) = g[S]
<1> DEFINE One(s) == CHOOSE r \in s : TRUE
           Solves(iter) == iter = [s \in SUBSET S |->
             IF s = {} THEN 0 ELSE f[One(s)] + iter[s \ {One(s)}]]
           it == Recursion(f, S)
           F == {T \in SUBSET S : it[T] # g[T]}
<1>1. \A s : s # {} => One(s) \in s
  OBVIOUS
<1>2. Solves(g)
  <2>1. \A s \in SUBSET S : s # {} => g[s] = f[One(s)] + g[s \ {One(s)}]
    BY <1>1 DEF Adds
  <2>2. g = [s \in SUBSET S |-> g[s]]
    BY DEF Adds
  <2> QED
    BY <2>1, <2>2 DEF Adds
<1>3. Solves(it)
  BY <1>2 DEF Recursion
<1>4. it[{}] = 0
  BY <1>3
<1>5. \A s \in SUBSET S : s # {} => it[s] = f[One(s)] + it[s \ {One(s)}]
  BY <1>3
<1>6. F = {}
  <2> SUFFICES ASSUME F # {}
               PROVE  FALSE
    OBVIOUS
  <2>1. F \in SUBSET SUBSET S
    OBVIOUS
  <2>2. PICK T \in F : \A x \in T : T \ {x} \notin F
    <3> HIDE DEF F
    <3> QED
      BY <2>1, SmallestSet
  <2> HIDE DEF it, One
  <2>3. T # {}
    BY <2>2, <1>4 DEF Adds
  <2>4. One(T) \in T /\ T \in SUBSET S
    BY <2>2, <2>3, <1>1
  <2>5. it[T] = f[One(T)] + it[T \ {One(T)}]
    BY <2>3, <2>4, <1>5
  <2>6. g[T] = f[One(T)] + g[T \ {One(T)}]
    BY <2>4 DEF Adds
  <2>7. it[T \ {One(T)}] = g[T \ {One(T)}]
    BY <2>2, <2>4
  <2> QED
    BY <2>2, <2>5, <2>6, <2>7
<1> QED
  BY <1>6, TotalRecurs

-----------------------------------------------------------------------------
(* The laws.                                                               *)

LEMMA TotalOfNone ==
  ASSUME NEW f
  PROVE  Total(f, {}) = 0
<1>1. PICK g : Adds(g, f, {})
  BY SomethingAdds, FS_EmptySet
<1> QED
  BY <1>1, TotalAdds, FS_EmptySet DEF Adds

\* Any row may be the one that is added last.
LEMMA TotalSplit ==
  ASSUME NEW f, NEW S, IsFiniteSet(S), \A x \in S : f[x] \in Int, NEW x \in S
  PROVE  /\ Total(f, S) \in Int
         /\ Total(f, S \ {x}) \in Int
         /\ Total(f, S) = f[x] + Total(f, S \ {x})
<1>1. PICK g : Adds(g, f, S)
  BY SomethingAdds
<1>2. IsFiniteSet(S \ {x})
  BY FS_RemoveElement
<1>3. Adds([T \in SUBSET (S \ {x}) |-> g[T]], f, S \ {x})
  BY <1>1 DEF Adds
<1>4. Total(f, S) = g[S] /\ Total(f, S \ {x}) = g[S \ {x}]
  BY <1>1, <1>2, <1>3, TotalAdds
<1> QED
  BY <1>1, <1>4 DEF Adds

LEMMA TotalIsInt ==
  ASSUME NEW f, NEW S, IsFiniteSet(S), \A x \in S : f[x] \in Int
  PROVE  Total(f, S) \in Int
<1>1. CASE S = {}
  BY <1>1, TotalOfNone
<1>2. CASE S # {}
  BY <1>2, TotalSplit
<1> QED
  BY <1>1, <1>2

\* Columns that add up row by row have sums that add up.
LEMMA TotalPlus ==
  ASSUME NEW f, NEW g, NEW h, NEW S, IsFiniteSet(S),
         \A x \in S : f[x] \in Int /\ g[x] \in Int /\ h[x] = f[x] + g[x]
  PROVE  Total(h, S) = Total(f, S) + Total(g, S)
<1> DEFINE F == {T \in SUBSET S : Total(h, T) # Total(f, T) + Total(g, T)}
<1> SUFFICES ASSUME F # {}
             PROVE  FALSE
  OBVIOUS
<1>1. F \in SUBSET SUBSET S
  OBVIOUS
<1>2. PICK T \in F : \A x \in T : T \ {x} \notin F
  <2> HIDE DEF F
  <2> QED
    BY <1>1, SmallestSet
<1>3. T \subseteq S /\ IsFiniteSet(T)
  BY <1>2, FS_Subset
<1>4. Total(h, T) # Total(f, T) + Total(g, T)
  BY <1>2
<1>5. \A x \in T : Total(h, T \ {x}) = Total(f, T \ {x}) + Total(g, T \ {x})
  BY <1>2, <1>3
<1> HIDE DEF F
<1>6. T # {}
  <2>1. Total(h, {}) = Total(f, {}) + Total(g, {})
    BY TotalOfNone
  <2> QED
    BY <1>4, <2>1
<1>7. PICK x \in T : TRUE
  BY <1>6
<1>8. h[x] = f[x] + g[x] /\ f[x] \in Int /\ g[x] \in Int
  BY <1>3
<1>9. \A y \in T : f[y] \in Int
  BY <1>3
<1>10. \A y \in T : g[y] \in Int
  BY <1>3
<1>11. \A y \in T : h[y] \in Int
  BY <1>3
<1>12. Total(f, T) = f[x] + Total(f, T \ {x}) /\ Total(f, T \ {x}) \in Int
  <2>1. Total(f, T) = f[x] + Total(f, T \ {x})
    BY <1>3, <1>9, TotalSplit
  <2>2. Total(f, T \ {x}) \in Int
    BY <1>3, <1>9, TotalSplit
  <2> QED
    BY <2>1, <2>2
<1>13. Total(g, T) = g[x] + Total(g, T \ {x}) /\ Total(g, T \ {x}) \in Int
  <2>1. Total(g, T) = g[x] + Total(g, T \ {x})
    BY <1>3, <1>10, TotalSplit
  <2>2. Total(g, T \ {x}) \in Int
    BY <1>3, <1>10, TotalSplit
  <2> QED
    BY <2>1, <2>2
<1>14. Total(h, T) = h[x] + Total(h, T \ {x})
  BY <1>3, <1>11, TotalSplit
<1> QED
  BY <1>4, <1>5, <1>8, <1>12, <1>13, <1>14

LEMMA TotalOfZeros ==
  ASSUME NEW z, NEW S, IsFiniteSet(S), \A x \in S : z[x] = 0
  PROVE  Total(z, S) = 0
<1>1. Total(z, S) = Total(z, S) + Total(z, S)
  BY TotalPlus
<1>2. Total(z, S) \in Int
  BY TotalIsInt
<1> QED
  BY <1>1, <1>2

\* A sum looks at the rows only.
LEMMA TotalSame ==
  ASSUME NEW f, NEW g, NEW S, IsFiniteSet(S), \A x \in S : f[x] \in Int /\ g[x] = f[x]
  PROVE  Total(g, S) = Total(f, S)
<1> DEFINE z == [x \in S |-> 0]
<1>1. \A x \in S : z[x] = 0
  OBVIOUS
<1> HIDE DEF z
<1>2. Total(z, S) = 0
  BY <1>1, TotalOfZeros
<1>3. Total(f, S) \in Int
  BY TotalIsInt
<1>4. Total(g, S) = Total(f, S) + Total(z, S)
  BY <1>1, TotalPlus
<1> QED
  BY <1>2, <1>3, <1>4

\* One row more, the others as they were.
LEMMA TotalGrows ==
  ASSUME NEW f, NEW g, NEW S, IsFiniteSet(S), NEW x, x \notin S,
         \A y \in S : f[y] \in Int /\ g[y] = f[y], g[x] \in Int
  PROVE  Total(g, S \cup {x}) = g[x] + Total(f, S)
<1>1. IsFiniteSet(S \cup {x}) /\ (S \cup {x}) \ {x} = S
  BY FS_AddElement
<1>2. \A y \in S \cup {x} : g[y] \in Int
  OBVIOUS
<1>3. Total(g, S \cup {x}) = g[x] + Total(g, S)
  BY <1>1, <1>2, TotalSplit
<1>4. Total(g, S) = Total(f, S)
  BY TotalSame
<1> QED
  BY <1>3, <1>4

\* Rows without debts: no part of a sum is more than the whole.
LEMMA TotalIsNat ==
  ASSUME NEW f, NEW S, IsFiniteSet(S), \A x \in S : f[x] \in Nat
  PROVE  Total(f, S) \in Nat
<1> DEFINE F == {T \in SUBSET S : Total(f, T) \notin Nat}
<1> SUFFICES ASSUME F # {}
             PROVE  FALSE
  OBVIOUS
<1>1. F \in SUBSET SUBSET S
  OBVIOUS
<1>2. PICK T \in F : \A x \in T : T \ {x} \notin F
  <2> HIDE DEF F
  <2> QED
    BY <1>1, SmallestSet
<1>3. T \subseteq S /\ IsFiniteSet(T)
  BY <1>2, FS_Subset
<1>4. Total(f, T) \notin Nat /\ \A x \in T : Total(f, T \ {x}) \in Nat
  BY <1>2, <1>3
<1> HIDE DEF F
<1>5. T # {}
  <2>1. Total(f, {}) \in Nat
    BY TotalOfNone
  <2> QED
    BY <1>4, <2>1
<1>6. PICK x \in T : TRUE
  BY <1>5
<1>7. \A y \in T : f[y] \in Int
  BY <1>3
<1>8. Total(f, T) = f[x] + Total(f, T \ {x})
  BY <1>3, <1>7, TotalSplit
<1> QED
  BY <1>3, <1>4, <1>8

\* One row of a table without debts is no more than the whole.
LEMMA TotalCovers ==
  ASSUME NEW f, NEW S, IsFiniteSet(S), \A x \in S : f[x] \in Nat, NEW x \in S
  PROVE  f[x] <= Total(f, S)
<1>1. IsFiniteSet(S \ {x}) /\ \A y \in S : f[y] \in Int
  BY FS_RemoveElement
<1>2. Total(f, S \ {x}) \in Nat
  BY <1>1, TotalIsNat
<1>3. Total(f, S) = f[x] + Total(f, S \ {x})
  BY <1>1, TotalSplit
<1> QED
  BY <1>2, <1>3

\* So is any part of it.
LEMMA TotalOfPart ==
  ASSUME NEW f, NEW S, IsFiniteSet(S), \A x \in S : f[x] \in Nat, NEW P \in SUBSET S
  PROVE  Total(f, P) <= Total(f, S)
<1> DEFINE F == {T \in SUBSET S : P \subseteq T /\ ~(Total(f, P) <= Total(f, T))}
<1> SUFFICES ASSUME F # {}
             PROVE  FALSE
  OBVIOUS
<1>1. F \in SUBSET SUBSET S
  OBVIOUS
<1>2. PICK T \in F : \A x \in T : T \ {x} \notin F
  <2> HIDE DEF F
  <2> QED
    BY <1>1, SmallestSet
<1>3. T \subseteq S /\ P \subseteq T /\ ~(Total(f, P) <= Total(f, T))
  BY <1>2
<1>4. IsFiniteSet(T) /\ IsFiniteSet(P) /\ Total(f, P) \in Nat
  <2>1. IsFiniteSet(T) /\ IsFiniteSet(P)
    BY <1>3, FS_Subset
  <2> QED
    BY <1>3, <2>1, TotalIsNat
<1>5. PICK x \in T : x \notin P
  BY <1>3, <1>4
<1>6. Total(f, P) <= Total(f, T \ {x})
  BY <1>2, <1>3, <1>5
<1> HIDE DEF F
<1>7. Total(f, T) = f[x] + Total(f, T \ {x}) /\ Total(f, T \ {x}) \in Int
  BY <1>3, <1>4, TotalSplit
<1>8. f[x] \in Nat
  BY <1>3
<1> QED
  BY <1>3, <1>4, <1>6, <1>7, <1>8
=============================================================================
