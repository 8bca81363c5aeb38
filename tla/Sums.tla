-------------------------------- MODULE Sums --------------------------------
(***************************************************************************)
(* Lemmas about SumFunctionOnSet, the sum of a function's values over a    *)
(* finite set: its type, the empty set, one element more or less, and that *)
(* it depends on the values over that set only.                            *)
(*                                                                         *)
(* The sum is a fold, and the fold a recursive function on the subsets of  *)
(* the set.  That there is such a function, and what it computes, is shown *)
(* by induction on the number of elements, as arguments about the least    *)
(* number for which a claim fails.                                         *)
(***************************************************************************)
EXTENDS Integers, FiniteSets, Functions, FiniteSetTheorems, WellFoundedInduction, TLAPS

(* Every nonempty set of naturals has a least element: induction, as a     *)
(* fact of first-order logic.                                              *)
LEMMA LeastNumber ==
    ASSUME NEW N, N \subseteq Nat, N # {}
    PROVE  \E n \in N : \A m \in N : n <= m
  <1>1. PICK n \in N : \A m \in N : ~(<<m, n>> \in OpToRel(<, Nat))
    BY NatLessThanWellFounded, WFMin
  <1>2. ASSUME NEW m \in N PROVE n <= m
    <2>1. ~(m < n)
      BY <1>1 DEF OpToRel
    <2> QED
      BY <2>1
  <1> QED
    BY <1>2

Chosen(T) == CHOOSE x \in T : TRUE

(* The element the fold takes first. *)
LEMMA ChosenIn == ASSUME NEW T, T # {} PROVE Chosen(T) \in T
  BY DEF Chosen

Row(f, g, T) == IF T = {} THEN 0 ELSE f[Chosen(T)] + g[T \ {Chosen(T)}]

(* g has the sums of f over the subsets of S. *)
IsSumTable(f, S, g) == g = [T \in SUBSET S |-> Row(f, g, T)]

(* The sum is the row of S in such a table, if there is one. *)
LEMMA SumUnfolds ==
    ASSUME NEW f, NEW S
    PROVE  SumFunctionOnSet(f, S) = (CHOOSE g : IsSumTable(f, S, g))[S]
  BY DEF SumFunctionOnSet, FoldFunctionOnSet, MapThenFoldSet, IsSumTable, Row, Chosen

(* A finite set has such a table: take the rows of the sets of up to n     *)
(* elements as given, and fill in those of n + 1.                          *)
LEMMA TableExists ==
    ASSUME NEW f, NEW S, IsFiniteSet(S)
    PROVE  \E g : IsSumTable(f, S, g)
  <1> DEFINE Up(n, g) == g = [T \in SUBSET S |-> IF Cardinality(T) > n THEN 0 ELSE Row(f, g, T)]
             Fails == {n \in Nat : ~\E g : Up(n, g)}
  <1>1. \A T \in SUBSET S : IsFiniteSet(T) /\ Cardinality(T) \in Nat
                            /\ Cardinality(T) <= Cardinality(S)
    BY FS_Subset, FS_CardinalityType
  <1>2. Cardinality(S) \in Nat
    BY FS_CardinalityType
  <1>3. Fails = {}
    <2> SUFFICES ASSUME Fails # {} PROVE FALSE
      OBVIOUS
    <2>1. PICK n \in Fails : \A m \in Fails : n <= m
      BY LeastNumber
    <2>2. n \in Nat /\ ~\E g : Up(n, g)
      BY <2>1
    <2>3. CASE n = 0
      <3> DEFINE g == [T \in SUBSET S |-> 0]
      <3>1. \A T \in SUBSET S : Cardinality(T) <= 0 => T = {}
        BY <1>1, FS_EmptySet
      <3>2. \A T \in SUBSET S : (IF Cardinality(T) > 0 THEN 0 ELSE Row(f, g, T)) = 0
        BY <1>1, <3>1 DEF Row
      <3>3. Up(0, g)
        BY <3>2
      <3> QED
        BY <2>2, <2>3, <3>3
    <2>4. CASE n # 0
      <3>1. n - 1 \in Nat /\ n - 1 \notin Fails
        <4> HIDE DEF Fails
        <4> QED
          BY <2>1, <2>2, <2>4
      <3>2. PICK g : Up(n - 1, g)
        BY <3>1
      <3> DEFINE h == [T \in SUBSET S |-> IF Cardinality(T) > n THEN 0 ELSE Row(f, g, T)]
      <3>3. ASSUME NEW U \in SUBSET S, Cardinality(U) <= n - 1 PROVE h[U] = g[U]
        BY <1>1, <2>2, <3>2, <3>3
      <3>4. ASSUME NEW T \in SUBSET S, Cardinality(T) <= n, T # {}
            PROVE  /\ T \ {Chosen(T)} \in SUBSET S
                   /\ Cardinality(T \ {Chosen(T)}) <= n - 1
        <4>1. Chosen(T) \in T
          BY <3>4, ChosenIn
        <4>2. Cardinality(T \ {Chosen(T)}) = Cardinality(T) - 1
          BY <1>1, <4>1, FS_RemoveElement
        <4> QED
          BY <1>1, <2>2, <3>4, <4>2
      <3>5. ASSUME NEW T \in SUBSET S, Cardinality(T) <= n PROVE Row(f, g, T) = Row(f, h, T)
        <4> HIDE DEF h
        <4> QED
          BY <3>3, <3>4, <3>5 DEF Row
      <3>6. \A T \in SUBSET S : (IF Cardinality(T) > n THEN 0 ELSE Row(f, g, T))
                                = (IF Cardinality(T) > n THEN 0 ELSE Row(f, h, T))
        <4> HIDE DEF h
        <4> QED
          BY <1>1, <2>2, <3>5
      <3>7. Up(n, h)
        BY <3>6
      <3> QED
        BY <2>2, <3>7
    <2> QED
      BY <2>3, <2>4
  <1>4. PICK g : Up(Cardinality(S), g)
    BY <1>2, <1>3
  <1>5. \A T \in SUBSET S : ~(Cardinality(T) > Cardinality(S))
    BY <1>1, <1>2
  <1>6. IsSumTable(f, S, g)
    BY <1>4, <1>5 DEF IsSumTable
  <1> QED
    BY <1>6

(* Hence the sum over a finite set is the row of a table. *)
LEMMA SumByTable ==
    ASSUME NEW f, NEW S, IsFiniteSet(S)
    PROVE  \E g : IsSumTable(f, S, g) /\ SumFunctionOnSet(f, S) = g[S]
  <1> DEFINE g == CHOOSE h : IsSumTable(f, S, h)
  <1>1. IsSumTable(f, S, g)
    BY TableExists
  <1>2. SumFunctionOnSet(f, S) = g[S]
    BY SumUnfolds
  <1> HIDE DEF g
  <1> QED
    BY <1>1, <1>2

(* Two tables agree wherever both have a row and the functions agree. *)
LEMMA TablesAgree ==
    ASSUME NEW f, NEW g, NEW S, NEW R, NEW tf, NEW tg,
           IsSumTable(f, S, tf), IsSumTable(g, R, tg), R \subseteq S, IsFiniteSet(S),
           \A x \in R : f[x] = g[x]
    PROVE  tf[R] = tg[R]
  <1> DEFINE Fails == {n \in Nat : \E T \in SUBSET R : Cardinality(T) = n /\ tf[T] # tg[T]}
  <1>1. \A T \in SUBSET R : IsFiniteSet(T) /\ Cardinality(T) \in Nat
    BY FS_Subset, FS_CardinalityType
  <1>2. \A T \in SUBSET R : tf[T] = Row(f, tf, T) /\ tg[T] = Row(g, tg, T)
    BY DEF IsSumTable
  <1>3. Fails = {}
    <2> SUFFICES ASSUME Fails # {} PROVE FALSE
      OBVIOUS
    <2>1. PICK n \in Fails : \A m \in Fails : n <= m
      BY LeastNumber
    <2>2. PICK T \in SUBSET R : Cardinality(T) = n /\ tf[T] # tg[T]
      BY <2>1
    <2>3. T # {}
      BY <1>2, <2>2 DEF Row
    <2>4. Chosen(T) \in T
      BY <2>3, ChosenIn
    <2> DEFINE U == T \ {Chosen(T)}
    <2>5. U \in SUBSET R /\ Cardinality(U) = n - 1 /\ n \in Nat
      BY <1>1, <2>2, <2>4, FS_RemoveElement
    <2>6. Cardinality(U) \notin Fails
      <3> HIDE DEF Fails, U
      <3> QED
        BY <2>1, <2>5
    <2>7. tf[U] = tg[U]
      BY <1>1, <2>5, <2>6
    <2> QED
      BY <1>2, <2>2, <2>3, <2>4, <2>7 DEF Row
  <1> QED
    BY <1>1, <1>3

(* The sum depends on the values over S only. *)
LEMMA SumSame ==
    ASSUME NEW S, IsFiniteSet(S), NEW f, NEW g, \A x \in S : f[x] = g[x]
    PROVE  SumFunctionOnSet(f, S) = SumFunctionOnSet(g, S)
  <1>1. PICK tf : IsSumTable(f, S, tf) /\ SumFunctionOnSet(f, S) = tf[S]
    BY SumByTable
  <1>2. PICK tg : IsSumTable(g, S, tg) /\ SumFunctionOnSet(g, S) = tg[S]
    BY SumByTable
  <1> QED
    BY <1>1, <1>2, TablesAgree

(* The sum over the empty set. *)
LEMMA SumEmpty == ASSUME NEW f PROVE SumFunctionOnSet(f, {}) = 0
  <1>1. PICK t : IsSumTable(f, {}, t) /\ SumFunctionOnSet(f, {}) = t[{}]
    BY SumByTable, FS_EmptySet
  <1> QED
    BY <1>1 DEF IsSumTable, Row

(* The sum over a set that is not empty, by the element taken first. *)
LEMMA SumChosen ==
    ASSUME NEW f, NEW S, IsFiniteSet(S), S # {}
    PROVE  SumFunctionOnSet(f, S) =
              f[Chosen(S)] + SumFunctionOnSet(f, S \ {Chosen(S)})
  <1> DEFINE R == S \ {Chosen(S)}
  <1>1. PICK t : IsSumTable(f, S, t) /\ SumFunctionOnSet(f, S) = t[S]
    BY SumByTable
  <1>2. R \subseteq S /\ IsFiniteSet(R)
    BY FS_Subset
  <1>3. PICK r : IsSumTable(f, R, r) /\ SumFunctionOnSet(f, R) = r[R]
    BY <1>2, SumByTable
  <1>4. t[R] = r[R]
    <2> HIDE DEF R
    <2> QED
      BY <1>1, <1>2, <1>3, TablesAgree
  <1>5. t[S] = f[Chosen(S)] + t[R]
    BY <1>1 DEF IsSumTable, Row
  <1> QED
    BY <1>1, <1>3, <1>4, <1>5

(* A sum of integers is an integer. *)
LEMMA SumType ==
    ASSUME NEW f, NEW S, IsFiniteSet(S), \A x \in S : f[x] \in Int
    PROVE  SumFunctionOnSet(f, S) \in Int
  <1> DEFINE Sum(T) == SumFunctionOnSet(f, T)
             Fails == {n \in Nat : \E T \in SUBSET S : Cardinality(T) = n /\ Sum(T) \notin Int}
  <1>1. \A T \in SUBSET S : IsFiniteSet(T) /\ Cardinality(T) \in Nat
    BY FS_Subset, FS_CardinalityType
  <1>2. Fails = {}
    <2> SUFFICES ASSUME Fails # {} PROVE FALSE
      OBVIOUS
    <2>1. PICK n \in Fails : \A m \in Fails : n <= m
      BY LeastNumber
    <2>2. PICK T \in SUBSET S : Cardinality(T) = n /\ Sum(T) \notin Int
      BY <2>1
    <2>3. T # {}
      BY <2>2, SumEmpty
    <2>4. Chosen(T) \in T
      BY <2>3, ChosenIn
    <2> DEFINE U == T \ {Chosen(T)}
    <2>5. U \in SUBSET S /\ Cardinality(U) = n - 1 /\ n \in Nat
      BY <1>1, <2>2, <2>4, FS_RemoveElement
    <2>6. Cardinality(U) \notin Fails
      <3> HIDE DEF Fails, U
      <3> QED
        BY <2>1, <2>5
    <2>7. Sum(U) \in Int
      BY <1>1, <2>5, <2>6
    <2>8. Sum(T) = f[Chosen(T)] + Sum(U)
      BY <1>1, <2>3, SumChosen
    <2> QED
      BY <2>2, <2>4, <2>7, <2>8
  <1> QED
    BY <1>1, <1>2

(* Any element may be taken out first. *)
LEMMA SumRemove ==
    ASSUME NEW f, NEW S, IsFiniteSet(S), \A y \in S : f[y] \in Int, NEW x \in S
    PROVE  SumFunctionOnSet(f, S) = f[x] + SumFunctionOnSet(f, S \ {x})
  <1> DEFINE Sum(T) == SumFunctionOnSet(f, T)
             Good(T) == \A y \in T : Sum(T) = f[y] + Sum(T \ {y})
             Fails == {n \in Nat : \E T \in SUBSET S : Cardinality(T) = n /\ ~Good(T)}
  <1>1. \A T \in SUBSET S : IsFiniteSet(T) /\ Cardinality(T) \in Nat /\ Sum(T) \in Int
    <2> TAKE T \in SUBSET S
    <2>1. IsFiniteSet(T) /\ Cardinality(T) \in Nat
      BY FS_Subset, FS_CardinalityType
    <2> QED
      BY <2>1, SumType
  <1> HIDE DEF Sum
  <1>2. Fails = {}
    <2> SUFFICES ASSUME Fails # {} PROVE FALSE
      OBVIOUS
    <2>1. PICK n \in Fails : \A m \in Fails : n <= m
      BY LeastNumber
    <2>2. PICK T \in SUBSET S : Cardinality(T) = n /\ ~Good(T)
      BY <2>1
    <2>3. PICK y \in T : Sum(T) # f[y] + Sum(T \ {y})
      BY <2>2
    <2> DEFINE c == Chosen(T)
    <2>4. c \in T /\ Sum(T) = f[c] + Sum(T \ {c})
      BY <1>1, ChosenIn, SumChosen DEF Sum
    <2> HIDE DEF c
    <2>5. y # c
      BY <2>3, <2>4
    <2>6. ASSUME NEW z \in T PROVE Good(T \ {z})
      <3>1. T \ {z} \in SUBSET S /\ Cardinality(T \ {z}) = n - 1 /\ n \in Nat
        BY <1>1, <2>2, <2>6, FS_RemoveElement
      <3>2. n - 1 \notin Fails
        BY <2>1, <3>1
      <3> HIDE DEF Good
      <3> QED
        BY <1>1, <3>1, <3>2
    <2>7. /\ Sum(T \ {c}) = f[y] + Sum((T \ {c}) \ {y})
          /\ Sum(T \ {y}) = f[c] + Sum((T \ {y}) \ {c})
      <3>1. y \in T \ {c} /\ c \in T \ {y}
        BY <2>4, <2>5
      <3> QED
        BY <2>4, <2>6, <3>1
    <2>8. (T \ {c}) \ {y} = (T \ {y}) \ {c} /\ (T \ {c}) \ {y} \in SUBSET S
      OBVIOUS
    <2>9. f[y] \in Int /\ f[c] \in Int /\ Sum((T \ {c}) \ {y}) \in Int
      BY <1>1, <2>4, <2>8
    <2> QED
      BY <2>3, <2>4, <2>7, <2>8, <2>9
  <1>3. Good(S)
    <2> HIDE DEF Good
    <2> QED
      BY <1>1, <1>2
  <1> QED
    BY <1>3 DEF Sum

(* One element more. *)
LEMMA SumAdd ==
    ASSUME NEW f, NEW S, IsFiniteSet(S), NEW x, x \notin S,
           \A y \in S \cup {x} : f[y] \in Int
    PROVE  SumFunctionOnSet(f, S \cup {x}) = f[x] + SumFunctionOnSet(f, S)
  <1>1. IsFiniteSet(S \cup {x}) /\ x \in S \cup {x} /\ (S \cup {x}) \ {x} = S
    BY FS_AddElement
  <1>2. SumFunctionOnSet(f, S \cup {x}) = f[x] + SumFunctionOnSet(f, (S \cup {x}) \ {x})
    <2> DEFINE R == S \cup {x}
    <2> HIDE DEF R
    <2>1. IsFiniteSet(R) /\ x \in R /\ \A y \in R : f[y] \in Int
      BY <1>1 DEF R
    <2>2. SumFunctionOnSet(f, R) = f[x] + SumFunctionOnSet(f, R \ {x})
      BY <2>1, SumRemove
    <2> QED
      BY <2>2 DEF R
  <1> QED
    BY <1>1, <1>2

(* A sum of zeros is zero. *)
LEMMA SumZero ==
    ASSUME NEW f, NEW S, IsFiniteSet(S), \A x \in S : f[x] = 0
    PROVE  SumFunctionOnSet(f, S) = 0
  <1> DEFINE Sum(T) == SumFunctionOnSet(f, T)
             Fails == {n \in Nat : \E T \in SUBSET S : Cardinality(T) = n /\ Sum(T) # 0}
  <1>1. \A T \in SUBSET S : IsFiniteSet(T) /\ Cardinality(T) \in Nat
    BY FS_Subset, FS_CardinalityType
  <1>2. Fails = {}
    <2> SUFFICES ASSUME Fails # {} PROVE FALSE
      OBVIOUS
    <2>1. PICK n \in Fails : \A m \in Fails : n <= m
      BY LeastNumber
    <2>2. PICK T \in SUBSET S : Cardinality(T) = n /\ Sum(T) # 0
      BY <2>1
    <2>3. T # {}
      BY <2>2, SumEmpty
    <2>4. Chosen(T) \in T
      BY <2>3, ChosenIn
    <2> DEFINE U == T \ {Chosen(T)}
    <2>5. U \in SUBSET S /\ Cardinality(U) = n - 1 /\ n \in Nat
      BY <1>1, <2>2, <2>4, FS_RemoveElement
    <2>6. Cardinality(U) \notin Fails
      <3> HIDE DEF Fails, U
      <3> QED
        BY <2>1, <2>5
    <2>7. Sum(U) = 0
      BY <1>1, <2>5, <2>6
    <2>8. Sum(T) = f[Chosen(T)] + Sum(U)
      BY <1>1, <2>3, SumChosen
    <2> QED
      BY <2>2, <2>4, <2>7, <2>8
  <1> QED
    BY <1>1, <1>2

(* A nonempty set of integers that is bounded above has a largest element. *)
LEMMA LargestNumber ==
    ASSUME NEW S, S \subseteq Int, S # {}, NEW b \in Int, \A x \in S : x <= b
    PROVE  \E n \in S : \A m \in S : m <= n
  <1> DEFINE N == {b - x : x \in S}
  <1>1. \A x \in S : x \in Int /\ b - x \in Nat
    OBVIOUS
  <1>2. N \subseteq Nat /\ N # {}
    BY <1>1
  <1>3. PICK d \in N : \A m \in N : d <= m
    BY <1>2, LeastNumber
  <1>4. PICK n \in S : d = b - n
    BY <1>3
  <1>5. ASSUME NEW m \in S PROVE m <= n
    <2>1. d <= b - m
      BY <1>3
    <2>2. m \in Int /\ n \in Int
      BY <1>1
    <2> HIDE DEF N
    <2> QED
      BY <1>4, <2>1, <2>2
  <1> QED
    BY <1>5

(* One value changes, and the sum by the difference. *)
LEMMA SumUpdate ==
    ASSUME NEW S, IsFiniteSet(S), NEW f, NEW g, NEW x \in S,
           \A y \in S : f[y] \in Int /\ g[y] \in Int,
           \A y \in S \ {x} : g[y] = f[y]
    PROVE  SumFunctionOnSet(g, S) = SumFunctionOnSet(f, S) + (g[x] - f[x])
  <1> DEFINE R == S \ {x}
             rest == SumFunctionOnSet(f, R)
  <1>1. IsFiniteSet(R)
    BY FS_Subset
  <1>2. SumFunctionOnSet(g, R) = rest
    BY <1>1, SumSame
  <1>3. SumFunctionOnSet(g, S) = g[x] + SumFunctionOnSet(g, R)
    BY SumRemove
  <1>4. SumFunctionOnSet(f, S) = f[x] + rest
    BY SumRemove
  <1>5. rest \in Int
    BY <1>1, SumType
  <1> HIDE DEF rest
  <1> QED
    BY <1>2, <1>3, <1>4, <1>5

(* Elements whose value is zero may be left out. *)
LEMMA SumSupport ==
    ASSUME NEW S, IsFiniteSet(S), NEW f, \A y \in S : f[y] \in Int,
           NEW R \in SUBSET S, \A y \in S \ R : f[y] = 0
    PROVE  SumFunctionOnSet(f, S) = SumFunctionOnSet(f, R)
  <1> DEFINE Sum(T) == SumFunctionOnSet(f, T)
             Fails == {n \in Nat : \E T \in SUBSET S :
                          R \subseteq T /\ Cardinality(T) = n /\ Sum(T) # Sum(R)}
  <1>1. \A T \in SUBSET S : IsFiniteSet(T) /\ Cardinality(T) \in Nat
    BY FS_Subset, FS_CardinalityType
  <1>2. Fails = {}
    <2> SUFFICES ASSUME Fails # {} PROVE FALSE
      OBVIOUS
    <2>1. PICK n \in Fails : \A m \in Fails : n <= m
      BY LeastNumber
    <2>2. PICK T \in SUBSET S : R \subseteq T /\ Cardinality(T) = n /\ Sum(T) # Sum(R)
      BY <2>1
    <2>3. PICK x \in T : x \notin R
      BY <2>2
    <2>4. Sum(T) = f[x] + Sum(T \ {x})
      BY <1>1, SumRemove
    <2>5. f[x] = 0 /\ Sum(T \ {x}) \in Int
      <3>1. IsFiniteSet(T \ {x})
        BY <1>1
      <3> QED
        BY <2>3, <3>1, SumType
    <2>6. Cardinality(T \ {x}) = n - 1 /\ n \in Nat
      BY <1>1, <2>2, FS_RemoveElement
    <2>7. T \ {x} \in SUBSET S /\ R \subseteq T \ {x}
      BY <2>2, <2>3
    <2>8. Cardinality(T \ {x}) \in Nat
      BY <1>1, <2>7
    <2> HIDE DEF Sum
    <2>9. Sum(T \ {x}) # Sum(R)
      BY <2>2, <2>4, <2>5
    <2>10. n - 1 \in Fails
      BY <2>6, <2>7, <2>8, <2>9
    <2> QED
      BY <2>1, <2>6, <2>10
  <1>3. Cardinality(S) \notin Fails /\ Cardinality(S) \in Nat
    BY <1>1, <1>2
  <1> HIDE DEF Sum
  <1>4. Sum(S) = Sum(R)
    BY <1>3
  <1> QED
    BY <1>4 DEF Sum
=============================================================================
