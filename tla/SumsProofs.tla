------------------------------- MODULE SumsProofs -------------------------------
(***************************************************************************)
(* Sums over finite sets of rows.  The models write them with              *)
(* MapThenSumSet of the community modules, a fold in an order that nobody  *)
(* knows.  The lemmas below say what a reader takes for granted: the order *)
(* does not matter, a row adds what it has, sets that do not meet add up.  *)
(*                                                                         *)
(* The library's induction theorems have operators as parameters, which    *)
(* the provers do not instantiate.  So induction is over sets here: a      *)
(* property is the set of those who have it.                               *)
(***************************************************************************)
EXTENDS Integers, FiniteSets, FiniteSetsExt, FiniteSetTheorems, WellFoundedInduction, TLAPS

\* The fold, for a function.
SumOf(f, S) == MapThenSumSet(LAMBDA x : f[x], S)

-----------------------------------------------------------------------------
(* Induction *)

LEMMA LeastOf ==
    ASSUME NEW S, S \subseteq Nat, S # {}
    PROVE  \E n \in S : \A m \in S : n <= m
<1> DEFINE R == OpToRel(<, Nat)
<1>1. PICK n \in S : \A m \in S : ~(<<m, n>> \in R)
    BY NatLessThanWellFounded, WFMin
<1>2. \A m \in S : <<m, n>> \in R <=> m < n
    BY DEF OpToRel
<1>3. ASSUME NEW m \in S PROVE n <= m
    <2>1. ~(m < n)
        BY <1>1, <1>2, Zenon
    <2> QED BY <2>1
<1> QED BY <1>3

\* Induction over the numbers.
LEMMA EveryNumber ==
    ASSUME NEW P, 0 \in P, \A n \in Nat : n \in P => n + 1 \in P
    PROVE  \A n \in Nat : n \in P
<1> SUFFICES ASSUME NEW k \in Nat, k \notin P PROVE FALSE
    OBVIOUS
<1> DEFINE Without == {n \in Nat : n \notin P}
<1>1. PICK n \in Without : \A m \in Without : n <= m
    BY LeastOf
<1>2. n # 0 /\ n - 1 \in Nat /\ n - 1 \notin Without
    BY <1>1
<1> QED BY <1>1, <1>2

\* Induction over the subsets of a finite set, one element after the other.
LEMMA EverySubset ==
    ASSUME NEW S, IsFiniteSet(S), NEW P, {} \in P,
           \A T \in SUBSET S : \A x \in S \ T : T \in P => T \cup {x} \in P
    PROVE  \A T \in SUBSET S : T \in P
<1> DEFINE N == {n \in Nat : \A T \in SUBSET S : Cardinality(T) = n => T \in P}
<1>1. ASSUME NEW T \in SUBSET S PROVE IsFiniteSet(T) /\ Cardinality(T) \in Nat
    BY FS_Subset, FS_CardinalityType
<1>2. 0 \in N
    BY <1>1, FS_EmptySet
<1>3. ASSUME NEW n \in Nat, n \in N PROVE n + 1 \in N
    <2> SUFFICES ASSUME NEW T \in SUBSET S, Cardinality(T) = n + 1 PROVE T \in P
        OBVIOUS
    <2>1. T # {}
        BY <1>1, FS_EmptySet
    <2>2. PICK x \in T : TRUE
        BY <2>1
    <2> DEFINE U == T \ {x}
    <2>3. U \in SUBSET S /\ x \in S \ U /\ T = U \cup {x}
        OBVIOUS
    <2>4. Cardinality(U) = n
        <3>1. Cardinality(U) = Cardinality(T) - 1
            BY <1>1, FS_RemoveElement
        <3> QED BY <3>1
    <2>5. U \in P
        BY <1>3, <2>3, <2>4
    <2> QED BY <2>3, <2>5
<1>4. \A n \in Nat : n \in N
    <2> HIDE DEF N
    <2> QED BY <1>2, <1>3, EveryNumber
<1> QED BY <1>1, <1>4

LEMMA GreatestOf ==
    ASSUME NEW S, IsFiniteSet(S), S \subseteq Nat, S # {}
    PROVE  \E n \in S : \A m \in S : m <= n
<1> DEFINE P == {T \in SUBSET S : T # {} => \E n \in T : \A m \in T : m <= n}
<1>1. {} \in P
    OBVIOUS
<1>2. ASSUME NEW T \in SUBSET S, NEW x \in S \ T, T \in P PROVE T \cup {x} \in P
    <2>1. CASE T = {}
        BY <2>1
    <2>2. CASE T # {}
        <3>1. PICK n \in T : \A m \in T : m <= n
            BY <1>2, <2>2
        <3>2. x \in Nat /\ n \in Nat /\ \A m \in T : m \in Nat
            OBVIOUS
        <3>3. CASE x <= n
            BY <3>1, <3>3
        <3>4. CASE ~(x <= n)
            <4>1. \A m \in T \cup {x} : m <= x
                BY <3>1, <3>2, <3>4
            <4> QED BY <4>1
        <3> QED BY <3>3, <3>4
    <2> QED BY <2>1, <2>2
<1>3. \A T \in SUBSET S : T \in P
    <2> HIDE DEF P
    <2> QED BY <1>1, <1>2, EverySubset
<1> QED BY <1>3

-----------------------------------------------------------------------------
(* The fold takes one element after the other *)

\* The element that the fold takes first.
First(S) == CHOOSE x \in S : TRUE

\* `it` gives the sum of every set in D, which has with a set all that is left
\* of it on the way.
Recurs(it, f, D) ==
    it = [S \in D |-> IF S = {} THEN 0 ELSE f[First(S)] + it[S \ {First(S)}]]

LEMMA FirstIn == ASSUME NEW S, S # {} PROVE First(S) \in S
BY DEF First

LEMMA SumsExist ==
    ASSUME NEW f, NEW S, IsFiniteSet(S)
    PROVE  \E it : Recurs(it, f, SUBSET S)
<1> DEFINE Upto(n) == {T \in SUBSET S : Cardinality(T) <= n}
           N == {n \in Nat : \E it : Recurs(it, f, Upto(n))}
<1>0. ASSUME NEW T \in SUBSET S PROVE IsFiniteSet(T) /\ Cardinality(T) \in Nat
    BY FS_Subset, FS_CardinalityType
<1>1. 0 \in N
    <2> DEFINE it == [T \in Upto(0) |-> 0]
    <2>1. Upto(0) = {{}}
        BY <1>0, FS_EmptySet
    <2>2. Recurs(it, f, Upto(0))
        BY <2>1 DEF Recurs
    <2> QED BY <2>2
<1>2. ASSUME NEW n \in Nat, n \in N PROVE n + 1 \in N
    <2>1. PICK it : Recurs(it, f, Upto(n))
        BY <1>2
    <2> DEFINE More == [T \in Upto(n + 1) |->
                           IF T = {} THEN 0 ELSE f[First(T)] + it[T \ {First(T)}]]
    <2>2. ASSUME NEW T \in Upto(n + 1), T # {}
          PROVE  T \ {First(T)} \in Upto(n)
        BY <1>0, <2>2, FirstIn, FS_RemoveElement
    <2>3. ASSUME NEW T \in Upto(n) PROVE More[T] = it[T]
        <3>1. T \in Upto(n + 1)
            BY <1>0
        <3> QED BY <2>1, <3>1 DEF Recurs
    <2>4. Recurs(More, f, Upto(n + 1))
        BY <2>2, <2>3 DEF Recurs
    <2>5. \E jt : Recurs(jt, f, Upto(n + 1))
        <3> HIDE DEF More, Upto
        <3> QED BY <2>4
    <2>6. n + 1 \in Nat
        OBVIOUS
    <2> HIDE DEF More, Upto
    <2> QED BY <2>5, <2>6
<1>3. Cardinality(S) \in N
    <2> HIDE DEF N
    <2> QED BY <1>0, <1>1, <1>2, EveryNumber
<1>4. Upto(Cardinality(S)) = SUBSET S
    BY <1>0, FS_Subset
<1> QED BY <1>3, <1>4

LEMMA SumIsFold ==
    ASSUME NEW f, NEW S, IsFiniteSet(S)
    PROVE  \E it : Recurs(it, f, SUBSET S) /\ SumOf(f, S) = it[S]
<1> DEFINE it == CHOOSE g : Recurs(g, f, SUBSET S)
<1>1. Recurs(it, f, SUBSET S)
    BY SumsExist
<1>2. SumOf(f, S) = it[S]
    BY DEF SumOf, MapThenSumSet, MapThenFoldSet, Recurs, First
<1> QED BY <1>1, <1>2

\* The fold over a set goes through the same numbers as that over a larger one.
LEMMA SameSums ==
    ASSUME NEW f, NEW g, NEW S, IsFiniteSet(S), NEW it, NEW jt, NEW D, SUBSET S \subseteq D,
           Recurs(it, f, SUBSET S), Recurs(jt, g, D), \A x \in S : f[x] = g[x]
    PROVE  it[S] = jt[S]
<1> DEFINE N == {n \in Nat : \A T \in SUBSET S : Cardinality(T) = n => it[T] = jt[T]}
<1>0. ASSUME NEW T \in SUBSET S PROVE IsFiniteSet(T) /\ Cardinality(T) \in Nat
    BY FS_Subset, FS_CardinalityType
<1>1. 0 \in N
    BY <1>0, FS_EmptySet DEF Recurs
<1>2. ASSUME NEW n \in Nat, n \in N PROVE n + 1 \in N
    <2> SUFFICES ASSUME NEW T \in SUBSET S, Cardinality(T) = n + 1 PROVE it[T] = jt[T]
        OBVIOUS
    <2>1. T # {}
        BY <1>0, FS_EmptySet
    <2>2. First(T) \in T
        BY <2>1, FirstIn
    <2>4. Cardinality(T \ {First(T)}) = n
        <3>1. Cardinality(T \ {First(T)}) = Cardinality(T) - 1
            BY <1>0, <2>2, FS_RemoveElement
        <3> QED BY <3>1
    <2>3. it[T \ {First(T)}] = jt[T \ {First(T)}]
        BY <1>2, <2>4
    <2>5. T \in D
        OBVIOUS
    <2>6. it[T] = f[First(T)] + it[T \ {First(T)}]
        BY <2>1 DEF Recurs
    <2>7. jt[T] = g[First(T)] + jt[T \ {First(T)}]
        BY <2>1, <2>5 DEF Recurs
    <2> QED BY <2>2, <2>3, <2>6, <2>7
<1>3. \A n \in Nat : n \in N
    <2> HIDE DEF N
    <2> QED BY <1>1, <1>2, EveryNumber
<1> QED BY <1>0, <1>3

LEMMA SumEmpty ==
    ASSUME NEW f
    PROVE  SumOf(f, {}) = 0
<1>1. PICK it : Recurs(it, f, SUBSET {}) /\ SumOf(f, {}) = it[{}]
    BY SumIsFold, FS_EmptySet
<1> QED BY <1>1 DEF Recurs

LEMMA SumFirst ==
    ASSUME NEW f, NEW S, IsFiniteSet(S), S # {}
    PROVE  SumOf(f, S) = f[First(S)] + SumOf(f, S \ {First(S)})
<1> DEFINE T == S \ {First(S)}
<1>1. PICK it : Recurs(it, f, SUBSET S) /\ SumOf(f, S) = it[S]
    BY SumIsFold
<1>2. IsFiniteSet(T) /\ SUBSET T \subseteq SUBSET S
    BY FS_Subset
<1>3. PICK jt : Recurs(jt, f, SUBSET T) /\ SumOf(f, T) = jt[T]
    BY <1>2, SumIsFold
<1>4. jt[T] = it[T]
    <2> HIDE DEF T
    <2> QED BY <1>1, <1>2, <1>3, SameSums
<1> QED BY <1>1, <1>3, <1>4 DEF Recurs

\* A sum depends on what the rows of its set have, and on nothing else.
LEMMA SumSame ==
    ASSUME NEW f, NEW g, NEW S, IsFiniteSet(S), \A x \in S : f[x] = g[x]
    PROVE  SumOf(f, S) = SumOf(g, S)
<1>1. PICK it : Recurs(it, f, SUBSET S) /\ SumOf(f, S) = it[S]
    BY SumIsFold
<1>2. PICK jt : Recurs(jt, g, SUBSET S) /\ SumOf(g, S) = jt[S]
    BY SumIsFold
<1> QED BY <1>1, <1>2, SameSums

-----------------------------------------------------------------------------
(* What a reader takes for granted *)

LEMMA SumInt ==
    ASSUME NEW f, NEW S, IsFiniteSet(S), \A x \in S : f[x] \in Int
    PROVE  SumOf(f, S) \in Int
<1> DEFINE N == {n \in Nat : \A T \in SUBSET S : Cardinality(T) = n => SumOf(f, T) \in Int}
<1>0. ASSUME NEW T \in SUBSET S PROVE IsFiniteSet(T) /\ Cardinality(T) \in Nat
    BY FS_Subset, FS_CardinalityType
<1>1. 0 \in N
    BY <1>0, FS_EmptySet, SumEmpty
<1>2. ASSUME NEW n \in Nat, n \in N PROVE n + 1 \in N
    <2> SUFFICES ASSUME NEW T \in SUBSET S, Cardinality(T) = n + 1 PROVE SumOf(f, T) \in Int
        OBVIOUS
    <2>1. T # {}
        BY <1>0, FS_EmptySet
    <2>2. First(T) \in T
        BY <2>1, FirstIn
    <2>3. Cardinality(T \ {First(T)}) = Cardinality(T) - 1
        BY <1>0, <2>2, FS_RemoveElement
    <2>4. SumOf(f, T \ {First(T)}) \in Int
        BY <1>2, <2>3
    <2>5. SumOf(f, T) = f[First(T)] + SumOf(f, T \ {First(T)})
        BY <1>0, <2>1, SumFirst
    <2> QED BY <2>2, <2>4, <2>5
<1>3. \A n \in Nat : n \in N
    <2> HIDE DEF N
    <2> QED BY <1>1, <1>2, EveryNumber
<1> QED BY <1>0, <1>3

\* The order does not matter: any row may be the first.
LEMMA SumRemove ==
    ASSUME NEW f, NEW S, IsFiniteSet(S), \A x \in S : f[x] \in Int, NEW x \in S
    PROVE  SumOf(f, S) = f[x] + SumOf(f, S \ {x})
<1> DEFINE Any(T) == \A y \in T : SumOf(f, T) = f[y] + SumOf(f, T \ {y})
           N == {n \in Nat : \A T \in SUBSET S : Cardinality(T) = n => Any(T)}
<1>0. ASSUME NEW T \in SUBSET S
      PROVE  IsFiniteSet(T) /\ Cardinality(T) \in Nat /\ SumOf(f, T) \in Int
    BY FS_Subset, FS_CardinalityType, SumInt
<1>1. 0 \in N
    BY <1>0, FS_EmptySet
<1>2. ASSUME NEW n \in Nat, n \in N PROVE n + 1 \in N
    <2> SUFFICES ASSUME NEW T \in SUBSET S, Cardinality(T) = n + 1, NEW y \in T,
                        y # First(T)
                 PROVE  SumOf(f, T) = f[y] + SumOf(f, T \ {y})
        BY <1>0, SumFirst
    <2> DEFINE c == First(T)
    <2>1. c \in T
        BY FirstIn
    <2>2. /\ Cardinality(T \ {c}) = Cardinality(T) - 1
          /\ Cardinality(T \ {y}) = Cardinality(T) - 1
        BY <1>0, <2>1, FS_RemoveElement
    <2>3. Any(T \ {c}) /\ Any(T \ {y})
        BY <1>2, <2>2
    <2>4. SumOf(f, T) = f[c] + SumOf(f, T \ {c})
        BY <1>0, <2>1, SumFirst
    <2>5. /\ SumOf(f, T \ {c}) = f[y] + SumOf(f, (T \ {c}) \ {y})
          /\ SumOf(f, T \ {y}) = f[c] + SumOf(f, (T \ {y}) \ {c})
        BY <2>1, <2>3
    <2>6. SumOf(f, (T \ {c}) \ {y}) = SumOf(f, (T \ {y}) \ {c})
        <3>1. (T \ {c}) \ {y} = (T \ {y}) \ {c}
            OBVIOUS
        <3> QED BY <3>1
    <2>7. f[c] \in Int /\ f[y] \in Int /\ SumOf(f, (T \ {y}) \ {c}) \in Int
        BY <1>0, <2>1
    <2> HIDE DEF c
    <2>8. ASSUME NEW a \in Int, NEW b \in Int, NEW r \in Int,
                 NEW l, NEW m, NEW k, l = b + m, m = a + r, k = b + r
          PROVE  l = a + k
        BY <2>8
    <2> QED BY <2>4, <2>5, <2>6, <2>7, <2>8
<1>3. \A n \in Nat : n \in N
    <2> HIDE DEF N
    <2> QED BY <1>1, <1>2, EveryNumber
<1> QED BY <1>0, <1>3

LEMMA SumAdd ==
    ASSUME NEW f, NEW S, IsFiniteSet(S), NEW x, x \notin S,
           \A y \in S \cup {x} : f[y] \in Int
    PROVE  SumOf(f, S \cup {x}) = f[x] + SumOf(f, S)
<1>1. IsFiniteSet(S \cup {x}) /\ (S \cup {x}) \ {x} = S
    BY FS_AddElement
<1> QED BY <1>1, SumRemove

\* Sums of sets that do not meet add up.
LEMMA SumUnion ==
    ASSUME NEW f, NEW S, IsFiniteSet(S), NEW R, IsFiniteSet(R), S \cap R = {},
           \A x \in S \cup R : f[x] \in Int
    PROVE  SumOf(f, S \cup R) = SumOf(f, S) + SumOf(f, R)
<1> DEFINE P == {T \in SUBSET S : SumOf(f, T \cup R) = SumOf(f, T) + SumOf(f, R)}
<1>0. ASSUME NEW T \in SUBSET S
      PROVE  /\ IsFiniteSet(T) /\ IsFiniteSet(T \cup R)
             /\ SumOf(f, T) \in Int /\ SumOf(f, T \cup R) \in Int
    <2>1. IsFiniteSet(T)
        BY FS_Subset
    <2>2. IsFiniteSet(T \cup R)
        BY <2>1, FS_Union
    <2> QED BY <2>1, <2>2, SumInt
<1>1. {} \in P
    <2>1. {} \cup R = R
        OBVIOUS
    <2>2. SumOf(f, R) \in Int
        BY SumInt
    <2> QED BY <2>1, <2>2, SumEmpty
<1>2. ASSUME NEW T \in SUBSET S, NEW x \in S \ T, T \in P PROVE T \cup {x} \in P
    <2>1. x \notin T \cup R
        OBVIOUS
    <2>6. SumOf(f, (T \cup {x}) \cup R) = SumOf(f, (T \cup R) \cup {x})
        <3>1. (T \cup {x}) \cup R = (T \cup R) \cup {x}
            OBVIOUS
        <3> QED BY <3>1
    <2>2. SumOf(f, (T \cup R) \cup {x}) = f[x] + SumOf(f, T \cup R)
        BY <1>0, <2>1, SumAdd
    <2>3. SumOf(f, T \cup {x}) = f[x] + SumOf(f, T)
        BY <1>0, SumAdd
    <2>4. f[x] \in Int /\ SumOf(f, T) \in Int /\ SumOf(f, R) \in Int
        BY <1>0, SumInt
    <2>5. SumOf(f, (T \cup {x}) \cup R) = SumOf(f, T \cup {x}) + SumOf(f, R)
        <3>1. SumOf(f, T \cup R) = SumOf(f, T) + SumOf(f, R)
            BY <1>2
        <3> QED BY <3>1, <2>2, <2>3, <2>4, <2>6
    <2> QED BY <2>5
<1>3. \A T \in SUBSET S : T \in P
    <2> HIDE DEF P
    <2> QED BY <1>1, <1>2, EverySubset
<1> QED BY <1>3

\* Rows with less have the smaller sum.
LEMMA SumAtMost ==
    ASSUME NEW f, NEW g, NEW S, IsFiniteSet(S),
           \A x \in S : f[x] \in Int /\ g[x] \in Int /\ f[x] <= g[x]
    PROVE  SumOf(f, S) <= SumOf(g, S)
<1> DEFINE P == {T \in SUBSET S : SumOf(f, T) <= SumOf(g, T)}
<1>0. ASSUME NEW T \in SUBSET S
      PROVE  IsFiniteSet(T) /\ SumOf(f, T) \in Int /\ SumOf(g, T) \in Int
    BY FS_Subset, SumInt
<1>1. {} \in P
    BY SumEmpty
<1>2. ASSUME NEW T \in SUBSET S, NEW x \in S \ T, T \in P PROVE T \cup {x} \in P
    <2>1. /\ SumOf(f, T \cup {x}) = f[x] + SumOf(f, T)
          /\ SumOf(g, T \cup {x}) = g[x] + SumOf(g, T)
        BY <1>0, SumAdd
    <2>2. SumOf(f, T) <= SumOf(g, T)
        BY <1>2
    <2>3. SumOf(f, T \cup {x}) <= SumOf(g, T \cup {x})
        BY <1>0, <2>1, <2>2
    <2> QED BY <2>3
<1>3. S \in P
    <2> HIDE DEF P
    <2> QED BY <1>1, <1>2, EverySubset
<1> QED BY <1>3

LEMMA SumConstant ==
    ASSUME NEW S, IsFiniteSet(S), NEW k \in Int
    PROVE  SumOf([x \in S |-> k], S) = k * Cardinality(S)
<1> DEFINE f == [x \in S |-> k]
           P == {T \in SUBSET S : SumOf(f, T) = k * Cardinality(T)}
<1>0. ASSUME NEW T \in SUBSET S
      PROVE  IsFiniteSet(T) /\ Cardinality(T) \in Nat
    BY FS_Subset, FS_CardinalityType
<1>1. {} \in P
    <2>1. k * 0 = 0
        OBVIOUS
    <2> QED BY <2>1, SumEmpty, FS_EmptySet
<1>2. ASSUME NEW T \in SUBSET S, NEW x \in S \ T, T \in P PROVE T \cup {x} \in P
    <2>1. SumOf(f, T \cup {x}) = k + SumOf(f, T)
        BY <1>0, SumAdd
    <2>2. Cardinality(T \cup {x}) = Cardinality(T) + 1
        BY <1>0, FS_AddElement
    <2>3. SumOf(f, T) = k * Cardinality(T) /\ Cardinality(T) \in Nat
        BY <1>0, <1>2
    <2>4. k * (Cardinality(T) + 1) = k * Cardinality(T) + k
        BY <2>3
    <2>5. k * Cardinality(T) \in Int
        BY <2>3
    <2>6. SumOf(f, T \cup {x}) = k * Cardinality(T \cup {x})
        BY <2>1, <2>2, <2>3, <2>4, <2>5
    <2> QED BY <2>6
<1>3. S \in P
    <2> HIDE DEF P
    <2> QED BY <1>1, <1>2, EverySubset
<1> QED BY <1>3

\* Of rows that have at most k each.
LEMMA SumBound ==
    ASSUME NEW f, NEW S, IsFiniteSet(S), NEW k \in Int,
           \A x \in S : f[x] \in Int /\ f[x] <= k
    PROVE  SumOf(f, S) <= k * Cardinality(S)
<1> DEFINE g == [x \in S |-> k]
<1>1. SumOf(f, S) <= SumOf(g, S)
    BY SumAtMost
<1> QED BY <1>1, SumConstant

LEMMA SumZero ==
    ASSUME NEW f, NEW S, IsFiniteSet(S), \A x \in S : f[x] = 0
    PROVE  SumOf(f, S) = 0
<1>1. SumOf(f, S) = SumOf([x \in S |-> 0], S)
    BY SumSame
<1>2. SumOf([x \in S |-> 0], S) = 0 * Cardinality(S)
    <2>1. \A k \in Int : SumOf([x \in S |-> k], S) = k * Cardinality(S)
        BY SumConstant
    <2>2. 0 \in Int
        OBVIOUS
    <2> QED BY <2>1, <2>2, Zenon
<1>3. 0 * Cardinality(S) = 0
    BY FS_CardinalityType
<1> QED BY <1>1, <1>2, <1>3

LEMMA SumNat ==
    ASSUME NEW f, NEW S, IsFiniteSet(S), \A x \in S : f[x] \in Nat
    PROVE  SumOf(f, S) \in Nat
<1> DEFINE g == [x \in S |-> 0]
<1>1. SumOf(g, S) <= SumOf(f, S)
    BY SumAtMost
<1>2. SumOf(g, S) = 0
    BY SumZero
<1>3. SumOf(f, S) \in Int
    BY SumInt
<1> QED BY <1>1, <1>2, <1>3

\* A part has no more than the whole.
LEMMA SumPart ==
    ASSUME NEW f, NEW S, IsFiniteSet(S), \A x \in S : f[x] \in Nat, NEW T \in SUBSET S
    PROVE  SumOf(f, T) <= SumOf(f, S)
<1>1. IsFiniteSet(T) /\ IsFiniteSet(S \ T)
    BY FS_Subset
<1>2. SumOf(f, S) = SumOf(f, T) + SumOf(f, S \ T)
    <2>1. SumOf(f, T \cup (S \ T)) = SumOf(f, T) + SumOf(f, S \ T)
        BY <1>1, SumUnion
    <2>2. T \cup (S \ T) = S
        OBVIOUS
    <2> QED BY <2>1, <2>2
<1>3. SumOf(f, T) \in Nat /\ SumOf(f, S \ T) \in Nat
    BY <1>1, SumNat
<1> QED BY <1>2, <1>3

\* One row changes.
LEMMA SumChange ==
    ASSUME NEW f, NEW g, NEW S, IsFiniteSet(S), \A y \in S : f[y] \in Int /\ g[y] \in Int,
           NEW x \in S, \A y \in S \ {x} : f[y] = g[y]
    PROVE  SumOf(g, S) = SumOf(f, S) - f[x] + g[x]
<1>1. IsFiniteSet(S \ {x})
    BY FS_RemoveElement
<1>2. SumOf(g, S \ {x}) = SumOf(f, S \ {x})
    BY <1>1, SumSame
<1>3. /\ SumOf(f, S) = f[x] + SumOf(f, S \ {x})
      /\ SumOf(g, S) = g[x] + SumOf(g, S \ {x})
    BY SumRemove
<1>4. SumOf(f, S \ {x}) \in Int
    BY <1>1, SumInt
<1> QED BY <1>2, <1>3, <1>4

LEMMA SumNegated ==
    ASSUME NEW f, NEW g, NEW S, IsFiniteSet(S),
           \A x \in S : f[x] \in Int /\ g[x] = -f[x]
    PROVE  SumOf(g, S) = -SumOf(f, S)
<1> DEFINE P == {T \in SUBSET S : SumOf(g, T) = -SumOf(f, T)}
<1>0. ASSUME NEW T \in SUBSET S
      PROVE  IsFiniteSet(T) /\ SumOf(f, T) \in Int /\ SumOf(g, T) \in Int
    BY FS_Subset, SumInt
<1>1. {} \in P
    BY SumEmpty
<1>2. ASSUME NEW T \in SUBSET S, NEW x \in S \ T, T \in P PROVE T \cup {x} \in P
    <2>1. /\ SumOf(f, T \cup {x}) = f[x] + SumOf(f, T)
          /\ SumOf(g, T \cup {x}) = g[x] + SumOf(g, T)
        BY <1>0, SumAdd
    <2>2. SumOf(g, T) = -SumOf(f, T)
        BY <1>2
    <2>3. SumOf(g, T \cup {x}) = -SumOf(f, T \cup {x})
        BY <1>0, <2>1, <2>2
    <2> QED BY <2>3
<1>3. S \in P
    <2> HIDE DEF P
    <2> QED BY <1>1, <1>2, EverySubset
<1> QED BY <1>3

\* Every row times the same number.
LEMMA SumScaled ==
    ASSUME NEW f, NEW S, IsFiniteSet(S), NEW k \in Int, \A x \in S : f[x] \in Int
    PROVE  SumOf([x \in S |-> k * f[x]], S) = k * SumOf(f, S)
<1> DEFINE g == [x \in S |-> k * f[x]]
           P == {T \in SUBSET S : SumOf(g, T) = k * SumOf(f, T)}
<1>0. ASSUME NEW T \in SUBSET S PROVE IsFiniteSet(T)
    BY FS_Subset
<1>1. {} \in P
    <2>1. SumOf(g, {}) = 0 /\ SumOf(f, {}) = 0
        BY SumEmpty
    <2> HIDE DEF g
    <2> QED BY <2>1
<1>2. ASSUME NEW T \in SUBSET S, NEW x \in S \ T, T \in P PROVE T \cup {x} \in P
    <2>1. SumOf(f, T \cup {x}) = f[x] + SumOf(f, T)
        BY <1>0, SumAdd
    <2>2. \A y \in S : g[y] = k * f[y] /\ g[y] \in Int
        OBVIOUS
    <2> HIDE DEF g
    <2>3. SumOf(g, T \cup {x}) = g[x] + SumOf(g, T)
        BY <1>0, <2>2, SumAdd
    <2>4. SumOf(f, T) \in Int /\ f[x] \in Int
        BY <1>0, SumInt
    <2>5. SumOf(g, T) = k * SumOf(f, T)
        BY <1>2
    <2>6. SumOf(g, T \cup {x}) = k * SumOf(f, T \cup {x})
        BY <2>1, <2>2, <2>3, <2>4, <2>5
    <2> QED BY <2>6
<1>3. S \in P
    <2> HIDE DEF P
    <2> QED BY <1>1, <1>2, EverySubset
<1> QED BY <1>3

\* The same rows under other keys.
LEMMA SumRenamed ==
    ASSUME NEW f, NEW g, NEW h, NEW S, IsFiniteSet(S),
           \A x, y \in S : h[x] = h[y] => x = y,
           \A x \in S : f[x] \in Int /\ g[h[x]] = f[x]
    PROVE  SumOf(g, {h[x] : x \in S}) = SumOf(f, S)
<1> DEFINE Im(T) == {h[x] : x \in T}
           P == {T \in SUBSET S : IsFiniteSet(Im(T)) /\ SumOf(g, Im(T)) = SumOf(f, T)}
<1>0. ASSUME NEW T \in SUBSET S PROVE IsFiniteSet(T)
    BY FS_Subset
<1>1. {} \in P
    <2>1. Im({}) = {}
        OBVIOUS
    <2> QED BY <2>1, SumEmpty, FS_EmptySet
<1>2. ASSUME NEW T \in SUBSET S, NEW x \in S \ T, T \in P PROVE T \cup {x} \in P
    <2>1. SumOf(f, T \cup {x}) = f[x] + SumOf(f, T)
        BY <1>0, SumAdd
    <2>2. Im(T \cup {x}) = Im(T) \cup {h[x]}
        OBVIOUS
    <2>3. h[x] \notin Im(T) /\ \A z \in Im(T) \cup {h[x]} : g[z] \in Int
        OBVIOUS
    <2>4. IsFiniteSet(Im(T)) /\ SumOf(g, Im(T)) = SumOf(f, T)
        BY <1>2
    <2> HIDE DEF Im
    <2>5. SumOf(g, Im(T) \cup {h[x]}) = g[h[x]] + SumOf(g, Im(T))
        BY <2>3, <2>4, SumAdd
    <2>6. IsFiniteSet(Im(T) \cup {h[x]})
        BY <2>4, FS_AddElement
    <2>7. IsFiniteSet(Im(T \cup {x})) /\ SumOf(g, Im(T \cup {x})) = SumOf(f, T \cup {x})
        BY <2>1, <2>2, <2>4, <2>5, <2>6
    <2> QED BY <2>7
<1>3. S \in P
    <2> HIDE DEF P
    <2> QED BY <1>1, <1>2, EverySubset
<1> QED BY <1>3

\* Two figures of every row.
LEMMA SumTwo ==
    ASSUME NEW f, NEW g, NEW h, NEW S, IsFiniteSet(S),
           \A x \in S : f[x] \in Int /\ g[x] \in Int /\ h[x] = f[x] + g[x]
    PROVE  SumOf(h, S) = SumOf(f, S) + SumOf(g, S)
<1> DEFINE P == {T \in SUBSET S : SumOf(h, T) = SumOf(f, T) + SumOf(g, T)}
<1>1. ASSUME NEW T \in SUBSET S
      PROVE  IsFiniteSet(T) /\ SumOf(f, T) \in Int /\ SumOf(g, T) \in Int
    <2>1. IsFiniteSet(T)
        BY FS_Subset
    <2>2. \A x \in T : f[x] \in Int /\ g[x] \in Int
        OBVIOUS
    <2> QED BY <2>1, <2>2, SumInt
<1>2. {} \in P
    BY SumEmpty
<1>3. \A T \in SUBSET S : \A x \in S \ T : T \in P => T \cup {x} \in P
    <2> SUFFICES ASSUME NEW T \in SUBSET S, NEW x \in S \ T, T \in P
                 PROVE  SumOf(h, T \cup {x}) = SumOf(f, T \cup {x}) + SumOf(g, T \cup {x})
        OBVIOUS
    <2>1. IsFiniteSet(T) /\ SumOf(f, T) \in Int /\ SumOf(g, T) \in Int
        BY <1>1
    <2>2. x \notin T /\ \A y \in T \cup {x} : f[y] \in Int /\ g[y] \in Int /\ h[y] \in Int
        OBVIOUS
    <2>3. /\ SumOf(f, T \cup {x}) = f[x] + SumOf(f, T)
          /\ SumOf(g, T \cup {x}) = g[x] + SumOf(g, T)
          /\ SumOf(h, T \cup {x}) = h[x] + SumOf(h, T)
        BY <2>1, <2>2, SumAdd
    <2>4. SumOf(h, T) = SumOf(f, T) + SumOf(g, T) /\ h[x] = f[x] + g[x]
        OBVIOUS
    <2>5. f[x] \in Int /\ g[x] \in Int
        BY <2>2
    <2> QED BY <2>1, <2>3, <2>4, <2>5
<1> HIDE DEF P
<1>4. S \in P
    BY <1>2, <1>3, EverySubset
<1> QED BY <1>4 DEF P

\* The sum of the sums by group, `k` being the group of a row.
LEMMA SumGroups ==
    ASSUME NEW f, NEW k, NEW S, IsFiniteSet(S), \A x \in S : f[x] \in Int
    PROVE  SumOf([c \in {k[x] : x \in S} |-> SumOf(f, {x \in S : k[x] = c})], {k[x] : x \in S})
               = SumOf(f, S)
<1> DEFINE Im(T)  == {k[x] : x \in T}
           Of(T, c) == {x \in T : k[x] = c}
           By(T)  == [c \in Im(T) |-> SumOf(f, Of(T, c))]
           P == {T \in SUBSET S : IsFiniteSet(Im(T)) /\ SumOf(By(T), Im(T)) = SumOf(f, T)}
<1>1. ASSUME NEW T \in SUBSET S
      PROVE  /\ IsFiniteSet(T) /\ SumOf(f, T) \in Int
             /\ \A c : IsFiniteSet(Of(T, c)) /\ SumOf(f, Of(T, c)) \in Int
    <2>1. IsFiniteSet(T)
        BY FS_Subset
    <2>2. ASSUME NEW c PROVE IsFiniteSet(Of(T, c)) /\ SumOf(f, Of(T, c)) \in Int
        <3>1. Of(T, c) \subseteq S
            OBVIOUS
        <3> HIDE DEF Of
        <3>2. IsFiniteSet(Of(T, c)) /\ \A x \in Of(T, c) : f[x] \in Int
            BY <3>1, FS_Subset
        <3> QED BY <3>2, SumInt
    <2>3. SumOf(f, T) \in Int
        BY <2>1, SumInt
    <2> QED BY <2>1, <2>2, <2>3
<1>2. {} \in P
    <2>1. Im({}) = {}
        OBVIOUS
    <2> QED BY <2>1, SumEmpty, FS_EmptySet
<1>3. ASSUME NEW T \in SUBSET S, NEW x \in S \ T, T \in P PROVE T \cup {x} \in P
    <2> DEFINE U == T \cup {x}
    <2>0. U \in SUBSET S
        OBVIOUS
    <2>1. Im(U) = Im(T) \cup {k[x]}
        OBVIOUS
    <2>2. IsFiniteSet(Im(T)) /\ SumOf(By(T), Im(T)) = SumOf(f, T)
        BY <1>3
    <2>3. /\ Of(U, k[x]) = Of(T, k[x]) \cup {x}
          /\ \A c : c # k[x] => Of(U, c) = Of(T, c)
        OBVIOUS
    <2>4. SumOf(f, Of(U, k[x])) = f[x] + SumOf(f, Of(T, k[x]))
        <3>1. IsFiniteSet(Of(T, k[x])) /\ x \notin Of(T, k[x])
            BY <1>1
        <3>2. \A y \in Of(T, k[x]) \cup {x} : f[y] \in Int
            OBVIOUS
        <3> HIDE DEF Of
        <3> QED BY <2>3, <3>1, <3>2, SumAdd
    <2>5. SumOf(f, U) = f[x] + SumOf(f, T)
        <3>1. IsFiniteSet(T) /\ x \notin T /\ \A y \in T \cup {x} : f[y] \in Int
            BY <1>1
        <3> QED BY <3>1, SumAdd
    <2>6. /\ DOMAIN By(U) = Im(U) /\ \A c \in Im(U) : By(U)[c] = SumOf(f, Of(U, c))
          /\ DOMAIN By(T) = Im(T) /\ \A c \in Im(T) : By(T)[c] = SumOf(f, Of(T, c))
        OBVIOUS
    <2>7. k[x] \in Im(U) /\ f[x] \in Int
        OBVIOUS
    <2> HIDE DEF By, U, Of, Im
    <2>8. /\ \A c \in Im(T) : By(T)[c] \in Int
          /\ \A c \in Im(U) : By(U)[c] \in Int
          /\ \A c \in Im(T) : c # k[x] => By(U)[c] = By(T)[c]
        BY <1>1, <2>0, <2>1, <2>3, <2>6
    <2>9. CASE k[x] \in Im(T)
        <3>1. Im(U) = Im(T)
            BY <2>1, <2>9
        <3>2. SumOf(By(U), Im(T)) = SumOf(By(T), Im(T)) - By(T)[k[x]] + By(U)[k[x]]
            <4>1. PICK e, p, q : e = k[x] /\ p = By(T) /\ q = By(U)
                OBVIOUS
            <4>2. /\ \A c \in Im(T) : p[c] \in Int /\ q[c] \in Int
                  /\ \A c \in Im(T) \ {e} : p[c] = q[c]
                  /\ e \in Im(T)
                BY <2>8, <2>9, <3>1, <4>1
            <4>3. SumOf(q, Im(T)) = SumOf(p, Im(T)) - p[e] + q[e]
                BY <2>2, <4>2, SumChange
            <4> QED BY <4>1, <4>3
        <3>3. By(U)[k[x]] = f[x] + By(T)[k[x]]
            BY <2>4, <2>6, <2>7, <2>9
        <3>4. By(T)[k[x]] \in Int /\ SumOf(f, T) \in Int
            BY <1>1, <2>8, <2>9
        <3>5. SumOf(By(U), Im(U)) = SumOf(f, U)
            BY <2>2, <2>5, <2>7, <3>1, <3>2, <3>3, <3>4
        <3> QED BY <2>0, <2>2, <3>1, <3>5 DEF U
    <2>10. CASE k[x] \notin Im(T)
        <3>1. Of(T, k[x]) = {}
            BY <2>10 DEF Of, Im
        <3>2. By(U)[k[x]] = f[x]
            BY <2>4, <2>6, <2>7, <3>1, SumEmpty
        <3>3. SumOf(By(U), Im(T)) = SumOf(By(T), Im(T))
            <4>1. \A c \in Im(T) : By(U)[c] = By(T)[c]
                BY <2>8, <2>10
            <4> QED BY <2>2, <4>1, SumSame
        <3>4. SumOf(By(U), Im(T) \cup {k[x]}) = By(U)[k[x]] + SumOf(By(U), Im(T))
            <4>1. PICK e, q : e = k[x] /\ q = By(U)
                OBVIOUS
            <4>2. e \notin Im(T) /\ \A c \in Im(T) \cup {e} : q[c] \in Int
                BY <2>1, <2>8, <2>10, <4>1
            <4>3. SumOf(q, Im(T) \cup {e}) = q[e] + SumOf(q, Im(T))
                BY <2>2, <4>2, SumAdd
            <4> QED BY <4>1, <4>3
        <3>5. SumOf(By(U), Im(U)) = SumOf(f, U)
            BY <2>1, <2>2, <2>5, <3>2, <3>3, <3>4
        <3>6. IsFiniteSet(Im(U))
            BY <2>1, <2>2, FS_AddElement
        <3> QED BY <2>0, <3>5, <3>6 DEF U
    <2> QED BY <2>9, <2>10
<1> HIDE DEF P
<1>4. S \in P
    BY <1>2, <1>3, EverySubset
<1> QED BY <1>4 DEF P

\* The sums of some of the groups.
LEMMA SumParts ==
    ASSUME NEW f, NEW k, NEW S, IsFiniteSet(S), \A x \in S : f[x] \in Int,
           NEW K, IsFiniteSet(K), NEW g, \A c \in K : g[c] = SumOf(f, {x \in S : k[x] = c})
    PROVE  SumOf(g, K) = SumOf(f, {x \in S : k[x] \in K})
<1> DEFINE R  == {x \in S : k[x] \in K}
           Im == {k[x] : x \in R}
           h  == [c \in Im |-> SumOf(f, {x \in R : k[x] = c})]
<1>1. IsFiniteSet(R) /\ \A x \in R : f[x] \in Int
    BY FS_Subset
<1>2. Im \subseteq K /\ IsFiniteSet(Im) /\ IsFiniteSet(K \ Im)
    BY FS_Subset
<1>3. SumOf(h, Im) = SumOf(f, R)
    <2> HIDE DEF R
    <2> QED BY <1>1, SumGroups
<1>4. \A c \in Im : h[c] = g[c]
    <2>1. \A c \in Im : {x \in R : k[x] = c} = {x \in S : k[x] = c}
        BY <1>2
    <2>2. \A c \in Im : h[c] = SumOf(f, {x \in R : k[x] = c})
        OBVIOUS
    <2> HIDE DEF Im, h
    <2> QED BY <1>2, <2>1, <2>2
<1>5. \A c \in K \ Im : g[c] = 0
    <2>1. \A c \in K \ Im : {x \in S : k[x] = c} = {}
        OBVIOUS
    <2> QED BY <2>1, SumEmpty
<1>6. \A c \in K : g[c] \in Int
    <2> SUFFICES ASSUME NEW c \in K PROVE g[c] \in Int
        OBVIOUS
    <2> DEFINE T == {x \in S : k[x] = c}
    <2>1. IsFiniteSet(T) /\ \A x \in T : f[x] \in Int
        BY FS_Subset
    <2>2. SumOf(f, T) \in Int
        <3> HIDE DEF T
        <3> QED BY <2>1, SumInt
    <2> QED BY <2>2
<1> HIDE DEF R, Im, h
<1>7. SumOf(g, Im) = SumOf(h, Im)
    BY <1>2, <1>4, SumSame
<1>8. SumOf(g, K \ Im) = 0
    BY <1>2, <1>5, SumZero
<1>9. Im \cup (K \ Im) = K
    BY <1>2
<1>10. SumOf(g, K) = SumOf(g, Im) + SumOf(g, K \ Im)
    <2>1. \A c \in Im \cup (K \ Im) : g[c] \in Int
        BY <1>6, <1>9
    <2>2. SumOf(g, Im \cup (K \ Im)) = SumOf(g, Im) + SumOf(g, K \ Im)
        BY <1>2, <2>1, SumUnion
    <2> QED BY <1>9, <2>2
<1>11. SumOf(f, R) \in Int
    BY <1>1, SumInt
<1>12. SumOf(g, K) = SumOf(f, R)
    BY <1>3, <1>7, <1>8, <1>10, <1>11
<1> QED BY <1>12 DEF R

-----------------------------------------------------------------------------
\* One member more, one less.
LEMMA Joined ==
    ASSUME NEW S, IsFiniteSet(S), NEW x
    PROVE  /\ Cardinality(S) \in Nat
           /\ Cardinality(S \cup {x}) \in Nat /\ Cardinality(S \cup {x}) <= Cardinality(S) + 1
           /\ Cardinality(S \ {x}) = Cardinality(S) - (IF x \in S THEN 1 ELSE 0)
<1>1. Cardinality(S) \in Nat
    BY FS_CardinalityType
<1>2. Cardinality(S \cup {x}) = IF x \in S THEN Cardinality(S) ELSE Cardinality(S) + 1
    BY FS_AddElement
<1>3. CASE x \in S
    <2>1. Cardinality(S \ {x}) = Cardinality(S) - 1
        BY <1>3, FS_RemoveElement
    <2> QED BY <1>1, <1>2, <1>3, <2>1
<1>4. CASE x \notin S
    <2>1. S \ {x} = S
        BY <1>4
    <2>2. Cardinality(S \ {x}) = Cardinality(S)
        BY <2>1
    <2>3. Cardinality(S \cup {x}) = Cardinality(S) + 1
        BY <1>2, <1>4
    <2> QED BY <1>1, <1>4, <2>2, <2>3
<1> QED BY <1>3, <1>4

\* The values of a function on a finite set.
LEMMA ImageFinite ==
    ASSUME NEW f, NEW S, IsFiniteSet(S)
    PROVE  IsFiniteSet({f[x] : x \in S})
<1> DEFINE g == [x \in S |-> f[x]]
           T == {f[x] : x \in S}
<1>1. g \in Surjection(S, T)
    BY DEF Surjection
<1> HIDE DEF g
<1> QED BY <1>1, FS_Surjection
=============================================================================
