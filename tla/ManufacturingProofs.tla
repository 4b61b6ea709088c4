-------------------------- MODULE ManufacturingProofs --------------------------
(***************************************************************************)
(* Proofs about what production costs, for any grid, any number of workers *)
(* and any rows of the ledger: batches are filed whole, their cost is kept *)
(* to the tyiyn, and no two of them wait for each other for ever.          *)
(***************************************************************************)
EXTENDS MCManufacturing, SumsProofs, SequenceTheorems

-----------------------------------------------------------------------------
(* Batches: the invariant *)

\* The shares are rounded one by one, so the last row can absorb what that adds
\* up to only if the cost is at least half a tyiyn for each piece and row.
CostsCoverRounding ==
    \A grid \in Grids, total \in Costs :
        total = 0 \/ 2 * total >= Cardinality(Variants)
                                  * SumOver([v \in Variants |-> grid[v].accepted], Variants)

\* What a batch has filed are its first rows, and when the line is among them,
\* the line still needs what is made for it.
FormFits(f) ==
    /\ RowsOf(f.grid) # {} /\ f.filed \subseteq RowsOf(f.grid)
    /\ \A v \in f.filed, u \in RowsOf(f.grid) \ f.filed : v < u
    /\ f.line /\ LineVariant \in f.filed
         => f.grid[LineVariant].accepted <= Ordered - produced

HasLine(w) == Filing(w) /\ form[w].line /\ LineVariant \in form[w].filed

FormsInv ==
    /\ \A w \in Workers : Filing(w) => FormFits(form[w])
    /\ \A w, u \in Workers : HasLine(w) /\ HasLine(u) => w = u

BatchInv ==
    /\ TypeOK /\ FormsInv
    /\ \A n \in DOMAIN runs : runs[n].batch <= Len(runs)

LEMMA FormIsNoForm ==
    ASSUME NEW f \in Form
    PROVE  f # NoForm
BY DEF Form, NoForm

LEMMA GridTypes ==
    ASSUME NEW grid \in Grids
    PROVE  /\ \A v \in Variants : grid[v].accepted \in Nat /\ grid[v].defect \in Nat
           /\ RowsOf(grid) \subseteq Variants /\ IsFiniteSet(RowsOf(grid))
           /\ [v \in Variants |-> grid[v].accepted] \in [Variants -> Nat]
           /\ \A v \in Variants : grid[v].accepted > 0 => v \in RowsOf(grid)
<1>1. \A v \in Variants : grid[v].accepted \in Nat /\ grid[v].defect \in Nat
    BY ManufacturingAssumption
<1>2. RowsOf(grid) \subseteq Variants
    BY DEF RowsOf
<1>3. IsFiniteSet(RowsOf(grid))
    BY <1>2, ManufacturingAssumption, FS_Subset
<1> QED BY <1>1, <1>2, <1>3 DEF RowsOf

-----------------------------------------------------------------------------
(* The arithmetic of a batch *)

LEMMA Quotient ==
    ASSUME NEW m \in Nat, NEW j \in Nat, j > 0
    PROVE  m \div j \in Nat /\ j * (m \div j) <= m /\ m < j * (m \div j) + j
<1>1. m \div j \in Int /\ m \div j >= 0
    BY SMTT(30)
<1>2. j * (m \div j) <= m
    BY Z3T(30)
<1>3. m < j * (m \div j) + j
    BY Z3T(30)
<1> QED BY <1>1, <1>2, <1>3

\* Half up is the nearest number.
LEMMA HalfUpNear ==
    ASSUME NEW n \in Nat, NEW d \in Nat, d > 0
    PROVE  /\ HalfUp(n, d) \in Nat
           /\ 2 * (HalfUp(n, d) * d - n) \in (-d)..d
<1> DEFINE q == (2 * n + d) \div (2 * d)
<1>1. 2 * n + d \in Nat /\ 2 * d \in Nat /\ 2 * d > 0
    OBVIOUS
<1>2. q \in Nat /\ (2 * d) * q <= 2 * n + d /\ 2 * n + d < (2 * d) * q + 2 * d
    BY <1>1, Quotient
<1>3. HalfUp(n, d) = q
    BY DEF HalfUp
<1> HIDE DEF q
<1>4. (2 * d) * q = 2 * (q * d) /\ q * d \in Int
    BY <1>2
<1>5. 2 * (q * d - n) \in (-d)..d
    BY <1>2, <1>4
<1> QED BY <1>2, <1>3, <1>5

LEMMA MaxIs ==
    ASSUME NEW S, IsFiniteSet(S), S \subseteq Nat, S # {}
    PROVE  Max(S) \in S /\ \A n \in S : n <= Max(S)
<1>1. \E n \in S : \A m \in S : n >= m
    BY GreatestOf
<1> QED BY <1>1 DEF Max

\* The shares are numbers, but for the last not below zero, and when the costs
\* cover the rounding, all of them are and they add up to the cost.
LEMMA SplitShares ==
    ASSUME NEW weight \in [Variants -> Nat], NEW total \in Nat,
           \E v \in Variants : weight[v] > 0
    PROVE  /\ Split(total, weight) \in [Variants -> Int]
           /\ \A v \in Variants : weight[v] = 0 => Split(total, weight)[v] = 0
           /\ SumOf(Split(total, weight), {v \in Variants : weight[v] > 0}) = total
           /\ (total = 0 \/ 2 * total >= Cardinality(Variants) * SumOf(weight, Variants))
                => Split(total, weight) \in [Variants -> Nat]
<1> DEFINE taking == {v \in Variants : weight[v] > 0}
           last   == Max(taking)
           rest   == taking \ {last}
           whole  == SumOf(weight, Variants)
           share  == [v \in Variants |-> HalfUp(total * weight[v], whole)]
           split  == Split(total, weight)
           given  == SumOf(share, rest)
<1>1. IsFiniteSet(Variants) /\ Variants \subseteq Nat
    BY ManufacturingAssumption
<1>2. IsFiniteSet(taking) /\ taking \subseteq Variants /\ taking # {} /\ IsFiniteSet(rest)
    <2>1. IsFiniteSet(taking)
        BY <1>1, FS_Subset
    <2>2. IsFiniteSet(rest)
        BY <2>1, FS_Subset
    <2> QED BY <2>1, <2>2
<1>3. last \in taking /\ last \notin rest /\ rest \subseteq Variants
    <2>1. taking \subseteq Nat
        BY <1>1
    <2>2. Max(taking) \in taking
        BY <1>2, <2>1, MaxIs
    <2> QED BY <2>2
<1>4. whole \in Nat /\ whole = weight[last] + SumOf(weight, rest)
      /\ SumOf(weight, rest) \in Nat
    <2>1. \A v \in Variants : weight[v] \in Nat
        OBVIOUS
    <2>2. whole \in Nat /\ SumOf(weight, rest) \in Nat
        BY <1>1, <1>2, <1>3, <2>1, SumNat
    <2>3. SumOf(weight, taking) = weight[last] + SumOf(weight, rest)
        <3>1. \A v \in taking : weight[v] \in Int
            OBVIOUS
        <3> HIDE DEF taking, last
        <3> QED BY <1>2, <1>3, <3>1, SumRemove
    <2>4. whole = SumOf(weight, taking) + SumOf(weight, Variants \ taking)
        <3>1. Variants = taking \cup (Variants \ taking) /\ IsFiniteSet(Variants \ taking)
            BY <1>1, FS_Subset
        <3>2. \A v \in taking \cup (Variants \ taking) : weight[v] \in Int
            BY <2>1
        <3> HIDE DEF taking
        <3>3. SumOf(weight, taking \cup (Variants \ taking))
                = SumOf(weight, taking) + SumOf(weight, Variants \ taking)
            BY <1>2, <3>1, <3>2, SumUnion
        <3> QED BY <3>1, <3>3
    <2>5. SumOf(weight, Variants \ taking) = 0
        <3>1. IsFiniteSet(Variants \ taking) /\ \A v \in Variants \ taking : weight[v] = 0
            BY <1>1, <2>1, FS_Subset
        <3> QED BY <3>1, SumZero
    <2>6. weight[last] \in Nat
        BY <1>3
    <2> HIDE DEF taking, last, rest, whole
    <2> QED BY <2>2, <2>3, <2>4, <2>5, <2>6
<1>5. weight[last] \in Nat /\ weight[last] > 0 /\ whole > 0
    <2> HIDE DEF last, rest, whole
    <2>1. weight[last] \in Nat /\ weight[last] > 0
        BY <1>3
    <2> QED BY <1>4, <2>1
<1>6. \A v \in Variants :
         /\ share[v] \in Nat
         /\ 2 * (share[v] * whole - total * weight[v]) <= whole
    <2> SUFFICES ASSUME NEW v \in Variants
                 PROVE  share[v] \in Nat /\ 2 * (share[v] * whole - total * weight[v]) <= whole
        OBVIOUS
    <2>1. total * weight[v] \in Nat
        OBVIOUS
    <2>2. share[v] = HalfUp(total * weight[v], whole)
        OBVIOUS
    <2> DEFINE n == total * weight[v]
               h == HalfUp(n, whole)
    <2> HIDE DEF n, whole
    <2>3. h \in Nat /\ 2 * (h * whole - n) \in (-whole)..whole
        BY <1>4, <1>5, <2>1, HalfUpNear DEF n
    <2>4. share[v] = h
        BY <2>2 DEF n
    <2> HIDE DEF h, share
    <2>5. 2 * (h * whole - n) <= whole
        BY <1>4, <2>3
    <2> QED BY <2>3, <2>4, <2>5 DEF n
<1>7. given \in Int
    BY <1>2, <1>3, <1>6, SumInt
<1>8. split = [v \in Variants |-> IF v \notin taking THEN 0
                                 ELSE IF v = last THEN total - given ELSE share[v]]
    <2> DEFINE op(v) == HalfUp(total * weight[v], SumOver(weight, Variants))
    <2>1. SumOver(weight, Variants) = whole
        BY DEF SumOver, SumOf
    <2>2. MapThenSumSet(op, rest) = given
        <3> DEFINE g == [v \in rest |-> op(v)]
        <3>1. MapThenSumSet(op, rest) = SumOf(g, rest)
            <4> HIDE DEF rest
            <4> QED BY DEF SumOf, MapThenSumSet, MapThenFoldSet
        <3>2. \A v \in rest : g[v] = share[v]
            BY <1>3, <2>1
        <3> HIDE DEF g, share, rest
        <3> QED BY <1>2, <3>1, <3>2, SumSame
    <2>3. \A v \in Variants : op(v) = share[v]
        BY <2>1
    <2> HIDE DEF given, share, whole
    <2> QED BY <2>2, <2>3 DEF Split
<1> HIDE DEF taking, last, given, share, whole, split
<1>9. split \in [Variants -> Int]
    BY <1>6, <1>7, <1>8
<1>10. \A v \in Variants : weight[v] = 0 => split[v] = 0
    BY <1>8 DEF taking
<1>11. SumOf(split, taking) = total
    <2>1. \A v \in taking : split[v] \in Int
        BY <1>2, <1>9
    <2>2. SumOf(split, taking) = split[last] + SumOf(split, rest)
        BY <1>2, <1>3, <2>1, SumRemove
    <2>3. \A v \in rest : split[v] = share[v]
        BY <1>3, <1>8
    <2>4. SumOf(split, rest) = given
        BY <1>2, <2>3, SumSame DEF given
    <2>5. split[last] = total - given
        BY <1>2, <1>3, <1>8
    <2> QED BY <1>7, <2>2, <2>4, <2>5
<1>12. ASSUME total = 0 \/ 2 * total >= Cardinality(Variants) * whole
       PROVE  split \in [Variants -> Nat]
    <2> DEFINE n == Cardinality(rest)
               weighed == SumOf(weight, rest)
    <2>1. n \in Nat /\ Cardinality(Variants) \in Nat /\ n + 1 <= Cardinality(Variants)
        <3>1. Cardinality(taking) \in Nat /\ n = Cardinality(taking) - 1
            BY <1>2, <1>3, FS_CardinalityType, FS_RemoveElement
        <3>2. Cardinality(Variants) \in Nat /\ Cardinality(taking) <= Cardinality(Variants)
            BY <1>1, <1>2, FS_CardinalityType, FS_Subset
        <3>3. n \in Nat
            BY <1>2, FS_CardinalityType
        <3> QED BY <3>1, <3>2, <3>3
    <2>2. (2 * whole) * given <= (2 * total) * weighed + whole * n
        <3> DEFINE left   == [v \in rest |-> (2 * whole) * share[v]]
                   cost   == [v \in rest |-> (2 * total) * weight[v]]
                   error  == [v \in rest |-> whole]
                   right  == [v \in rest |-> cost[v] + error[v]]
        <3>1. \A v \in rest : weight[v] \in Int /\ share[v] \in Int
            BY <1>3, <1>6
        <3>2. 2 * whole \in Int /\ 2 * total \in Int /\ whole \in Int
            BY <1>4
        <3>3. \A v \in rest : /\ left[v] \in Int /\ cost[v] \in Int /\ error[v] \in Int
                             /\ right[v] = cost[v] + error[v] /\ right[v] \in Int
            BY <3>1, <3>2
        <3>4. \A v \in rest : left[v] <= right[v]
            <4> SUFFICES ASSUME NEW v \in rest PROVE left[v] <= right[v]
                OBVIOUS
            <4>1. 2 * (share[v] * whole - total * weight[v]) <= whole
                BY <1>3, <1>6
            <4> DEFINE a == share[v]
                       b == weight[v]
            <4>2. a \in Int /\ b \in Int
                BY <3>1
            <4>3. left[v] = (2 * whole) * a /\ right[v] = (2 * total) * b + whole
                OBVIOUS
            <4>4. 2 * (a * whole - total * b) <= whole
                BY <4>1
            <4> HIDE DEF a, b, left, right
            <4>5. (2 * whole) * a = 2 * (a * whole) /\ (2 * total) * b = 2 * (total * b)
                BY <3>2, <4>2
            <4>6. a * whole \in Int /\ total * b \in Int
                BY <3>2, <4>2
            <4> QED BY <3>2, <4>3, <4>4, <4>5, <4>6
        <3>5. SumOf(left, rest) <= SumOf(right, rest)
            <4> HIDE DEF left, right
            <4> QED BY <1>2, <3>3, <3>4, SumAtMost
        <3>6. SumOf(left, rest) = (2 * whole) * given
            BY <1>2, <3>1, <3>2, SumScaled DEF given
        <3>7. SumOf(cost, rest) = (2 * total) * weighed
            BY <1>2, <3>1, <3>2, SumScaled
        <3>8. SumOf(error, rest) = whole * n
            BY <1>2, <3>2, SumConstant
        <3>9. SumOf(right, rest) = SumOf(cost, rest) + SumOf(error, rest)
            <4> HIDE DEF cost, error, right
            <4> QED BY <1>2, <3>3, SumTwo
        <3> HIDE DEF left, cost, error, right
        <3> QED BY <3>5, <3>6, <3>7, <3>8, <3>9
    <2>3. \A v \in rest : share[v] \in Nat
        BY <1>3, <1>6
    <2>4. given \in Nat
        BY <1>2, <2>3, SumNat DEF given
    <2>5. weighed \in Nat /\ whole = weight[last] + weighed
        BY <1>4
    <2> HIDE DEF n, weighed
    <2>6. given <= total
        <3>1. CASE total = 0
            <4>1. \A v \in rest : share[v] = 0
                <5> SUFFICES ASSUME NEW v \in rest PROVE share[v] = 0
                    OBVIOUS
                <5>1. share[v] \in Nat /\ 2 * (share[v] * whole - total * weight[v]) <= whole
                    BY <1>3, <1>6
                <5>2. weight[v] \in Nat
                    BY <1>3
                <5>3. total * weight[v] = 0
                    BY <3>1, <5>2
                <5>4. share[v] * whole \in Int /\ 2 * (share[v] * whole) <= whole
                    BY <1>4, <5>1, <5>3
                <5>5. share[v] >= 1 => share[v] * whole >= whole
                    BY <1>4, <5>1
                <5> QED BY <1>4, <1>5, <5>1, <5>4, <5>5
            <4>2. given = 0
                BY <1>2, <4>1, SumZero DEF given
            <4> QED BY <4>2, <3>1
        <3>2. CASE total # 0
            <4> DEFINE m == Cardinality(Variants)
                       x == weight[last]
            <4>1. x \in Nat /\ x >= 1 /\ m \in Nat /\ n + 1 <= m /\ n \in Nat
                BY <1>5, <2>1
            <4>2. 2 * total >= m * whole
                BY <1>12, <3>2
            <4>3. whole = x + weighed
                BY <2>5
            <4> HIDE DEF m, x
            <4>4. whole * (n + 1) <= whole * m
                BY <1>4, <4>1
            <4>5. whole * n + whole <= 2 * total
                BY <1>4, <4>1, <4>2, <4>4
            <4>6. (2 * total) * weighed = (2 * total) * whole - (2 * total) * x
                BY <1>4, <2>5, <4>1, <4>3
            <4>7. (2 * total) * x >= 2 * total
                BY <4>1
            <4>8. (2 * whole) * given <= (2 * total) * whole
                BY <1>4, <1>5, <2>2, <2>4, <4>1, <4>5, <4>6, <4>7
            <4>9. ASSUME given >= total + 1 PROVE FALSE
                <5>1. (2 * whole) * given >= (2 * whole) * (total + 1)
                    <6>1. 2 * whole \in Nat /\ total + 1 \in Nat
                        BY <1>4
                    <6>2. \A a, b, c \in Nat : b >= c => a * b >= a * c
                        BY Z3T(20)
                    <6> QED BY <2>4, <4>9, <6>1, <6>2
                <5>2. (2 * whole) * (total + 1) = (2 * total) * whole + 2 * whole
                    <6>1. \A a, b \in Nat : (2 * a) * (b + 1) = (2 * b) * a + 2 * a
                        OBVIOUS
                    <6> QED BY <1>4, <6>1
                <5> QED BY <1>4, <1>5, <2>4, <4>8, <5>1, <5>2
            <4> QED BY <2>4, <4>9
        <3> QED BY <3>1, <3>2
    <2>7. \A v \in Variants : split[v] \in Nat
        BY <1>6, <1>8, <2>4, <2>6
    <2> QED BY <1>8, <2>7
<1> QED BY <1>9, <1>10, <1>11, <1>12 DEF split, taking, whole

-----------------------------------------------------------------------------
(* The rows of a batch, in order *)

LEMMA OrderExists ==
    ASSUME NEW S, IsFiniteSet(S), S \subseteq Nat
    PROVE  \E s \in [1..Cardinality(S) -> S] : \A i, j \in DOMAIN s : i < j => s[i] < s[j]
<1> DEFINE Sorted(T, n) ==
               \E s \in [1..n -> T] : \A i, j \in 1..n : i < j => s[i] < s[j]
           P == {n \in Nat : \A T \in SUBSET Nat :
                                IsFiniteSet(T) /\ Cardinality(T) = n => Sorted(T, n)}
<1>1. 0 \in P
    <2> SUFFICES ASSUME NEW T \in SUBSET Nat PROVE Sorted(T, 0)
        OBVIOUS
    <2>1. \A i \in 1..0 : FALSE
        OBVIOUS
    <2>2. [i \in 1..0 |-> 0] \in [1..0 -> T]
        BY <2>1
    <2> QED BY <2>1, <2>2
<1>2. ASSUME NEW n \in Nat, n \in P PROVE n + 1 \in P
    <2> SUFFICES ASSUME NEW T \in SUBSET Nat, IsFiniteSet(T), Cardinality(T) = n + 1
                 PROVE  Sorted(T, n + 1)
        OBVIOUS
    <2>1. T # {}
        BY FS_EmptySet
    <2>2. PICK m \in T : \A k \in T : k <= m
        BY <2>1, GreatestOf
    <2>3. IsFiniteSet(T \ {m}) /\ Cardinality(T \ {m}) = n
        <3>1. Cardinality(T \ {m}) = Cardinality(T) - 1 /\ IsFiniteSet(T \ {m})
            BY FS_RemoveElement
        <3> QED BY <3>1
    <2>4. Sorted(T \ {m}, n)
        BY <1>2, <2>3
    <2>5. PICK r \in [1..n -> T \ {m}] : \A i, j \in 1..n : i < j => r[i] < r[j]
        BY <2>4
    <2> DEFINE s == [i \in 1..(n + 1) |-> IF i = n + 1 THEN m ELSE r[i]]
    <2>6. \A i \in 1..(n + 1) : i # n + 1 => i \in 1..n
        OBVIOUS
    <2>7. s \in [1..(n + 1) -> T]
        BY <2>2, <2>5, <2>6
    <2>8. \A i \in 1..n : r[i] \in T /\ r[i] < m
        <3> SUFFICES ASSUME NEW i \in 1..n PROVE r[i] \in T /\ r[i] < m
            OBVIOUS
        <3>1. r[i] \in T /\ r[i] # m
            BY <2>5
        <3>2. r[i] <= m /\ r[i] \in Nat /\ m \in Nat
            BY <2>2, <3>1
        <3> QED BY <3>1, <3>2
    <2>9. ASSUME NEW i \in 1..(n + 1), NEW j \in 1..(n + 1), i < j PROVE s[i] < s[j]
        <3>1. i \in 1..n
            BY <2>9
        <3>2. s[i] = r[i] /\ i # n + 1
            BY <3>1
        <3>3. CASE j = n + 1
            <4>1. s[j] = m
                BY <3>3
            <4> QED BY <2>8, <3>1, <3>2, <4>1
        <3>4. CASE j # n + 1
            <4>1. j \in 1..n /\ s[j] = r[j]
                BY <2>6, <3>4
            <4> QED BY <2>5, <2>9, <3>1, <3>2, <4>1
        <3> QED BY <3>3, <3>4
    <2> HIDE DEF s
    <2> QED BY <2>7, <2>9
<1>3. Cardinality(S) \in P
    <2> HIDE DEF P
    <2> QED BY <1>1, <1>2, EveryNumber, FS_CardinalityType
<1>4. Sorted(S, Cardinality(S))
    BY <1>3
<1>5. PICK s \in [1..Cardinality(S) -> S] :
          \A i, j \in 1..Cardinality(S) : i < j => s[i] < s[j]
    BY <1>4
<1>6. \A i, j \in DOMAIN s : i < j => s[i] < s[j]
    BY <1>5
<1> QED BY <1>5, <1>6

LEMMA InOrderIs ==
    ASSUME NEW S, IsFiniteSet(S), S \subseteq Nat
    PROVE  /\ InOrder(S) \in [1..Cardinality(S) -> S]
           /\ \A i, j \in 1..Cardinality(S) : InOrder(S)[i] = InOrder(S)[j] => i = j
           /\ \A v \in S : \E i \in 1..Cardinality(S) : InOrder(S)[i] = v
<1> DEFINE s == InOrder(S)
           n == Cardinality(S)
<1>1. s \in [1..n -> S] /\ \A i, j \in DOMAIN s : i < j => s[i] < s[j]
    BY OrderExists DEF InOrder
<1>2. n \in Nat /\ IsFiniteSet(1..n) /\ Cardinality(1..n) = n
    BY FS_CardinalityType, FS_Interval
<1> HIDE DEF s, n
<1>3. ASSUME NEW i \in 1..n, NEW j \in 1..n, s[i] = s[j] PROVE i = j
    <2>1. s[i] \in Nat
        BY <1>1
    <2>2. ~(i < j) /\ ~(j < i)
        BY <1>1, <1>3, <2>1
    <2>3. i \in Int /\ j \in Int
        OBVIOUS
    <2> QED BY <2>2, <2>3
<1>4. s \in Injection(1..n, S)
    BY <1>1, <1>3 DEF Injection, IsInjective
<1>5. s \in Surjection(1..n, S)
    BY <1>2, <1>4, FS_Injection DEF n
<1>6. \A v \in S : \E i \in 1..n : s[i] = v
    BY <1>5 DEF Surjection
<1> QED BY <1>1, <1>3, <1>6 DEF s, n

-----------------------------------------------------------------------------
(* What a batch writes *)

LEMMA FormTypes ==
    ASSUME TypeOK, NEW w \in Workers, Filing(w)
    PROVE  /\ form[w] \in Form /\ form[w].grid \in Grids /\ form[w].total \in Costs
           /\ form[w].line \in BOOLEAN /\ form[w].filed \subseteq Variants
           /\ IsFiniteSet(form[w].filed) /\ form[w].filed \subseteq Nat
           /\ IsFiniteSet(RowsOf(form[w].grid)) /\ RowsOf(form[w].grid) \subseteq Variants
           /\ \A v \in Variants : /\ form[w].grid[v].accepted \in Nat
                                 /\ form[w].grid[v].defect \in Nat
<1>1. form[w] \in Form
    BY DEF TypeOK, Filing
<1>2. /\ form[w].grid \in Grids /\ form[w].total \in Costs
      /\ form[w].line \in BOOLEAN /\ form[w].filed \subseteq Variants
    BY <1>1 DEF Form
<1>3. IsFiniteSet(form[w].filed) /\ form[w].filed \subseteq Nat
    BY <1>2, ManufacturingAssumption, FS_Subset
<1> QED BY <1>1, <1>2, <1>3, GridTypes

\* The weights that the cost of a batch is split by.
Weight(w) == [v \in Variants |-> form[w].grid[v].accepted]

LEMMA SharesOf ==
    ASSUME TypeOK, NEW w \in Workers, Filing(w)
    PROVE  /\ \A v \in Variants : Share(w, v) \in Int
           /\ \A v \in Variants : Weight(w)[v] = 0 => Share(w, v) = 0
<1>1. Weight(w) \in [Variants -> Nat]
    BY FormTypes DEF Weight
<1>2. form[w].total \in Nat
    BY FormTypes, ManufacturingAssumption
<1>3. \A v \in Variants : Share(w, v) = Split(form[w].total, Weight(w))[v]
    BY DEF Share, Weight
<1>4. CASE \E v \in Variants : Weight(w)[v] > 0
    <2>1. /\ Split(form[w].total, Weight(w)) \in [Variants -> Int]
          /\ \A v \in Variants : Weight(w)[v] = 0 => Split(form[w].total, Weight(w))[v] = 0
        BY <1>1, <1>2, <1>4, SplitShares
    <2> QED BY <1>3, <2>1
<1>5. CASE ~\E v \in Variants : Weight(w)[v] > 0
    <2>1. \A v \in Variants : Split(form[w].total, Weight(w))[v] = 0
        BY <1>5 DEF Split
    <2> QED BY <1>3, <2>1
<1> QED BY <1>4, <1>5

LEMMA RunTypes ==
    ASSUME TypeOK, NEW w \in Workers, Filing(w), NEW v \in Variants
    PROVE  RunOf(w, v) \in Run
<1>1. Share(w, v) \in Int
    BY SharesOf
<1>2. Len(runs) \in Nat
    BY DEF TypeOK
<1> QED BY <1>1, <1>2, FormTypes DEF RunOf, Run

\* Every row gets a run of its own behind the runs that there are.
LEMMA SavedRuns ==
    ASSUME TypeOK, NEW w \in Workers, Filing(w), Save(w)
    PROVE  /\ runs' \in Seq(Run) /\ Len(runs) <= Len(runs')
           /\ \A n \in DOMAIN runs : n \in DOMAIN runs' /\ runs'[n] = runs[n]
           /\ \E place \in [form[w].filed -> Nat] :
                 /\ \A v \in form[w].filed : /\ place[v] > Len(runs)
                                           /\ runs'[place[v]] = RunOf(w, v)
                 /\ \A u, v \in form[w].filed : place[u] = place[v] => u = v
                 /\ DOMAIN runs' = DOMAIN runs \cup {place[v] : v \in form[w].filed}
<1> DEFINE own == form[w].filed
           rows == InOrder(own)
           k    == Cardinality(own)
           new  == [n \in DOMAIN rows |-> RunOf(w, rows[n])]
           L    == Len(runs)
<1>1. IsFiniteSet(own) /\ own \subseteq Nat /\ own \subseteq Variants
    BY FormTypes
<1>2. /\ rows \in [1..k -> own]
      /\ \A i, j \in 1..k : rows[i] = rows[j] => i = j
      /\ \A v \in own : \E i \in 1..k : rows[i] = v
    BY <1>1, InOrderIs
<1>3. k \in Nat /\ L \in Nat /\ runs \in Seq(Run) /\ DOMAIN runs = 1..L
    BY <1>1, FS_CardinalityType DEF TypeOK
<1>4. runs' = runs \o new
    BY DEF Save
<1> HIDE DEF own, rows, k
<1>5. new \in [1..k -> Run] /\ \A i \in 1..k : new[i] = RunOf(w, rows[i])
    BY <1>1, <1>2, RunTypes
<1> HIDE DEF new, L
<1>6. new \in Seq(Run) /\ Len(new) = k
    BY <1>3, <1>5
<1>7. /\ runs' \in Seq(Run) /\ Len(runs') = L + k
      /\ \A i \in 1..(L + k) : runs'[i] = IF i <= L THEN runs[i] ELSE new[i - L]
    BY <1>3, <1>4, <1>6, ConcatProperties DEF L
<1>8. DOMAIN runs' = 1..(L + k)
    BY <1>7
<1>9. \A n \in DOMAIN runs : n \in DOMAIN runs' /\ runs'[n] = runs[n]
    BY <1>3, <1>7, <1>8
<1>10. \A i \in 1..k : runs'[L + i] = RunOf(w, rows[i])
    <2> SUFFICES ASSUME NEW i \in 1..k PROVE runs'[L + i] = RunOf(w, rows[i])
        OBVIOUS
    <2>1. L + i \in 1..(L + k) /\ ~(L + i <= L) /\ (L + i) - L = i
        BY <1>3
    <2>2. runs'[L + i] = new[i]
        BY <1>7, <2>1
    <2> QED BY <1>5, <2>2
<1> DEFINE at(v)  == CHOOSE i \in 1..k : rows[i] = v
           place == [v \in own |-> L + at(v)]
<1>11. \A v \in own : at(v) \in 1..k /\ rows[at(v)] = v
    BY <1>2
<1> HIDE DEF at
<1>12. place \in [own -> Nat]
    BY <1>3, <1>11
<1>13. \A v \in own : place[v] > L /\ runs'[place[v]] = RunOf(w, v)
    BY <1>3, <1>10, <1>11
<1>14. \A u, v \in own : place[u] = place[v] => u = v
    BY <1>3, <1>11
<1>15. DOMAIN runs' = DOMAIN runs \cup {place[v] : v \in own}
    <2>1. ASSUME NEW n \in 1..(L + k), ~(n <= L)
          PROVE  \E v \in own : n = place[v]
        <3>1. n - L \in 1..k
            BY <1>3, <2>1
        <3> DEFINE v == rows[n - L]
        <3>2. v \in own
            BY <1>2, <3>1
        <3>3. at(v) = n - L
            BY <1>2, <1>11, <3>1, <3>2
        <3>4. place[v] = n
            BY <1>3, <3>2, <3>3
        <3> QED BY <3>2, <3>4
    <2>2. \A v \in own : place[v] \in 1..(L + k)
        BY <1>3, <1>11
    <2> HIDE DEF place
    <2> QED BY <1>3, <1>8, <2>1, <2>2
<1> HIDE DEF place
<1> QED BY <1>3, <1>7, <1>9, <1>12, <1>13, <1>14, <1>15 DEF own, L

-----------------------------------------------------------------------------
(* The invariant is kept *)

LEMMA BatchStart ==
    ASSUME Init
    PROVE  BatchInv
<1>1. TypeOK
    <2>1. 0 \in 0..Ordered
        BY ManufacturingAssumption
    <2>2. <<>> \in Seq(Run)
        OBVIOUS
    <2> QED BY <2>1, <2>2 DEF Init, TypeOK
<1>2. FormsInv
    BY DEF Init, FormsInv, Filing, HasLine
<1>3. DOMAIN runs = {}
    BY DEF Init
<1> QED BY <1>1, <1>2, <1>3 DEF BatchInv

LEMMA PostKeeps ==
    ASSUME BatchInv, NEW w \in Workers, NEW grid \in Grids, NEW total \in Costs,
           NEW line \in BOOLEAN, Post(w, grid, total, line)
    PROVE  BatchInv'
<1> DEFINE f == [total |-> total, grid |-> grid, line |-> line, filed |-> {}]
<1>1. f \in Form
    BY DEF Form
<1>2. form' = [form EXCEPT ![w] = f] /\ UNCHANGED <<price, produced, runs>>
    BY DEF Post
<1>3. f.filed = {} /\ f.grid = grid
    OBVIOUS
<1> HIDE DEF f
<1>4. TypeOK'
    BY <1>1, <1>2 DEF BatchInv, TypeOK
<1>5. FormsInv'
    <2>1. /\ \A u \in Workers : form'[u] = IF u = w THEN f ELSE form[u]
          /\ produced' = produced
        BY <1>2 DEF BatchInv, TypeOK
    <2>2. FormFits(f)'
        BY <1>3 DEF FormFits, Post
    <2>3. \A u \in Workers : HasLine(u)' => u # w /\ HasLine(u)
        BY <1>3, <2>1 DEF HasLine, Filing
    <2>4. \A u \in Workers : Filing(u)' => FormFits(form[u])'
        BY <2>1, <2>2 DEF BatchInv, FormsInv, FormFits, Filing
    <2> QED BY <2>3, <2>4 DEF BatchInv, FormsInv
<1> QED BY <1>2, <1>4, <1>5 DEF BatchInv

LEMMA FileKeeps ==
    ASSUME BatchInv, NEW w \in Workers, NEW v \in Variants, FileRow(w, v)
    PROVE  BatchInv'
<1> DEFINE f == [form[w] EXCEPT !.filed = @ \cup {v}]
<1>1. /\ Filing(w) /\ v \in ToFile(w) /\ \A u \in ToFile(w) : v <= u
      /\ IsLine(w, v) => LineFree(w) /\ Fits(w)
    BY DEF FileRow, NextRow
<1>2. form' = [form EXCEPT ![w] = f] /\ UNCHANGED <<price, produced, runs>>
    BY DEF FileRow
<1>3. /\ f \in Form /\ f.filed = form[w].filed \cup {v}
      /\ f.grid = form[w].grid /\ f.line = form[w].line
    <2>1. form[w] \in Form
        BY <1>1, FormTypes DEF BatchInv
    <2> QED BY <2>1 DEF Form
<1> HIDE DEF f
<1>4. TypeOK'
    BY <1>2, <1>3 DEF BatchInv, TypeOK
<1>5. FormsInv'
    <2>1. /\ \A u \in Workers : form'[u] = IF u = w THEN f ELSE form[u]
          /\ produced' = produced
        BY <1>2 DEF BatchInv, TypeOK
    <2>2. FormFits(form[w])
        BY <1>1 DEF BatchInv, FormsInv
    <2>3. FormFits(form[w])'
        <3>1. RowsOf(f.grid) # {} /\ f.filed \subseteq RowsOf(f.grid)
            BY <1>1, <1>3, <2>2 DEF FormFits, ToFile
        <3>2. ASSUME NEW x \in f.filed, NEW u \in RowsOf(f.grid) \ f.filed
              PROVE  x < u
            <4>1. u \in ToFile(w) /\ u # v
                BY <1>3 DEF ToFile
            <4>2. CASE x = v
                <5>1. v \in Nat /\ u \in Nat
                    BY <4>1, ManufacturingAssumption DEF ToFile, RowsOf
                <5> QED BY <1>1, <4>1, <4>2, <5>1
            <4>3. CASE x # v
                BY <1>3, <2>2, <4>1, <4>3 DEF FormFits, ToFile
            <4> QED BY <4>2, <4>3
        <3>3. f.line /\ LineVariant \in f.filed
                => f.grid[LineVariant].accepted <= Ordered - produced
            BY <1>1, <1>3, <2>2 DEF FormFits, IsLine, Fits
        <3>4. form'[w] = f
            BY <2>1
        <3> QED BY <2>1, <3>1, <3>2, <3>3, <3>4 DEF FormFits
    <2>4. ASSUME NEW u \in Workers, Filing(u)'
          PROVE  FormFits(form[u])'
        <3>1. CASE u = w
            BY <2>3, <3>1
        <3>2. CASE u # w
            BY <2>1, <2>4, <3>2 DEF BatchInv, FormsInv, FormFits, Filing
        <3> QED BY <3>1, <3>2
    <2>5. \A u \in Workers : HasLine(u)' => HasLine(u) \/ (u = w /\ IsLine(w, v))
        BY <1>1, <1>3, <2>1 DEF HasLine, Filing, IsLine
    <2>6. IsLine(w, v) => \A u \in Workers \ {w} : ~HasLine(u)
        BY <1>1 DEF LineFree, IsLine, HasLine
    <2>7. \A x, u \in Workers : HasLine(x)' /\ HasLine(u)' => x = u
        BY <2>5, <2>6 DEF BatchInv, FormsInv
    <2> QED BY <2>4, <2>7 DEF FormsInv
<1> QED BY <1>2, <1>4, <1>5 DEF BatchInv

LEMMA RollBackKeeps ==
    ASSUME BatchInv, NEW w \in Workers, RollBack(w)
    PROVE  BatchInv'
<1>1. form' = [form EXCEPT ![w] = NoForm] /\ UNCHANGED <<price, produced, runs>>
    BY DEF RollBack
<1>2. TypeOK'
    BY <1>1 DEF BatchInv, TypeOK
<1>3. \A u \in Workers : form'[u] = IF u = w THEN NoForm ELSE form[u]
    BY <1>1 DEF BatchInv, TypeOK
<1>4. FormsInv'
    BY <1>1, <1>3 DEF BatchInv, FormsInv, FormFits, Filing, HasLine
<1> QED BY <1>1, <1>2, <1>4 DEF BatchInv

LEMMA ProduceKeeps ==
    ASSUME BatchInv, NEW w \in Workers, NEW q \in 1..Ordered, Produce(w, q)
    PROVE  BatchInv'
<1>1. /\ ~Filing(w) /\ LineFree(w) /\ q <= Ordered - produced
      /\ produced' = produced + q /\ UNCHANGED <<price, runs, form>>
    BY DEF Produce
<1>2. TypeOK'
    <2>1. produced' \in 0..Ordered
        BY <1>1, ManufacturingAssumption DEF BatchInv, TypeOK
    <2> QED BY <1>1, <2>1 DEF BatchInv, TypeOK
<1>3. \A u \in Workers : ~HasLine(u)
    BY <1>1 DEF LineFree, HasLine, IsLine
<1>4. FormsInv'
    BY <1>1, <1>3 DEF BatchInv, FormsInv, FormFits, Filing, HasLine
<1> QED BY <1>1, <1>2, <1>4 DEF BatchInv

LEMMA CommitKeeps ==
    ASSUME BatchInv, NEW w \in Workers, Commit(w)
    PROVE  BatchInv'
<1>1. TypeOK /\ Filing(w) /\ Save(w)
    BY DEF BatchInv, Commit
<1>2. runs' \in Seq(Run)
    BY <1>1, SavedRuns
<1>3. form' = [form EXCEPT ![w] = NoForm]
    BY <1>1 DEF Save
<1>4. \A u \in Workers : form'[u] = IF u = w THEN NoForm ELSE form[u]
    BY <1>1, <1>3 DEF TypeOK
<1>5. price' \in [Variants -> Nat]
    <2>1. \A v \in Variants :
             UnitCost(Share(w, v), form[w].grid[v].accepted, price[v]) \in Nat
        <3> SUFFICES ASSUME NEW v \in Variants
                     PROVE  UnitCost(Share(w, v), form[w].grid[v].accepted, price[v]) \in Nat
            OBVIOUS
        <3>1. Share(w, v) \in Int /\ form[w].grid[v].accepted \in Nat /\ price[v] \in Nat
            BY <1>1, SharesOf, FormTypes DEF TypeOK
        <3> DEFINE s == Share(w, v)
                   a == form[w].grid[v].accepted
        <3>2. s \in Int /\ a \in Nat
            BY <3>1
        <3> HIDE DEF s, a
        <3>3. CASE a > 0 /\ s > 0
            <4>1. s \in Nat
                BY <3>2, <3>3
            <4>2. HalfUp(s, a) \in Nat
                BY <3>2, <3>3, <4>1, HalfUpNear
            <4>3. UnitCost(s, a, price[v]) = HalfUp(s, a)
                BY <3>3 DEF UnitCost
            <4> QED BY <4>2, <4>3 DEF s, a
        <3>4. CASE ~(a > 0 /\ s > 0)
            <4>1. UnitCost(s, a, price[v]) = price[v]
                BY <3>4 DEF UnitCost
            <4> QED BY <3>1, <4>1 DEF s, a
        <3> QED BY <3>3, <3>4
    <2> QED BY <1>1, <2>1 DEF Save, TypeOK
<1>6. produced' = IF HasLine(w) THEN produced + form[w].grid[LineVariant].accepted
                  ELSE produced
    <2>1. (\E v \in form[w].filed : IsLine(w, v)) <=> HasLine(w)
        BY <1>1 DEF HasLine, IsLine
    <2> QED BY <1>1, <2>1 DEF Save
<1>7. produced' \in 0..Ordered
    <2>1. HasLine(w) => form[w].grid[LineVariant].accepted <= Ordered - produced
        BY DEF BatchInv, FormsInv, FormFits, HasLine
    <2>2. form[w].grid[LineVariant].accepted \in Nat
        BY <1>1, FormTypes, ManufacturingAssumption
    <2> QED BY <1>1, <1>6, <2>1, <2>2, ManufacturingAssumption DEF TypeOK
<1>8. TypeOK'
    BY <1>1, <1>2, <1>3, <1>5, <1>7 DEF TypeOK
<1>9. FormsInv'
    <2>1. \A u \in Workers : HasLine(u)' => u # w /\ HasLine(u)
        BY <1>4 DEF HasLine, Filing
    <2>2. ASSUME NEW u \in Workers, Filing(u)'
          PROVE  FormFits(form[u])'
        <3>1. u # w /\ form'[u] = form[u] /\ FormFits(form[u])
            BY <1>4, <2>2 DEF Filing, BatchInv, FormsInv
        <3>2. CASE HasLine(w)
            <4>1. ~HasLine(u)
                BY <3>1, <3>2 DEF BatchInv, FormsInv
            <4> QED BY <2>2, <3>1, <4>1 DEF FormFits, HasLine, Filing
        <3>3. CASE ~HasLine(w)
            <4>1. produced' = produced
                BY <1>6, <3>3
            <4> QED BY <3>1, <4>1 DEF FormFits
        <3> QED BY <3>2, <3>3
    <2> QED BY <2>1, <2>2 DEF BatchInv, FormsInv
<1>10. \A n \in DOMAIN runs' : runs'[n].batch <= Len(runs')
    <2>1. PICK place \in [form[w].filed -> Nat] :
              /\ \A v \in form[w].filed : /\ place[v] > Len(runs)
                                        /\ runs'[place[v]] = RunOf(w, v)
              /\ DOMAIN runs' = DOMAIN runs \cup {place[v] : v \in form[w].filed}
        BY <1>1, SavedRuns
    <2>2. Len(runs) \in Nat /\ Len(runs') \in Nat /\ Len(runs) <= Len(runs')
        BY <1>1, <1>2, SavedRuns DEF TypeOK
    <2>3. ASSUME NEW n \in DOMAIN runs PROVE runs'[n].batch <= Len(runs')
        <3>1. runs'[n] = runs[n] /\ runs[n].batch <= Len(runs)
            BY <1>1, SavedRuns DEF BatchInv
        <3>2. runs[n] \in Run
            BY <1>1 DEF TypeOK
        <3>3. runs[n].batch \in Nat
            BY <3>2 DEF Run
        <3> QED BY <2>2, <3>1, <3>3
    <2>4. ASSUME NEW v \in form[w].filed PROVE runs'[place[v]].batch <= Len(runs')
        <3>1. place[v] \in DOMAIN runs' /\ place[v] > Len(runs) /\ place[v] \in Nat
            BY <2>1
        <3>2. place[v] <= Len(runs')
            BY <1>2, <2>2, <3>1
        <3>3. runs'[place[v]].batch = Len(runs) + 1
            <4>1. runs'[place[v]] = RunOf(w, v)
                BY <2>1
            <4>2. RunOf(w, v).batch = Len(runs) + 1
                BY DEF RunOf
            <4> QED BY <4>1, <4>2
        <3> QED BY <2>2, <3>1, <3>2, <3>3
    <2> QED BY <2>1, <2>3, <2>4
<1> QED BY <1>8, <1>9, <1>10 DEF BatchInv

LEMMA BatchStep ==
    ASSUME BatchInv, [Next]_vars
    PROVE  BatchInv'
<1>1. CASE UNCHANGED vars
    BY <1>1 DEF vars, BatchInv, TypeOK, FormsInv, FormFits, Filing, HasLine
<1>2. CASE Next
    BY <1>2, PostKeeps, FileKeeps, CommitKeeps, RollBackKeeps, ProduceKeeps DEF Next
<1> QED BY <1>1, <1>2

-----------------------------------------------------------------------------
(* What was filed together *)

\* Where the runs of a batch are after it commits.
Placed(w, place) ==
    /\ place \in [form[w].filed -> Nat]
    /\ \A v \in form[w].filed : place[v] > Len(runs) /\ runs'[place[v]] = RunOf(w, v)
    /\ \A u, v \in form[w].filed : place[u] = place[v] => u = v
    /\ DOMAIN runs' = DOMAIN runs \cup {place[v] : v \in form[w].filed}
    /\ \A n \in DOMAIN runs : n \in DOMAIN runs' /\ runs'[n] = runs[n]

SameBatch(rs, b) == {n \in DOMAIN rs : rs[n].batch = b}

LEMMA RunFacts ==
    ASSUME TypeOK
    PROVE  /\ Len(runs) \in Nat /\ DOMAIN runs = 1..Len(runs)
           /\ \A n \in DOMAIN runs :
                 /\ runs[n].variant \in Variants /\ runs[n].accepted \in Nat
                 /\ runs[n].spent \in Nat /\ runs[n].batch \in Nat \ {0}
           /\ \A S \in SUBSET DOMAIN runs : IsFiniteSet(S)
<1>1. Len(runs) \in Nat /\ DOMAIN runs = 1..Len(runs) /\ \A n \in DOMAIN runs : runs[n] \in Run
    BY DEF TypeOK
<1>2. IsFiniteSet(1..Len(runs))
    BY <1>1, FS_Interval
<1>3. \A S \in SUBSET DOMAIN runs : IsFiniteSet(S)
    BY <1>1, <1>2, FS_Subset
<1> QED BY <1>1, <1>3 DEF Run

LEMMA CommitPlaces ==
    ASSUME BatchInv, NEW w \in Workers, Commit(w)
    PROVE  \E place : Placed(w, place)
<1>1. TypeOK /\ Filing(w) /\ Save(w)
    BY DEF BatchInv, Commit
<1>2. PICK place \in [form[w].filed -> Nat] :
          /\ \A v \in form[w].filed : /\ place[v] > Len(runs)
                                    /\ runs'[place[v]] = RunOf(w, v)
          /\ \A u, v \in form[w].filed : place[u] = place[v] => u = v
          /\ DOMAIN runs' = DOMAIN runs \cup {place[v] : v \in form[w].filed}
    BY <1>1, SavedRuns
<1>3. \A n \in DOMAIN runs : n \in DOMAIN runs' /\ runs'[n] = runs[n]
    BY <1>1, SavedRuns
<1>4. Placed(w, place)
    BY <1>2, <1>3 DEF Placed
<1> QED BY <1>4

LEMMA BatchesApart ==
    ASSUME BatchInv, NEW w \in Workers, Commit(w), NEW place, Placed(w, place)
    PROVE  /\ \A n \in DOMAIN runs :
                 SameBatch(runs', runs'[n].batch) = SameBatch(runs, runs[n].batch)
           /\ \A v \in form[w].filed :
                 SameBatch(runs', runs'[place[v]].batch) = {place[u] : u \in form[w].filed}
<1> DEFINE own == form[w].filed
<1>1. Len(runs) \in Nat /\ \A n \in DOMAIN runs : /\ runs[n].batch \in Nat
                                                  /\ runs[n].batch <= Len(runs)
    BY RunFacts DEF BatchInv
<1>2. \A v \in own : runs'[place[v]].batch = Len(runs) + 1
    <2>1. \A v \in own : RunOf(w, v).batch = Len(runs) + 1
        BY DEF RunOf
    <2> QED BY <2>1 DEF Placed
<1>3. \A n \in DOMAIN runs : runs'[n].batch = runs[n].batch /\ runs[n].batch # Len(runs) + 1
    BY <1>1 DEF Placed
<1>4. DOMAIN runs' = DOMAIN runs \cup {place[v] : v \in own}
    BY DEF Placed
<1> HIDE DEF own
<1>5. \A n \in DOMAIN runs :
          SameBatch(runs', runs'[n].batch) = SameBatch(runs, runs[n].batch)
    BY <1>2, <1>3, <1>4 DEF SameBatch
<1>6. \A v \in own :
          SameBatch(runs', runs'[place[v]].batch) = {place[u] : u \in own}
    BY <1>2, <1>3, <1>4 DEF SameBatch
<1> QED BY <1>5, <1>6 DEF own

LEMMA StaysWhole ==
    ASSUME BatchInv, BatchWhole, NEW w \in Workers, Commit(w)
    PROVE  BatchWhole'
<1>1. PICK place : Placed(w, place)
    BY CommitPlaces
<1>2. form[w].filed = RowsOf(form[w].grid)
    BY DEF Commit, ToFile, BatchInv, FormsInv, FormFits
<1>3. ASSUME NEW n \in DOMAIN runs
      PROVE  {runs'[m].variant : m \in SameBatch(runs', runs'[n].batch)} = runs'[n].rows
    <2>1. SameBatch(runs', runs'[n].batch) = SameBatch(runs, runs[n].batch)
        BY <1>1, BatchesApart
    <2>2. \A m \in SameBatch(runs, runs[n].batch) : runs'[m] = runs[m]
        BY <1>1 DEF SameBatch, Placed
    <2>3. {runs[m].variant : m \in SameBatch(runs, runs[n].batch)} = runs[n].rows
        BY DEF BatchWhole, RunsOfBatch, SameBatch
    <2>4. runs'[n] = runs[n]
        BY <1>1 DEF Placed
    <2> QED BY <2>1, <2>2, <2>3, <2>4
<1>4. ASSUME NEW v \in form[w].filed
      PROVE  {runs'[m].variant : m \in SameBatch(runs', runs'[place[v]].batch)}
                = runs'[place[v]].rows
    <2>1. SameBatch(runs', runs'[place[v]].batch) = {place[u] : u \in form[w].filed}
        BY <1>1, BatchesApart
    <2>2. \A u \in form[w].filed : /\ runs'[place[u]].variant = u
                                  /\ runs'[place[u]].rows = RowsOf(form[w].grid)
        <3>1. \A u \in form[w].filed : /\ RunOf(w, u).variant = u
                                      /\ RunOf(w, u).rows = RowsOf(form[w].grid)
            BY DEF RunOf
        <3> QED BY <1>1, <3>1 DEF Placed
    <2>3. {runs'[m].variant : m \in {place[u] : u \in form[w].filed}} = form[w].filed
        BY <2>2
    <2> QED BY <1>2, <2>1, <2>2, <2>3
<1>5. \A n \in DOMAIN runs' :
          {runs'[m].variant : m \in SameBatch(runs', runs'[n].batch)} = runs'[n].rows
    BY <1>1, <1>3, <1>4 DEF Placed
<1> QED BY <1>5 DEF BatchWhole, RunsOfBatch, SameBatch

SpentIn(rs) == [n \in DOMAIN rs |-> rs[n].spent]

CostsKept ==
    \A n \in DOMAIN runs :
        LET batch == SameBatch(runs, runs[n].batch)
        IN  (\E m \in batch : runs[m].accepted > 0) => SumOf(SpentIn(runs), batch) = runs[n].total

LEMMA SpendIsSum ==
    CostsKept <=> SpendFiled
<1>1. \A S \in SUBSET DOMAIN runs :
          MapThenSumSet(LAMBDA m : runs[m].spent, S) = SumOf(SpentIn(runs), S)
    <2> SUFFICES ASSUME NEW S \in SUBSET DOMAIN runs
                 PROVE  MapThenSumSet(LAMBDA m : runs[m].spent, S) = SumOf(SpentIn(runs), S)
        OBVIOUS
    <2> QED BY DEF SpentIn, SumOf, MapThenSumSet, MapThenFoldSet
<1>2. \A n \in DOMAIN runs : /\ SameBatch(runs, runs[n].batch) \in SUBSET DOMAIN runs
                            /\ RunsOfBatch(runs[n].batch) = SameBatch(runs, runs[n].batch)
    BY DEF SameBatch, RunsOfBatch
<1> QED BY <1>1, <1>2 DEF CostsKept, SpendFiled

LEMMA StaysPaid ==
    ASSUME BatchInv, CostsKept, CostsCoverRounding, NEW w \in Workers, Commit(w)
    PROVE  CostsKept'
<1> DEFINE own == form[w].filed
<1>1. PICK place : Placed(w, place)
    BY CommitPlaces
<1>2. TypeOK /\ Filing(w) /\ own = RowsOf(form[w].grid)
    BY DEF Commit, ToFile, BatchInv, FormsInv, FormFits
<1>3. IsFiniteSet(own) /\ own \subseteq Variants
    BY <1>2, FormTypes
<1>4. ASSUME NEW n \in DOMAIN runs,
             \E m \in SameBatch(runs', runs'[n].batch) : runs'[m].accepted > 0
      PROVE  SumOf(SpentIn(runs'), SameBatch(runs', runs'[n].batch)) = runs'[n].total
    <2> DEFINE B == SameBatch(runs, runs[n].batch)
    <2>1. SameBatch(runs', runs'[n].batch) = B
        BY <1>1, BatchesApart
    <2>2. B \subseteq DOMAIN runs /\ IsFiniteSet(B)
        BY <1>2, RunFacts DEF SameBatch
    <2> HIDE DEF B
    <2>3. \A m \in B : runs'[m] = runs[m] /\ SpentIn(runs')[m] = SpentIn(runs)[m]
        BY <1>1, <2>2 DEF Placed, SpentIn
    <2>4. SumOf(SpentIn(runs'), B) = SumOf(SpentIn(runs), B)
        BY <2>2, <2>3, SumSame
    <2>5. SumOf(SpentIn(runs), B) = runs[n].total
        BY <1>4, <2>1, <2>3 DEF CostsKept, B
    <2>6. runs'[n] = runs[n]
        BY <1>1 DEF Placed
    <2> QED BY <2>1, <2>4, <2>5, <2>6
<1>5. ASSUME NEW v \in own,
             \E m \in SameBatch(runs', runs'[place[v]].batch) : runs'[m].accepted > 0
      PROVE  SumOf(SpentIn(runs'), SameBatch(runs', runs'[place[v]].batch))
                = runs'[place[v]].total
    <2> DEFINE N      == {place[u] : u \in own}
               spent  == [u \in own |-> Share(w, u)]
               total  == form[w].total
               split  == Split(total, Weight(w))
               taking == {u \in Variants : Weight(w)[u] > 0}
    <2>1. SameBatch(runs', runs'[place[v]].batch) = N
        BY <1>1, BatchesApart
    <2>2. \A u \in own : /\ runs'[place[u]] = RunOf(w, u) /\ place[u] \in DOMAIN runs'
                          /\ RunOf(w, u).accepted = form[w].grid[u].accepted
                          /\ RunOf(w, u).total = total
                          /\ RunOf(w, u).spent = IF Share(w, u) > 0 THEN Share(w, u) ELSE 0
        <3>1. \A u \in own : runs'[place[u]] = RunOf(w, u) /\ place[u] \in DOMAIN runs'
            BY <1>1 DEF Placed
        <3>2. \A u \in own : /\ RunOf(w, u).accepted = form[w].grid[u].accepted
                              /\ RunOf(w, u).total = total
                              /\ RunOf(w, u).spent = IF Share(w, u) > 0 THEN Share(w, u) ELSE 0
            BY DEF RunOf
        <3> QED BY <3>1, <3>2
    <2>3. Weight(w) \in [Variants -> Nat] /\ total \in Nat /\ total \in Costs
        BY <1>2, FormTypes, ManufacturingAssumption DEF Weight
    <2>4. \E u \in Variants : Weight(w)[u] > 0
        BY <1>3, <1>5, <2>1, <2>2 DEF Weight
    <2>5. total = 0 \/ 2 * total >= Cardinality(Variants) * SumOf(Weight(w), Variants)
        <3>1. form[w].grid \in Grids
            BY <1>2, FormTypes
        <3>2. SumOver(Weight(w), Variants) = SumOf(Weight(w), Variants)
            BY DEF SumOver, SumOf
        <3>3. total = 0 \/ 2 * total >= Cardinality(Variants) * SumOver(Weight(w), Variants)
            BY <2>3, <3>1 DEF CostsCoverRounding, Weight
        <3> QED BY <3>2, <3>3
    <2>6. /\ split \in [Variants -> Nat] /\ SumOf(split, taking) = total
          /\ \A u \in Variants : Weight(w)[u] = 0 => split[u] = 0
        BY <2>3, <2>4, <2>5, SplitShares
    <2>7. \A u \in Variants : Share(w, u) = split[u]
        BY DEF Share, Weight
    <2>8. taking \subseteq own
        BY <1>2, FormTypes, GridTypes DEF Weight
    <2> HIDE DEF own, total, split, taking
    <2>9. SumOf(spent, own) = total
        <3>1. \A u \in own : spent[u] \in Int /\ spent[u] = split[u]
            BY <1>3, <2>6, <2>7
        <3> HIDE DEF spent
        <3>2. IsFiniteSet(taking) /\ IsFiniteSet(own \ taking) /\ own = taking \cup (own \ taking)
            BY <1>3, <2>8, FS_Subset
        <3>3. SumOf(spent, taking \cup (own \ taking))
                = SumOf(spent, taking) + SumOf(spent, own \ taking)
            BY <3>1, <3>2, SumUnion
        <3>4. SumOf(spent, taking) = SumOf(split, taking)
            BY <2>8, <3>1, <3>2, SumSame
        <3>5. \A u \in own \ taking : spent[u] = 0
            BY <1>3, <2>3, <2>6, <3>1 DEF taking
        <3>6. SumOf(spent, own \ taking) = 0
            BY <3>2, <3>5, SumZero
        <3> QED BY <2>3, <2>6, <3>2, <3>3, <3>4, <3>6
    <2>10. \A u \in own : spent[u] \in Int /\ SpentIn(runs')[place[u]] = spent[u]
        BY <1>3, <2>2, <2>6, <2>7 DEF SpentIn
    <2>11. \A u, x \in own : place[u] = place[x] => u = x
        BY <1>1 DEF Placed, own
    <2> HIDE DEF spent
    <2>12. SumOf(SpentIn(runs'), N) = SumOf(spent, own)
        BY <1>3, <2>10, <2>11, SumRenamed
    <2> HIDE DEF N
    <2> QED BY <2>1, <2>2, <2>9, <2>12
<1>6. DOMAIN runs' = DOMAIN runs \cup {place[v] : v \in own}
    BY <1>1 DEF Placed
<1> HIDE DEF own
<1>7. \A n \in DOMAIN runs' :
         (\E m \in SameBatch(runs', runs'[n].batch) : runs'[m].accepted > 0)
            => SumOf(SpentIn(runs'), SameBatch(runs', runs'[n].batch)) = runs'[n].total
    BY <1>4, <1>5, <1>6
<1> QED BY <1>7 DEF CostsKept, SpentIn, SameBatch

-----------------------------------------------------------------------------
(* The cost price *)

\* The runs that set the cost price of a variant.
CostedRuns(v) == {n \in DOMAIN runs : /\ runs[n].variant = v
                                     /\ runs[n].accepted > 0 /\ runs[n].spent > 0}

PriceFits(v) ==
    IF CostedRuns(v) = {} THEN price[v] = 0
    ELSE LET last == runs[Max(CostedRuns(v))]
         IN  2 * (price[v] * last.accepted - last.spent) \in (-last.accepted)..last.accepted

LEMMA PriceStays ==
    ASSUME BatchInv, PriceIsLastCost, NEW w \in Workers, Commit(w)
    PROVE  PriceIsLastCost'
<1> DEFINE own == form[w].filed
<1>1. PICK place : Placed(w, place)
    BY CommitPlaces
<1>2. TypeOK /\ Filing(w) /\ Save(w) /\ own \subseteq Variants
    BY FormTypes DEF Commit, BatchInv
<1>3. TypeOK'
    BY CommitKeeps DEF BatchInv
<1>4. \A v \in Variants : PriceFits(v)
    BY DEF PriceIsLastCost, PriceFits, CostedRuns
<1>5. \A u \in own : /\ runs'[place[u]].variant = u /\ place[u] \in DOMAIN runs'
                      /\ runs'[place[u]].accepted = form[w].grid[u].accepted
                      /\ runs'[place[u]].spent = IF Share(w, u) > 0 THEN Share(w, u) ELSE 0
    <2>1. \A u \in own : runs'[place[u]] = RunOf(w, u) /\ place[u] \in DOMAIN runs'
        BY <1>1 DEF Placed
    <2>2. \A u \in own : /\ RunOf(w, u).variant = u
                          /\ RunOf(w, u).accepted = form[w].grid[u].accepted
                          /\ RunOf(w, u).spent = IF Share(w, u) > 0 THEN Share(w, u) ELSE 0
        BY DEF RunOf
    <2> QED BY <2>1, <2>2
<1>6. \A v \in Variants : Share(w, v) \in Int /\ form[w].grid[v].accepted \in Nat
    BY <1>2, SharesOf, FormTypes
<1>7. DOMAIN runs' = DOMAIN runs \cup {place[v] : v \in own}
    BY <1>1 DEF Placed
<1>8. \A n \in DOMAIN runs : n \in DOMAIN runs' /\ runs'[n] = runs[n]
    BY <1>1 DEF Placed
<1>9. \A v \in own : place[v] \in Nat /\ place[v] > Len(runs)
    BY <1>1 DEF Placed
<1>10. price' = [v \in Variants |->
                    IF v \in own
                    THEN UnitCost(Share(w, v), form[w].grid[v].accepted, price[v])
                    ELSE price[v]]
    BY <1>2 DEF Save
<1> HIDE DEF own
<1> SUFFICES ASSUME NEW v \in Variants PROVE PriceFits(v)'
    BY DEF PriceIsLastCost, PriceFits, CostedRuns
<1> DEFINE costs == v \in own /\ form[w].grid[v].accepted > 0 /\ Share(w, v) > 0
<1>11. CASE ~costs
    <2>1. CostedRuns(v)' = CostedRuns(v)
        BY <1>5, <1>6, <1>7, <1>8, <1>11 DEF CostedRuns
    <2>2. price'[v] = price[v]
        BY <1>10, <1>11 DEF UnitCost
    <2>3. CASE CostedRuns(v) = {}
        BY <1>4, <2>1, <2>2, <2>3 DEF PriceFits
    <2>4. CASE CostedRuns(v) # {}
        <3>1. IsFiniteSet(CostedRuns(v)) /\ CostedRuns(v) \subseteq Nat
            BY <1>2, RunFacts DEF CostedRuns
        <3>2. Max(CostedRuns(v)) \in DOMAIN runs
            BY <2>4, <3>1, MaxIs DEF CostedRuns
        <3>3. runs'[Max(CostedRuns(v))] = runs[Max(CostedRuns(v))]
            BY <1>8, <3>2
        <3> QED BY <1>4, <2>1, <2>2, <2>4, <3>3 DEF PriceFits
    <2> QED BY <2>3, <2>4
<1>12. CASE costs
    <2> DEFINE a == form[w].grid[v].accepted
               s == Share(w, v)
               n == place[v]
    <2>1. a \in Nat /\ a > 0 /\ s \in Nat
        BY <1>6, <1>12
    <2>2. price'[v] = HalfUp(s, a)
        BY <1>10, <1>12 DEF UnitCost
    <2>3. runs'[n].accepted = a /\ runs'[n].spent = s /\ runs'[n].variant = v
          /\ n \in DOMAIN runs' /\ n \in Nat /\ n > Len(runs)
        BY <1>5, <1>9, <1>12
    <2>4. n \in CostedRuns(v)'
        BY <1>12, <2>3 DEF CostedRuns
    <2>5. \A m \in CostedRuns(v)' : m <= n
        <3> SUFFICES ASSUME NEW m \in CostedRuns(v)' PROVE m <= n
            OBVIOUS
        <3>1. m \in DOMAIN runs' /\ runs'[m].variant = v
            BY DEF CostedRuns
        <3>2. CASE m \in DOMAIN runs
            <4>1. m \in Nat /\ m <= Len(runs) /\ Len(runs) \in Nat
                BY <1>2, <3>2, RunFacts
            <4> QED BY <2>3, <4>1
        <3>3. CASE m \notin DOMAIN runs
            <4>1. PICK u \in own : m = place[u]
                BY <1>7, <3>1, <3>3
            <4>2. u = v
                BY <1>5, <3>1, <4>1
            <4> QED BY <2>3, <4>1, <4>2
        <3> QED BY <3>2, <3>3
    <2>6. CostedRuns(v)' \subseteq Nat
        <3>1. Len(runs)' \in Nat /\ DOMAIN runs' = 1..Len(runs')
            BY <1>3 DEF TypeOK
        <3> QED BY <3>1 DEF CostedRuns
    <2> DEFINE C == CostedRuns(v)'
    <2> HIDE DEF a, s, n, C
    <2>7. Max(C) = n
        <3>1. \E x \in C : \A y \in C : x >= y
            BY <2>3, <2>4, <2>5, <2>6 DEF C
        <3>2. Max(C) \in C /\ \A y \in C : Max(C) >= y
            BY <3>1 DEF Max
        <3> QED BY <2>3, <2>4, <2>5, <2>6, <3>2 DEF C
    <2>8. 2 * (HalfUp(s, a) * a - s) \in (-a)..a
        BY <2>1, HalfUpNear
    <2>9. PriceFits(v)' <=> IF C = {} THEN price'[v] = 0
                            ELSE 2 * (price'[v] * runs'[Max(C)].accepted - runs'[Max(C)].spent)
                                   \in (-runs'[Max(C)].accepted)..runs'[Max(C)].accepted
        BY DEF PriceFits, C
    <2>10. C # {}
        BY <2>4 DEF C
    <2> QED BY <2>2, <2>3, <2>7, <2>8, <2>9, <2>10
<1> QED BY <1>11, <1>12

-----------------------------------------------------------------------------
(* No batch waits for ever *)

\* Of the batches that have a row to file, the one whose next row comes last in
\* the grid waits for nobody: who holds that row already is beyond it.
LEMMA SomeGoesOn ==
    ASSUME BatchInv
    PROVE  BatchesGoOn
<1> SUFFICES ASSUME NEW x \in Workers, Filing(x),
                    \A u \in Workers : Filing(u) => ToFile(u) # {}
             PROVE  \E w \in Workers, v \in Variants :
                        /\ Filing(w) /\ NextRow(w, v)
                        /\ IsLine(w, v) => LineFree(w)
                        /\ Share(w, v) > 0 => PriceFree(w, v)
    BY DEF BatchesGoOn
<1>1. ASSUME NEW u \in Workers, Filing(u)
      PROVE  \E v \in Variants : NextRow(u, v)
    <2>1. ToFile(u) \subseteq Nat /\ ToFile(u) \subseteq Variants /\ ToFile(u) # {}
        BY <1>1, ManufacturingAssumption DEF ToFile, RowsOf
    <2>2. \E v \in ToFile(u) : \A y \in ToFile(u) : v <= y
        BY <2>1, LeastOf
    <2> QED BY <2>1, <2>2 DEF NextRow
<1> DEFINE N == {v \in Variants : \E u \in Workers : Filing(u) /\ NextRow(u, v)}
<1>2. N # {}
    BY <1>1
<1>3. IsFiniteSet(N) /\ N \subseteq Nat
    BY ManufacturingAssumption, FS_Subset
<1>4. PICK v \in N : \A y \in N : y <= v
    <2> HIDE DEF N
    <2> QED BY <1>2, <1>3, GreatestOf
<1>5. PICK w \in Workers : Filing(w) /\ NextRow(w, v)
    BY <1>4
<1>6. ASSUME NEW u \in Workers \ {w}, Filing(u)
      PROVE  v \notin form[u].filed
    <2>1. PICK y \in Variants : NextRow(u, y)
        BY <1>1, <1>6
    <2>2. y \in N /\ y <= v
        BY <1>4, <1>6, <2>1
    <2>3. v \in form[u].filed => v < y
        BY <1>6, <2>1 DEF NextRow, ToFile, BatchInv, FormsInv, FormFits
    <2>4. v \in Nat /\ y \in Nat
        BY <1>3, <2>2
    <2> QED BY <2>2, <2>3, <2>4
<1>7. IsLine(w, v) => LineFree(w)
    BY <1>6 DEF LineFree, IsLine
<1>8. PriceFree(w, v)
    BY <1>6 DEF PriceFree
<1> QED BY <1>4, <1>5, <1>7, <1>8

-----------------------------------------------------------------------------
(* The theorems about batches *)

\* A step of the instance, as far as batches go.
LEMMA MoneyOutBatch ==
    ASSUME [MoneyOutNext]_<<vars, xvars, focus>>
    PROVE  [Next]_vars
BY DEF MoneyOutNext, vars, xvars

LEMMA OtherSteps ==
    ASSUME BatchInv, [Next]_vars, ~\E w \in Workers : Commit(w)
    PROVE  UNCHANGED <<price, runs>>
BY DEF Next, Post, FileRow, RollBack, Produce, vars

\* A batch is filed as a whole or not at all, its expenses add up to what was
\* typed, the line gets no more than it needs and the batches never wait for each
\* other for ever, unless a cost is so small that the shares' rounding exceeds it.
THEOREM BatchesAreFiled ==
    ASSUME CostsCoverRounding
    PROVE  MoneyOutSpec => []BatchesFiled
<1> DEFINE Inv == BatchInv /\ BatchWhole /\ CostsKept
<1>1. MoneyOutInit => Inv
    <2> SUFFICES ASSUME MoneyOutInit PROVE Inv
        OBVIOUS
    <2>1. Init
        BY DEF MoneyOutInit
    <2>2. DOMAIN runs = {}
        BY <2>1 DEF Init
    <2> QED BY <2>1, <2>2, BatchStart DEF BatchWhole, CostsKept
<1>2. Inv /\ [MoneyOutNext]_<<vars, xvars, focus>> => Inv'
    <2> SUFFICES ASSUME Inv, [MoneyOutNext]_<<vars, xvars, focus>> PROVE Inv'
        OBVIOUS
    <2>1. [Next]_vars /\ BatchInv'
        BY MoneyOutBatch, BatchStep
    <2>2. CASE \E w \in Workers : Commit(w)
        BY <2>1, <2>2, StaysWhole, StaysPaid
    <2>3. CASE ~\E w \in Workers : Commit(w)
        <3>1. runs' = runs
            BY <2>1, <2>3, OtherSteps
        <3>2. BatchWhole'
            BY <3>1 DEF BatchWhole, RunsOfBatch
        <3>3. CostsKept'
            BY <3>1 DEF CostsKept, SameBatch, SpentIn
        <3> QED BY <2>1, <3>2, <3>3
    <2> QED BY <2>2, <2>3
<1>3. Inv => BatchesFiled
    BY SpendIsSum, SomeGoesOn DEF BatchInv, BatchesFiled, FilingHolds
<1> HIDE DEF Inv
<1> QED BY <1>1, <1>2, <1>3, PTL DEF MoneyOutSpec

\* The cost price of a variant is what the last run that cost something absorbed,
\* to the rounding of one unit, in whatever order batches file and commit.
THEOREM PricesAreLast ==
    MoneyOutSpec => []BatchPrices
<1> DEFINE Inv == BatchInv /\ PriceIsLastCost
<1>1. MoneyOutInit => Inv
    <2> SUFFICES ASSUME MoneyOutInit PROVE Inv
        OBVIOUS
    <2>1. Init
        BY DEF MoneyOutInit
    <2>2. DOMAIN runs = {} /\ \A v \in Variants : price[v] = 0
        BY <2>1 DEF Init
    <2> QED BY <2>1, <2>2, BatchStart DEF PriceIsLastCost
<1>2. Inv /\ [MoneyOutNext]_<<vars, xvars, focus>> => Inv'
    <2> SUFFICES ASSUME Inv, [MoneyOutNext]_<<vars, xvars, focus>> PROVE Inv'
        OBVIOUS
    <2>1. [Next]_vars /\ BatchInv'
        BY MoneyOutBatch, BatchStep
    <2>2. CASE \E w \in Workers : Commit(w)
        BY <2>1, <2>2, PriceStays
    <2>3. CASE ~\E w \in Workers : Commit(w)
        <3>1. runs' = runs /\ price' = price
            BY <2>1, <2>3, OtherSteps
        <3>2. PriceIsLastCost'
            BY <3>1 DEF PriceIsLastCost
        <3> QED BY <2>1, <3>2
    <2> QED BY <2>2, <2>3
<1>3. Inv => BatchPrices
    BY DEF BatchPrices
<1> HIDE DEF Inv
<1> QED BY <1>1, <1>2, <1>3, PTL DEF MoneyOutSpec

-----------------------------------------------------------------------------
(* What is paid out: the invariant *)

\* Rates of which each, if it is set, was once on record.
RatesKnown(rates) ==
    /\ rates \in [Foreign -> Nat]
    /\ \A c \in Foreign : rates[c] # Nil => rates[c] \in known[c]

Row ==
    [kind : {"expense", "accrual", "payment", "personal"},
     cat : ExpenseCategories \cup {""} \cup {bill.tag : bill \in Purchases},
     who : {""} \cup {bill.who : bill \in Operations \cup RunForms},
     amount : Nat, cur : PaidIn, rate : Nat \ {0}, date : Dates, edited : BOOLEAN]

\* Rows of soms have the rate 1.  Other rows, if nobody changed their currency, have
\* one that was on record or were filed without any, which the two pages of
\* expenses refuse.
GoodRows ==
    {e \in Row :
        /\ e.kind = "expense" => e.cat \in ExpenseCategories
        /\ e.cur = "KGS" => e.rate = 1
        /\ e.cur # "KGS" /\ ~e.edited =>
              /\ e.rate = 1 \/ e.rate \in known[e.cur]
              /\ e.kind \in {"expense", "personal"} /\ e.who = "" => known[e.cur] # {}}

Batch == [form : RunForms, cost : Nat \cup {NoCost}]

SpendTypes ==
    /\ filed \in Seq(GoodRows) /\ batches \in Seq(Batch)
    /\ costPrice \in Nat /\ costByHand \in BOOLEAN
    /\ known \in [Foreign -> SUBSET (Nat \ {0})]
    /\ RatesKnown(rateRows)
    /\ rateCache = <<>> \/ RatesKnown(rateCache)
    /\ rateInHand = <<>> \/ RatesKnown(rateInHand)

CostedBatches == {i \in DOMAIN batches : batches[i].cost # NoCost}

\* The cost price is that of the last costed run, unless a hand set it.
PriceByRun ==
    costByHand \/ CostedBatches = {} \/ costPrice = batches[Max(CostedBatches)].cost

SpendInv == SpendTypes /\ PriceByRun

LEMMA SpendConstants ==
    /\ Today \in Nat /\ LastDate \in Nat /\ Today <= LastDate /\ "KGS" \notin Foreign
    /\ \A rate \in NewRates : rate \in Nat \ {0}
    /\ \A cost \in HandCosts : cost \in Nat
    /\ \A bill \in Bills      : /\ bill.cat \in ExpenseCategories /\ bill.amount \in Nat
                               /\ bill.cur \in PaidIn /\ bill.date \in Dates
    /\ \A bill \in Purchases  : /\ bill.amount \in Nat
                               /\ bill.cur \in PaidIn /\ bill.date \in Dates
    /\ \A bill \in Operations : /\ bill.kind \in {"accrual", "payment"} /\ bill.amount \in Nat
                               /\ bill.cur \in PaidIn /\ bill.date \in Dates
    /\ \A bill \in RunForms   : /\ bill.accepted \in Nat /\ bill.defect \in Nat
                               /\ bill.fabric \in Nat /\ bill.trim \in Nat /\ bill.labor \in Nat
                               /\ bill.cur \in PaidIn /\ bill.date \in Dates /\ bill.who # ""
BY SpendingAssumption

LEMMA SpendStart ==
    ASSUME XInit
    PROVE  SpendInv
<1>1. <<>> \in Seq(GoodRows) /\ <<>> \in Seq(Batch)
    OBVIOUS
<1>2. CostedBatches = {}
    BY DEF XInit, CostedBatches
<1> QED BY <1>1, <1>2 DEF XInit, SpendInv, SpendTypes, PriceByRun, RatesKnown, Nil

LEMMA RateInUse ==
    ASSUME SpendTypes, NEW cur \in PaidIn
    PROVE  /\ RatesKnown(Cached)
           /\ SnapshotRate(cur) \in Nat \ {0}
           /\ cur = "KGS" => SnapshotRate(cur) = 1
           /\ cur # "KGS" => cur \in Foreign
           /\ cur # "KGS" => SnapshotRate(cur) = 1 \/ SnapshotRate(cur) \in known[cur]
           /\ cur # "KGS" /\ ~NoRateOnRecord(cur) => known[cur] # {}
<1>1. RatesKnown(Cached)
    BY DEF Cached, SpendTypes
<1>2. cur # "KGS" => cur \in Foreign
    BY DEF PaidIn
<1>3. cur # "KGS" /\ ~NoRateOnRecord(cur) => known[cur] # {}
    BY <1>2 DEF NoRateOnRecord, SpendTypes, RatesKnown
<1>4. cur # "KGS" => SnapshotRate(cur) = 1 \/ SnapshotRate(cur) \in known[cur]
    BY <1>1, <1>2 DEF SnapshotRate, RatesKnown
<1>5. SnapshotRate(cur) \in Nat \ {0}
    BY <1>1, <1>2 DEF SnapshotRate, RatesKnown, Nil
<1> QED BY <1>1, <1>2, <1>3, <1>4, <1>5 DEF SnapshotRate

LEMMA EntryIsGood ==
    ASSUME SpendTypes, NEW kind \in {"expense", "accrual", "payment", "personal"},
           NEW cat \in ExpenseCategories \cup {""} \cup {bill.tag : bill \in Purchases},
           NEW who \in {""} \cup {bill.who : bill \in Operations \cup RunForms},
           NEW amount \in Nat, NEW bill, bill.cur \in PaidIn, bill.date \in Dates,
           kind = "expense" => cat \in ExpenseCategories,
           kind \in {"expense", "personal"} /\ who = "" => ~NoRateOnRecord(bill.cur)
    PROVE  Entry(kind, cat, who, amount, bill) \in GoodRows
<1> DEFINE e == Entry(kind, cat, who, amount, bill)
<1>1. /\ e.kind = kind /\ e.cat = cat /\ e.who = who /\ e.cur = bill.cur
      /\ e.rate = SnapshotRate(bill.cur) /\ e.edited = FALSE
    BY DEF Entry
<1>2. e \in Row
    BY RateInUse DEF Entry, Row
<1> HIDE DEF e
<1>3. e \in GoodRows
    BY <1>1, <1>2, RateInUse DEF GoodRows
<1> QED BY <1>3 DEF e

\* Sequences of more are sequences of more.
LEMMA SeqGrows ==
    ASSUME NEW S, NEW T, S \subseteq T, NEW s \in Seq(S)
    PROVE  s \in Seq(T)
OBVIOUS

LEMMA OneOrNone ==
    ASSUME NEW S, NEW s, s = <<>> \/ \E x \in S : s = <<x>>
    PROVE  s \in Seq(S)
<1>1. CASE s = <<>>
    BY <1>1
<1>2. ASSUME NEW x \in S, s = <<x>> PROVE s \in Seq(S)
    BY <1>2
<1> QED BY <1>1, <1>2

\* What File does to the invariant, whatever it files.
LEMMA FileGood ==
    ASSUME SpendTypes, NEW rows \in Seq(GoodRows), NEW cur \in PaidIn, File(rows, cur)
    PROVE  /\ filed' \in Seq(GoodRows') /\ known' = known
           /\ RatesKnown(rateRows)' /\ (rateCache = <<>> \/ RatesKnown(rateCache))'
           /\ (rateInHand = <<>> \/ RatesKnown(rateInHand))'
<1>1. filed' = filed \o rows /\ UNCHANGED <<rateRows, rateInHand, known, touched>>
    BY DEF File
<1>2. GoodRows' = GoodRows
    BY <1>1 DEF GoodRows, Row
<1>3. filed' \in Seq(GoodRows)
    BY <1>1, ConcatProperties DEF SpendTypes
<1>4. rateCache' = rateCache \/ rateCache' = Cached
    BY DEF File, LookUp
<1>5. RatesKnown(Cached)
    BY RateInUse DEF PaidIn
<1>6. (rateCache = <<>> \/ RatesKnown(rateCache))'
    BY <1>1, <1>4, <1>5 DEF SpendTypes, RatesKnown
<1> QED BY <1>1, <1>2, <1>3, <1>6 DEF SpendTypes, RatesKnown

\* Most steps leave runs and cost price alone.
LEMMA CostsAlone ==
    ASSUME SpendInv, UNCHANGED <<batches, costPrice, costByHand>>
    PROVE  PriceByRun' /\ batches' \in Seq(Batch) /\ costPrice' \in Nat /\ costByHand' \in BOOLEAN
BY DEF SpendInv, SpendTypes, PriceByRun, CostedBatches

LEMMA FilingKeeps ==
    ASSUME SpendInv,
           \/ \E bill \in Bills : RecordExpense(bill)
           \/ \E bill \in Purchases : RecordPersonal(bill)
           \/ \E bill \in Operations : AddOperation(bill)
    PROVE  SpendInv'
<1>1. PICK e \in GoodRows, cur \in PaidIn :
          File(<<e>>, cur) /\ UNCHANGED <<batches, costPrice, costByHand>>
    <2>1. CASE \E bill \in Bills : RecordExpense(bill)
        <3>1. PICK bill \in Bills : RecordExpense(bill)
            BY <2>1
        <3> DEFINE x == Entry("expense", bill.cat, "", bill.amount, bill)
        <3>2. x \in GoodRows
            BY <3>1, SpendConstants, EntryIsGood DEF RecordExpense, SpendInv
        <3>3. File(<<x>>, bill.cur) /\ UNCHANGED <<batches, costPrice, costByHand>>
            BY <3>1 DEF RecordExpense
        <3> HIDE DEF x
        <3> QED BY <3>2, <3>3, SpendConstants
    <2>2. CASE \E bill \in Purchases : RecordPersonal(bill)
        <3>1. PICK bill \in Purchases : RecordPersonal(bill)
            BY <2>2
        <3> DEFINE x == Entry("personal", bill.tag, "", bill.amount, bill)
        <3>2. x \in GoodRows
            BY <3>1, SpendConstants, EntryIsGood DEF RecordPersonal, SpendInv
        <3>3. File(<<x>>, bill.cur) /\ UNCHANGED <<batches, costPrice, costByHand>>
            BY <3>1 DEF RecordPersonal
        <3> HIDE DEF x
        <3> QED BY <3>2, <3>3, SpendConstants
    <2>3. CASE \E bill \in Operations : AddOperation(bill)
        <3>1. PICK bill \in Operations : AddOperation(bill)
            BY <2>3
        <3>2. /\ bill.kind \in {"accrual", "payment"} /\ bill.amount \in Nat
              /\ bill.cur \in PaidIn /\ bill.date \in Dates
            BY SpendConstants
        <3> DEFINE x == Entry(bill.kind, "", bill.who, bill.amount, bill)
        <3>3. x \in GoodRows
            BY <3>2, EntryIsGood DEF SpendInv
        <3>4. File(<<x>>, bill.cur) /\ UNCHANGED <<batches, costPrice, costByHand>>
            BY <3>1 DEF AddOperation
        <3> HIDE DEF x
        <3> QED BY <3>2, <3>3, <3>4
    <2> QED BY <2>1, <2>2, <2>3
<1>2. <<e>> \in Seq(GoodRows)
    BY OneOrNone
<1> QED BY <1>1, <1>2, FileGood, CostsAlone DEF SpendInv, SpendTypes

\* The cost of a unit, rounded half up, may be nothing but never less.
LEMMA UnitCostIs ==
    ASSUME SpendTypes, NEW bill \in RunForms, IsCosted(bill)
    PROVE  UnitCostOf(bill) \in Nat
<1> DEFINE total == (bill.fabric + bill.trim + bill.labor) * SnapshotRate(bill.cur)
<1>1. SnapshotRate(bill.cur) \in Nat
    BY RateInUse, SpendConstants
<1>2. bill.fabric + bill.trim + bill.labor \in Nat /\ bill.accepted \in Nat /\ bill.accepted > 0
    <2>1. bill.fabric \in Nat /\ bill.trim \in Nat /\ bill.labor \in Nat /\ bill.accepted \in Nat
        BY SpendConstants
    <2>2. bill.accepted > 0
        BY DEF IsCosted
    <2> QED BY <2>1, <2>2
<1>3. total \in Nat
    BY <1>1, <1>2
<1> HIDE DEF total
<1>4. 2 * total + bill.accepted \in Nat /\ 2 * bill.accepted \in Nat /\ 2 * bill.accepted > 0
    BY <1>2, <1>3
<1>5. (2 * total + bill.accepted) \div (2 * bill.accepted) \in Nat
    BY <1>4, Quotient
<1> QED BY <1>5 DEF UnitCostOf, total

LEMMA RunKeeps ==
    ASSUME SpendInv, NEW bill \in RunForms, RecordRun(bill)
    PROVE  SpendInv'
<1> DEFINE rows == CostRow("fabric", bill.fabric, bill) \o CostRow("trim", bill.trim, bill)
                   \o CostRow("labor", bill.labor, bill) \o Accrued(bill)
           cost == IF IsCosted(bill) THEN UnitCostOf(bill) ELSE NoCost
           run  == [form |-> bill, cost |-> cost]
<1>1. ASSUME NEW cat \in {"fabric", "trim", "labor"}, NEW amount \in Nat
      PROVE  CostRow(cat, amount, bill) \in Seq(GoodRows)
    <2>1. Entry("expense", cat, bill.who, amount, bill) \in GoodRows
        BY SpendConstants, EntryIsGood DEF SpendInv, ExpenseCategories
    <2> DEFINE x == Entry("expense", cat, bill.who, amount, bill)
    <2>2. CostRow(cat, amount, bill) = <<>> \/ CostRow(cat, amount, bill) = <<x>>
        BY DEF CostRow
    <2> HIDE DEF x
    <2>3. x \in GoodRows
        BY <2>1 DEF x
    <2> QED BY <2>2, <2>3, OneOrNone
<1>2. Accrued(bill) \in Seq(GoodRows)
    <2>1. Entry("accrual", "", bill.who, bill.labor, bill) \in GoodRows
        BY SpendConstants, EntryIsGood DEF SpendInv
    <2> DEFINE x == Entry("accrual", "", bill.who, bill.labor, bill)
    <2>2. Accrued(bill) = <<>> \/ Accrued(bill) = <<x>>
        BY DEF Accrued
    <2> HIDE DEF x
    <2>3. x \in GoodRows
        BY <2>1 DEF x
    <2> QED BY <2>2, <2>3, OneOrNone
<1>3. rows \in Seq(GoodRows)
    <2>1. /\ CostRow("fabric", bill.fabric, bill) \in Seq(GoodRows)
          /\ CostRow("trim", bill.trim, bill) \in Seq(GoodRows)
          /\ CostRow("labor", bill.labor, bill) \in Seq(GoodRows)
        BY <1>1, SpendConstants
    <2> QED BY <1>2, <2>1, ConcatProperties
<1>4. File(rows, bill.cur) /\ bill.cur \in PaidIn
    BY SpendConstants DEF RecordRun
<1> HIDE DEF rows
<1>5. /\ filed' \in Seq(GoodRows') /\ known' = known
      /\ RatesKnown(rateRows)' /\ (rateCache = <<>> \/ RatesKnown(rateCache))'
      /\ (rateInHand = <<>> \/ RatesKnown(rateInHand))'
    BY <1>3, <1>4, FileGood DEF SpendInv
<1>6. cost \in Nat \cup {NoCost} /\ (cost # NoCost <=> IsCosted(bill))
    BY UnitCostIs DEF SpendInv, NoCost
<1>7. /\ batches' = Append(batches, run)
      /\ costPrice' = (IF IsCosted(bill) THEN cost ELSE costPrice)
      /\ costByHand' = (costByHand /\ ~IsCosted(bill))
    BY DEF RecordRun
<1>8. run \in Batch /\ run.cost = cost
    BY <1>6 DEF Batch
<1> HIDE DEF cost, run
<1>9. /\ batches' \in Seq(Batch) /\ costPrice' \in Nat /\ costByHand' \in BOOLEAN
    BY <1>6, <1>7, <1>8 DEF SpendInv, SpendTypes, NoCost
<1>10. SpendTypes'
    BY <1>5, <1>9 DEF SpendInv, SpendTypes
<1>11. PriceByRun'
    <2> DEFINE L == Len(batches)
    <2>1. /\ L \in Nat /\ DOMAIN batches = 1..L /\ DOMAIN batches' = 1..(L + 1)
          /\ batches'[L + 1] = run /\ \A i \in 1..L : batches'[i] = batches[i]
        BY <1>7, <1>8 DEF SpendInv, SpendTypes
    <2> HIDE DEF L
    <2>2. CASE IsCosted(bill)
        <3>1. L + 1 \in CostedBatches' /\ CostedBatches' \subseteq 1..(L + 1)
            BY <1>6, <1>8, <2>1, <2>2 DEF CostedBatches
        <3> DEFINE C == CostedBatches'
        <3>2. L + 1 \in C /\ \A i \in C : i \in Int /\ i <= L + 1
            BY <2>1, <3>1
        <3> HIDE DEF C
        <3>3. Max(C) = L + 1
            <4>1. \E x \in C : \A y \in C : x >= y
                BY <2>1, <3>2
            <4>2. Max(C) \in C /\ \A y \in C : Max(C) >= y
                BY <4>1 DEF Max
            <4> QED BY <2>1, <3>2, <4>2
        <3>4. costPrice' = batches'[Max(C)].cost
            BY <1>7, <1>8, <2>1, <2>2, <3>3
        <3> QED BY <3>4 DEF PriceByRun, C
    <2>3. CASE ~IsCosted(bill)
        <3>1. CostedBatches' = CostedBatches
            BY <1>6, <1>8, <2>1, <2>3 DEF CostedBatches
        <3>2. CASE CostedBatches = {}
            BY <3>1, <3>2 DEF PriceByRun
        <3>3. CASE CostedBatches # {}
            <4>1. IsFiniteSet(CostedBatches) /\ CostedBatches \subseteq Nat
                <5>1. IsFiniteSet(1..L)
                    BY <2>1, FS_Interval
                <5> QED BY <2>1, <5>1, FS_Subset DEF CostedBatches
            <4>2. Max(CostedBatches) \in 1..L
                BY <2>1, <3>3, <4>1, MaxIs DEF CostedBatches
            <4>3. batches'[Max(CostedBatches)] = batches[Max(CostedBatches)]
                BY <2>1, <4>2
            <4> QED BY <1>7, <2>3, <3>1, <4>3 DEF SpendInv, PriceByRun
        <3> QED BY <3>2, <3>3
    <2> QED BY <2>2, <2>3
<1> QED BY <1>10, <1>11 DEF SpendInv

LEMMA EditKeeps ==
    ASSUME SpendInv, NEW i \in DOMAIN filed,
           \/ \E cur \in PaidIn : EditCurrency(i, cur)
           \/ \E date \in Dates : EditDate(i, date)
    PROVE  SpendInv'
<1>1. UNCHANGED <<batches, costPrice, costByHand, rateRows, rateCache, rateInHand, known>>
    BY DEF EditCurrency, EditDate
<1>2. filed[i] \in GoodRows /\ filed[i] \in Row
    <2>1. filed \in Seq(GoodRows)
        BY DEF SpendInv, SpendTypes
    <2>2. filed[i] \in GoodRows
        BY <2>1
    <2> QED BY <2>2 DEF GoodRows
<1>3. \E e \in GoodRows : filed' = [filed EXCEPT ![i] = e]
    <2>1. CASE \E cur \in PaidIn : EditCurrency(i, cur)
        <3>1. PICK cur \in PaidIn : EditCurrency(i, cur)
            BY <2>1
        <3> DEFINE e == [filed[i] EXCEPT !.cur = cur, !.edited = TRUE]
        <3>2. filed' = [filed EXCEPT ![i] = e]
            BY <3>1 DEF EditCurrency
        <3>3. e \in Row /\ e.edited /\ e.cur = cur /\ e.rate = filed[i].rate
              /\ e.kind = filed[i].kind /\ e.cat = filed[i].cat
            BY <1>2 DEF Row
        <3>4. cur = "KGS" => filed[i].rate = 1
            BY <3>1 DEF EditCurrency
        <3> HIDE DEF e
        <3>5. e \in GoodRows
            BY <1>2, <3>3, <3>4 DEF GoodRows
        <3> QED BY <3>2, <3>5
    <2>2. CASE \E date \in Dates : EditDate(i, date)
        <3>1. PICK date \in Dates : EditDate(i, date)
            BY <2>2
        <3> DEFINE e == [filed[i] EXCEPT !.date = date]
        <3>2. filed' = [filed EXCEPT ![i] = e]
            BY <3>1 DEF EditDate
        <3>3. e \in Row /\ e.edited = filed[i].edited /\ e.cur = filed[i].cur
              /\ e.rate = filed[i].rate /\ e.kind = filed[i].kind /\ e.cat = filed[i].cat
              /\ e.who = filed[i].who
            BY <1>2 DEF Row
        <3> HIDE DEF e
        <3>4. e \in GoodRows
            BY <1>2, <3>3 DEF GoodRows
        <3> QED BY <3>2, <3>4
    <2> QED BY <2>1, <2>2
<1>4. filed' \in Seq(GoodRows)
    BY <1>3 DEF SpendInv, SpendTypes
<1>5. GoodRows' = GoodRows
    BY <1>1 DEF GoodRows, Row
<1> QED BY <1>1, <1>4, <1>5, CostsAlone DEF SpendInv, SpendTypes, RatesKnown

LEMMA HandKeeps ==
    ASSUME SpendInv, NEW cost \in HandCosts, SetCostPrice(cost)
    PROVE  SpendInv'
<1>1. /\ costPrice' = cost /\ costByHand' = TRUE
      /\ UNCHANGED <<filed, batches, rateRows, rateCache, rateInHand, known>>
    BY DEF SetCostPrice
<1>2. GoodRows' = GoodRows
    BY <1>1 DEF GoodRows, Row
<1> QED BY <1>1, <1>2, SpendConstants DEF SpendInv, SpendTypes, RatesKnown, PriceByRun

LEMMA RateKeeps ==
    ASSUME SpendInv, NEW cur \in Foreign, NEW rate \in NewRates, SetExchangeRate(cur, rate)
    PROVE  SpendInv'
<1>1. /\ rateRows' = [rateRows EXCEPT ![cur] = rate]
      /\ known' = [known EXCEPT ![cur] = @ \cup {rate}]
      /\ rateCache' = <<>>
      /\ UNCHANGED <<filed, batches, costPrice, costByHand, rateInHand>>
    BY DEF SetExchangeRate
<1>2. rate \in Nat \ {0}
    BY SpendConstants
<1>3. known' \in [Foreign -> SUBSET (Nat \ {0})] /\ \A c \in Foreign : known[c] \subseteq known'[c]
    BY <1>1, <1>2 DEF SpendInv, SpendTypes
<1>4. GoodRows \subseteq GoodRows'
    <2>1. \A e \in Row : e.cur # "KGS" => e.cur \in Foreign
        BY DEF Row, PaidIn
    <2>2. Row' = Row
        BY DEF Row
    <2> QED BY <1>3, <2>1, <2>2 DEF GoodRows
<1>5. filed' \in Seq(GoodRows')
    BY <1>1, <1>4, SeqGrows DEF SpendInv, SpendTypes
<1>6. RatesKnown(rateRows)'
    BY <1>1, <1>2, <1>3 DEF SpendInv, SpendTypes, RatesKnown
<1>7. (rateInHand = <<>> \/ RatesKnown(rateInHand))'
    BY <1>1, <1>3 DEF SpendInv, SpendTypes, RatesKnown
<1> QED BY <1>1, <1>3, <1>5, <1>6, <1>7, CostsAlone DEF SpendInv, SpendTypes

LEMMA CacheKeeps ==
    ASSUME SpendInv, LoadRates \/ StoreRates \/ ExpireRates
    PROVE  SpendInv'
<1>1. UNCHANGED <<filed, batches, costPrice, costByHand, rateRows, known>>
    BY DEF LoadRates, StoreRates, ExpireRates
<1>2. /\ rateCache' = <<>> \/ rateCache' = rateCache \/ rateCache' = rateInHand
      /\ rateInHand' = <<>> \/ rateInHand' = rateInHand \/ rateInHand' = rateRows
    BY DEF LoadRates, StoreRates, ExpireRates
<1>3. GoodRows' = GoodRows
    BY <1>1 DEF GoodRows, Row
<1>4. /\ (rateCache = <<>> \/ RatesKnown(rateCache))'
      /\ (rateInHand = <<>> \/ RatesKnown(rateInHand))'
    BY <1>1, <1>2 DEF SpendInv, SpendTypes, RatesKnown
<1> QED BY <1>1, <1>3, <1>4, CostsAlone DEF SpendInv, SpendTypes, RatesKnown

LEMMA SpendStep ==
    ASSUME SpendInv, [XNext]_xvars
    PROVE  SpendInv'
<1>1. CASE UNCHANGED xvars
    <2>1. UNCHANGED <<filed, batches, costPrice, costByHand, rateRows, rateCache, rateInHand, known>>
        BY <1>1 DEF xvars
    <2>2. GoodRows' = GoodRows
        BY <2>1 DEF GoodRows, Row
    <2> QED BY <2>1, <2>2, CostsAlone DEF SpendInv, SpendTypes, RatesKnown
<1>2. CASE XNext
    BY <1>2, FilingKeeps, RunKeeps, EditKeeps, HandKeeps, RateKeeps, CacheKeeps DEF XNext
<1> QED BY <1>1, <1>2

-----------------------------------------------------------------------------
(* What is paid out: the figures *)

\* The audit lists the rows of which the rate was never on record.
LEMMA RatesListed ==
    ASSUME SpendInv
    PROVE  MisfiledIsListed
<1> SUFFICES ASSUME NEW i \in DOMAIN filed
             PROVE  LET e == filed[i]
                    IN  /\ Verdict(e) # "corrupt"
                        /\ e.cur # "KGS" /\ e.rate \notin known[e.cur]
                             => e.edited \/ e.kind = "personal" \/ Verdict(e) = "unconverted"
                        /\ e.kind \in {"expense", "personal"} /\ e.who = "" /\ ~e.edited
                             => e.cur = "KGS" \/ known[e.cur] # {}
    BY DEF MisfiledIsListed
<1>1. filed[i] \in GoodRows
    <2>1. filed \in Seq(GoodRows)
        BY DEF SpendInv, SpendTypes
    <2> QED BY <2>1
<1> QED BY <1>1 DEF GoodRows, Row, Verdict, AuditedKinds

LEMMA GapByHand ==
    ASSUME SpendInv
    PROVE  GapIsMadeByHand
<1>1. CASE CostedBatches = {}
    BY <1>1 DEF GapIsMadeByHand, CostGap, CostedBatches
<1>2. CASE costPrice = batches[Max(CostedBatches)].cost
    <2>1. costPrice \in Nat
        BY DEF SpendInv, SpendTypes
    <2>2. CostGap = 0
        BY <1>2, <2>1 DEF CostGap, CostedBatches
    <2> QED BY <2>2 DEF GapIsMadeByHand
<1>3. CASE costByHand
    BY <1>3 DEF GapIsMadeByHand
<1> QED BY <1>1, <1>2, <1>3 DEF SpendInv, PriceByRun

LEMMA RowsAre ==
    ASSUME SpendInv
    PROVE  /\ IsFiniteSet(DOMAIN filed) /\ DOMAIN filed \subseteq Nat
           /\ \A i \in DOMAIN filed : filed[i] \in GoodRows /\ filed[i] \in Row
<1>1. filed \in Seq(GoodRows)
    BY DEF SpendInv, SpendTypes
<1>2. DOMAIN filed = 1..Len(filed) /\ Len(filed) \in Nat
    BY <1>1
<1>3. \A i \in DOMAIN filed : filed[i] \in GoodRows
    BY <1>1
<1>4. \A i \in DOMAIN filed : filed[i] \in Row
    BY <1>3 DEF GoodRows
<1>5. IsFiniteSet(DOMAIN filed) /\ DOMAIN filed \subseteq Nat
    BY <1>2, FS_Interval
<1> QED BY <1>3, <1>4, <1>5

LEMMA DatesAre ==
    ASSUME SpendInv, NEW i \in DOMAIN filed
    PROVE  filed[i].date \in Nat /\ filed[i].date <= LastDate
<1>1. filed[i].date \in 0..LastDate
    BY RowsAre DEF Row, Dates
<1>2. LastDate \in Nat
    BY SpendConstants
<1> QED BY <1>1, <1>2

\* What each row is worth, and its category.
InSoms == [i \in DOMAIN filed |-> filed[i].amount * filed[i].rate]
Category == [i \in DOMAIN filed |-> filed[i].cat]

LEMMA WorthIs ==
    ASSUME SpendInv, NEW rows \in SUBSET DOMAIN filed
    PROVE  /\ IsFiniteSet(rows) /\ \A i \in rows : InSoms[i] \in Int
           /\ Worth(rows) = SumOf(InSoms, rows) /\ Worth(rows) \in Int
<1>1. IsFiniteSet(rows)
    BY RowsAre, FS_Subset
<1>2. \A i \in rows : InSoms[i] \in Int
    <2> SUFFICES ASSUME NEW i \in rows PROVE InSoms[i] \in Int
        OBVIOUS
    <2>1. filed[i].amount \in Nat /\ filed[i].rate \in Nat
        BY RowsAre DEF Row
    <2> QED BY <2>1 DEF InSoms
<1>3. Worth(rows) = SumOf(InSoms, rows)
    BY DEF Worth, InSoms, SumOf, MapThenSumSet, MapThenFoldSet
<1> QED BY <1>1, <1>2, <1>3, SumInt

LEMMA WorthOfTwo ==
    ASSUME SpendInv, NEW S \in SUBSET DOMAIN filed, NEW R \in SUBSET DOMAIN filed, S \cap R = {}
    PROVE  Worth(S \cup R) = Worth(S) + Worth(R)
<1>1. S \cup R \in SUBSET DOMAIN filed
    OBVIOUS
<1>2. IsFiniteSet(S) /\ IsFiniteSet(R) /\ \A i \in S \cup R : InSoms[i] \in Int
    BY WorthIs
<1> QED BY <1>1, <1>2, WorthIs, SumUnion

\* The expenses of a period in some of the categories.
Of(K, from, to) == {i \in RowsOfKind("expense", from, to) : filed[i].cat \in K}

LEMMA WorthOfCategories ==
    ASSUME SpendInv, NEW from, NEW to, NEW K, IsFiniteSet(K)
    PROVE  /\ Of(K, from, to) \in SUBSET DOMAIN filed
           /\ MapThenSumSet(LAMBDA cat : ByCategory(cat, from, to), K) = Worth(Of(K, from, to))
<1> DEFINE g == [cat \in K |-> ByCategory(cat, from, to)]
           S == RowsOfKind("expense", from, to)
<1>1. S \in SUBSET DOMAIN filed
    BY DEF RowsOfKind
<1>2. IsFiniteSet(S) /\ \A i \in S : InSoms[i] \in Int
    BY <1>1, WorthIs
<1>3. MapThenSumSet(LAMBDA cat : ByCategory(cat, from, to), K) = SumOf(g, K)
    BY DEF SumOf, MapThenSumSet, MapThenFoldSet
<1>4. ASSUME NEW cat \in K PROVE g[cat] = SumOf(InSoms, {i \in S : Category[i] = cat})
    <2>1. {i \in S : Category[i] = cat} = {i \in S : filed[i].cat = cat}
        BY <1>1 DEF Category
    <2>2. {i \in S : Category[i] = cat} \in SUBSET DOMAIN filed
        BY <1>1
    <2>3. g[cat] = Worth({i \in S : filed[i].cat = cat})
        BY DEF ByCategory
    <2> HIDE DEF g, S
    <2> QED BY <2>1, <2>2, <2>3, WorthIs
<1> HIDE DEF g
<1>5. {i \in S : Category[i] \in K} = Of(K, from, to)
    BY <1>1 DEF Category, Of
<1> HIDE DEF S
<1>6. SumOf(g, K) = SumOf(InSoms, {i \in S : Category[i] \in K})
    BY <1>2, <1>4, SumParts
<1>7. Of(K, from, to) \in SUBSET DOMAIN filed
    BY <1>1, <1>5
<1> QED BY <1>3, <1>5, <1>6, <1>7, WorthIs

LEMMA CategoriesFinite ==
    ASSUME NEW K \in SUBSET ExpenseCategories
    PROVE  IsFiniteSet(K)
<1>1. ExpenseCategories = (((({"fabric"} \cup {"trim"}) \cup {"labor"}) \cup {"rent"}) \cup {"other"})
    BY DEF ExpenseCategories
<1>2. IsFiniteSet(((({"fabric"} \cup {"trim"}) \cup {"labor"}) \cup {"rent"}) \cup {"other"})
    BY FS_Singleton, FS_Union
<1> QED BY <1>1, <1>2, FS_Subset

\* Categories that do not meet.
LEMMA CategoriesApart ==
    ASSUME SpendInv, NEW from, NEW to, NEW J, NEW K, J \cap K = {}
    PROVE  /\ Worth(Of(J \cup K, from, to)) = Worth(Of(J, from, to)) + Worth(Of(K, from, to))
           /\ Worth(Of(J, from, to)) \in Int
<1>1. /\ Of(J, from, to) \in SUBSET DOMAIN filed /\ Of(K, from, to) \in SUBSET DOMAIN filed
      /\ Of(J, from, to) \cap Of(K, from, to) = {}
      /\ Of(J \cup K, from, to) = Of(J, from, to) \cup Of(K, from, to)
    BY DEF Of, RowsOfKind
<1> QED BY <1>1, WorthOfTwo, WorthIs

LEMMA SpentIsOf ==
    ASSUME SpendInv, NEW from, NEW to
    PROVE  SpentKgs(from, to) = Worth(Of(ExpenseCategories, from, to))
<1>1. \A i \in RowsOfKind("expense", from, to) : filed[i].cat \in ExpenseCategories
    BY RowsAre DEF RowsOfKind, GoodRows
<1>2. Of(ExpenseCategories, from, to) = RowsOfKind("expense", from, to)
    BY <1>1 DEF Of
<1> QED BY <1>2 DEF SpentKgs

LEMMA SectionsAddUp ==
    ASSUME SpendInv, NEW from, NEW to
    PROVE  SpentKgs(from, to) = BySection("wages", from, to) + BySection("materials", from, to)
                                + BySection("other", from, to)
<1> DEFINE In(s) == {cat \in ExpenseCategories : SectionOf(cat) = s}
<1>1. /\ In("wages") = {"labor"} /\ In("materials") = {"fabric", "trim"}
      /\ In("other") = {"rent", "other"}
    BY DEF ExpenseCategories, SectionOf
<1>2. ASSUME NEW s \in {"wages", "materials", "other"}
      PROVE  BySection(s, from, to) = Worth(Of(In(s), from, to))
    <2>1. IsFiniteSet(In(s))
        BY CategoriesFinite
    <2>2. BySection(s, from, to) = MapThenSumSet(LAMBDA cat : ByCategory(cat, from, to), In(s))
        BY DEF BySection
    <2> HIDE DEF In
    <2> QED BY <2>1, <2>2, WorthOfCategories
<1> DEFINE A == In("wages")
           B == In("materials")
           C == In("other")
<1>3. A \cap B = {} /\ (A \cup B) \cap C = {} /\ ExpenseCategories = (A \cup B) \cup C
    BY <1>1 DEF ExpenseCategories
<1>4. /\ BySection("wages", from, to) = Worth(Of(A, from, to))
      /\ BySection("materials", from, to) = Worth(Of(B, from, to))
      /\ BySection("other", from, to) = Worth(Of(C, from, to))
    BY <1>2
<1> HIDE DEF A, B, C
<1>5. /\ Worth(Of(A \cup B, from, to)) = Worth(Of(A, from, to)) + Worth(Of(B, from, to))
      /\ Worth(Of((A \cup B) \cup C, from, to))
            = Worth(Of(A \cup B, from, to)) + Worth(Of(C, from, to))
    BY <1>3, CategoriesApart
<1> QED BY <1>3, <1>4, <1>5, SpentIsOf

LEMMA OverheadAndCosts ==
    ASSUME SpendInv, NEW from, NEW to
    PROVE  SpentKgs(from, to) = OverheadKgs(from, to) + ByCategory("other", from, to)
                                + MapThenSumSet(LAMBDA c : ByCategory(c, from, to),
                                                {"fabric", "trim", "labor"})
<1> DEFINE A == {"rent"}
           B == {"other"}
           C == {"fabric", "trim", "labor"}
<1>1. A \cap B = {} /\ (A \cup B) \cap C = {} /\ ExpenseCategories = (A \cup B) \cup C
    BY DEF ExpenseCategories
<1>2. OverheadKgs(from, to) = Worth(Of(A, from, to))
    BY DEF OverheadKgs, OverheadCategories, Of
<1>3. ByCategory("other", from, to) = Worth(Of(B, from, to))
    <2>1. {i \in RowsOfKind("expense", from, to) : filed[i].cat = "other"} = Of(B, from, to)
        BY DEF Of
    <2> QED BY <2>1 DEF ByCategory
<1>4. IsFiniteSet(C)
    BY <1>1, CategoriesFinite
<1>5. MapThenSumSet(LAMBDA c : ByCategory(c, from, to), C) = Worth(Of(C, from, to))
    BY <1>4, WorthOfCategories
<1> HIDE DEF A, B
<1>6. /\ Worth(Of(A \cup B, from, to)) = Worth(Of(A, from, to)) + Worth(Of(B, from, to))
      /\ Worth(Of((A \cup B) \cup C, from, to))
            = Worth(Of(A \cup B, from, to)) + Worth(Of(C, from, to))
    BY <1>1, CategoriesApart
<1> HIDE DEF C
<1>7. SpentKgs(from, to) = OverheadKgs(from, to) + ByCategory("other", from, to)
                          + MapThenSumSet(LAMBDA c : ByCategory(c, from, to), C)
    BY <1>1, <1>2, <1>3, <1>5, <1>6, SpentIsOf
<1> QED BY <1>7 DEF C

LEMMA DaysAddUp ==
    ASSUME SpendInv
    PROVE  SpentKgs(0, Today) + SpentKgs(Today + 1, LastDate) = SpentKgs(0, LastDate)
<1> DEFINE A == RowsOfKind("expense", 0, Today)
           B == RowsOfKind("expense", Today + 1, LastDate)
<1>1. \A i \in DOMAIN filed : filed[i].date \in 0..LastDate
    BY RowsAre DEF Row, Dates
<1>2. Today \in Nat /\ LastDate \in Nat /\ Today <= LastDate
    BY SpendConstants
<1>3. A \cup B = RowsOfKind("expense", 0, LastDate) /\ A \cap B = {}
    BY <1>1, <1>2 DEF RowsOfKind
<1>4. A \in SUBSET DOMAIN filed /\ B \in SUBSET DOMAIN filed
    BY DEF RowsOfKind
<1> QED BY <1>3, <1>4, WorthOfTwo DEF SpentKgs

\* The units of the runs of a period are those of the contractors in it.
Made == [i \in DOMAIN batches |-> batches[i].form.accepted]
Spoilt == [i \in DOMAIN batches |-> batches[i].form.defect]
Attempted == [i \in DOMAIN batches |-> batches[i].form.defect + batches[i].form.accepted]
Maker == [i \in DOMAIN batches |-> batches[i].form.who]

LEMMA OverRuns ==
    ASSUME NEW S \in SUBSET DOMAIN batches
    PROVE  /\ MapThenSumSet(LAMBDA i : batches[i].form["accepted"], S) = SumOf(Made, S)
           /\ MapThenSumSet(LAMBDA i : batches[i].form["defect"], S) = SumOf(Spoilt, S)
           /\ MapThenSumSet(LAMBDA i : batches[i].form.defect + batches[i].form.accepted, S)
                 = SumOf(Attempted, S)
<1>1. MapThenSumSet(LAMBDA i : batches[i].form["accepted"], S) = SumOf(Made, S)
    BY DEF Made, SumOf, MapThenSumSet, MapThenFoldSet
<1>2. MapThenSumSet(LAMBDA i : batches[i].form["defect"], S) = SumOf(Spoilt, S)
    BY DEF Spoilt, SumOf, MapThenSumSet, MapThenFoldSet
<1>3. MapThenSumSet(LAMBDA i : batches[i].form.defect + batches[i].form.accepted, S)
        = SumOf(Attempted, S)
    BY DEF Attempted, SumOf, MapThenSumSet, MapThenFoldSet
<1> QED BY <1>1, <1>2, <1>3

\* What the contractors attempted is what was attempted.
LEMMA OverMakers ==
    ASSUME NEW S, IsFiniteSet(S), \A i \in S : Attempted[i] \in Int
    PROVE  SumOf([who \in {Maker[i] : i \in S} |-> SumOf(Attempted, {i \in S : Maker[i] = who})],
                 {Maker[i] : i \in S})
             = SumOf(Attempted, S)
BY SumGroups

LEMMA UnitsAddUp ==
    ASSUME SpendInv, NEW from, NEW to
    PROVE  Volume("accepted", from, to) + Volume("defect", from, to)
             = MapThenSumSet(LAMBDA r : r.attempted, DefectRows(from, to))
<1> DEFINE S == {i \in DOMAIN batches : batches[i].form.date \in from..to}
           Makers == {Maker[i] : i \in S}
           Spoil(who) == MapThenSumSet(LAMBDA i : batches[i].form.defect, RunsOf(who, from, to))
           Tried(who) == MapThenSumSet(LAMBDA i : batches[i].form.defect + batches[i].form.accepted,
                                       RunsOf(who, from, to))
           h == [who \in Makers |-> [who |-> who, defect |-> Spoil(who), attempted |-> Tried(who)]]
           f == [who \in Makers |-> SumOf(Attempted, {i \in S : Maker[i] = who})]
           g == [r \in DefectRows(from, to) |-> r.attempted]
<1>1. /\ IsFiniteSet(S) /\ S \subseteq DOMAIN batches
      /\ \A i \in S : batches[i].form.accepted \in Nat /\ batches[i].form.defect \in Nat
    <2>1. batches \in Seq(Batch)
        BY DEF SpendInv, SpendTypes
    <2>2. DOMAIN batches = 1..Len(batches) /\ Len(batches) \in Nat
        BY <2>1
    <2>3. \A i \in DOMAIN batches : batches[i] \in Batch
        BY <2>1
    <2>4. \A i \in DOMAIN batches : batches[i].form \in RunForms
        BY <2>3 DEF Batch
    <2>5. IsFiniteSet(DOMAIN batches)
        BY <2>2, FS_Interval
    <2> QED BY <2>4, <2>5, FS_Subset, SpendConstants
<1>2. \A i \in S : /\ Made[i] \in Int /\ Spoilt[i] \in Int /\ Attempted[i] \in Int
                   /\ Attempted[i] = Made[i] + Spoilt[i]
    BY <1>1 DEF Made, Spoilt, Attempted
<1>3. /\ Volume("accepted", from, to) = SumOf(Made, S)
      /\ Volume("defect", from, to) = SumOf(Spoilt, S)
    BY <1>1, OverRuns DEF Volume
<1>4. ASSUME NEW who \in Makers
      PROVE  RunsOf(who, from, to) = {i \in S : Maker[i] = who} /\ Tried(who) = f[who]
    <2>1. RunsOf(who, from, to) = {i \in S : Maker[i] = who}
        BY DEF RunsOf, Maker
    <2>2. Tried(who) = SumOf(Attempted, RunsOf(who, from, to))
        BY <1>1, <2>1, OverRuns
    <2> HIDE DEF Makers, S, Tried
    <2> QED BY <2>1, <2>2
<1>5. Makers = {batches[i].form.who : i \in S}
    BY DEF Maker
<1>6. DefectRows(from, to) = {h[who] : who \in Makers}
    <2>1. DefectRows(from, to) = {[who |-> who, defect |-> Spoil(who), attempted |-> Tried(who)] :
                                    who \in {batches[i].form.who : i \in S}}
        BY DEF DefectRows
    <2> HIDE DEF Spoil, Tried, Makers, S
    <2> QED BY <1>5, <2>1
<1>7. \A who \in Makers : h[who].who = who /\ h[who].attempted = Tried(who)
    <2> HIDE DEF Spoil, Tried, Makers, S
    <2> QED OBVIOUS
<1>8. IsFiniteSet(Makers) /\ \A who \in Makers : f[who] \in Int
    <2>1. IsFiniteSet(Makers)
        <3> HIDE DEF S
        <3> QED BY <1>1, ImageFinite
    <2>2. ASSUME NEW who \in Makers PROVE f[who] \in Int
        <3>1. IsFiniteSet({i \in S : Maker[i] = who})
            BY <1>1, FS_Subset
        <3>2. SumOf(Attempted, {i \in S : Maker[i] = who}) \in Int
            <4> HIDE DEF S
            <4> QED BY <1>2, <3>1, SumInt
        <3> HIDE DEF Makers, S
        <3> QED BY <3>2
    <2> QED BY <2>1, <2>2
<1>9. \A who \in Makers : g[h[who]] = f[who]
    <2>1. \A who \in Makers : h[who] \in DefectRows(from, to)
        <3> HIDE DEF h, Makers
        <3> QED BY <1>6
    <2> HIDE DEF h, f, Makers, Tried
    <2> QED BY <1>4, <1>7, <2>1
<1>10. MapThenSumSet(LAMBDA r : r.attempted, DefectRows(from, to)) = SumOf(g, DefectRows(from, to))
    BY DEF SumOf, MapThenSumSet, MapThenFoldSet
<1>11. SumOf(f, Makers) = SumOf(Attempted, S)
    <2> HIDE DEF S, h, g, Spoil, Tried
    <2> QED BY <1>1, <1>2, OverMakers
<1>12. SumOf(Attempted, S) = SumOf(Made, S) + SumOf(Spoilt, S)
    <2> HIDE DEF S
    <2> QED BY <1>1, <1>2, SumTwo
<1> HIDE DEF S, Makers, h, f, g
<1>13. \A x, y \in Makers : h[x] = h[y] => x = y
    BY <1>7
<1>14. SumOf(g, {h[who] : who \in Makers}) = SumOf(f, Makers)
    BY <1>8, <1>9, <1>13, SumRenamed
<1> QED BY <1>3, <1>6, <1>10, <1>11, <1>12, <1>14

LEMMA FiguresAddUp ==
    ASSUME SpendInv
    PROVE  PartsAddUp
BY SectionsAddUp, OverheadAndCosts, UnitsAddUp, DaysAddUp DEF PartsAddUp

-----------------------------------------------------------------------------
(* What is paid out: the statements *)

Deltas == [i \in DOMAIN filed |-> Delta(i)]

LEMMA DeltaIs ==
    ASSUME NEW S \in SUBSET DOMAIN filed
    PROVE  MapThenSumSet(Delta, S) = SumOf(Deltas, S)
BY DEF Deltas, SumOf, MapThenSumSet, MapThenFoldSet

\* The operations that a statement is made of, those it shows, and those up to one.
Inside(who, cur, to) == {i \in OperationsOf(who, cur) : filed[i].date <= to}
Shown(who, cur, from, to) == {i \in Inside(who, cur, to) : ~IsBefore(filed[i].date, from)}
UpTo(i, who, cur, to) ==
    {j \in Inside(who, cur, to) : \/ filed[j].date < filed[i].date
                                  \/ filed[j].date = filed[i].date /\ j <= i}

LEMMA StatementIs ==
    ASSUME NEW who, NEW cur, NEW from, NEW to
    PROVE  /\ ContractorStatement(who, cur, from, to).opening
                = SumOf(Deltas, Inside(who, cur, to) \ Shown(who, cur, from, to))
           /\ ContractorStatement(who, cur, from, to).closing = SumOf(Deltas, Inside(who, cur, to))
           /\ DOMAIN ContractorStatement(who, cur, from, to).rows = Shown(who, cur, from, to)
           /\ \A i \in Shown(who, cur, from, to) :
                ContractorStatement(who, cur, from, to).rows[i]
                    = SumOf(Deltas, UpTo(i, who, cur, to))
<1> DEFINE inside == Inside(who, cur, to)
           rows == Shown(who, cur, from, to)
           opening == MapThenSumSet(Delta, inside \ rows)
           stood == [i \in rows |-> MapThenSumSet(Delta, UpTo(i, who, cur, to))]
           closing == MapThenSumSet(Delta, inside)
<1>1. ContractorStatement(who, cur, from, to)
        = [opening |-> opening, rows |-> stood, closing |-> closing]
    BY DEF ContractorStatement, Inside, Shown, UpTo
<1>2. inside \in SUBSET DOMAIN filed /\ inside \ rows \in SUBSET DOMAIN filed
    BY DEF Inside, OperationsOf
<1>3. ASSUME NEW i \in rows PROVE stood[i] = SumOf(Deltas, UpTo(i, who, cur, to))
    <2>1. UpTo(i, who, cur, to) \in SUBSET DOMAIN filed
        BY <1>2 DEF UpTo
    <2>2. stood[i] = MapThenSumSet(Delta, UpTo(i, who, cur, to))
        <3> HIDE DEF rows
        <3> QED OBVIOUS
    <2> QED BY <2>1, <2>2, DeltaIs
<1>4. DOMAIN stood = rows
    OBVIOUS
<1>5. opening = SumOf(Deltas, inside \ rows) /\ closing = SumOf(Deltas, inside)
    BY <1>2, DeltaIs
<1> HIDE DEF inside, rows, opening, stood, closing
<1>6. /\ ContractorStatement(who, cur, from, to).opening = opening
      /\ ContractorStatement(who, cur, from, to).closing = closing
      /\ ContractorStatement(who, cur, from, to).rows = stood
    BY <1>1
<1>7. inside = Inside(who, cur, to) /\ rows = Shown(who, cur, from, to)
    BY DEF inside, rows
<1> QED BY <1>3, <1>4, <1>5, <1>6, <1>7

\* Of some operations, one is the last: by its date, then by when it was filed.
LEMMA LastIs ==
    ASSUME SpendInv, NEW R \in SUBSET DOMAIN filed, R # {}
    PROVE  \E k \in R : \A j \in R : \/ filed[j].date < filed[k].date
                                     \/ filed[j].date = filed[k].date /\ j <= k
<1> DEFINE date == [i \in R |-> filed[i].date]
           Days == {date[i] : i \in R}
<1>1. IsFiniteSet(R) /\ R \subseteq Nat
    BY RowsAre, FS_Subset
<1>2. \A i \in R : date[i] \in Nat
    BY DatesAre
<1>3. IsFiniteSet(Days) /\ Days \subseteq Nat /\ Days # {}
    <2> HIDE DEF date
    <2> QED BY <1>1, <1>2, ImageFinite
<1>4. PICK d \in Days : \A e \in Days : e <= d
    <2> HIDE DEF Days
    <2> QED BY <1>3, GreatestOf
<1> DEFINE T == {i \in R : date[i] = d}
<1>5. IsFiniteSet(T) /\ T \subseteq Nat /\ T # {}
    <2>1. T # {}
        BY <1>4
    <2> QED BY <1>1, <2>1, FS_Subset
<1>6. PICK k \in T : \A j \in T : j <= k
    <2> HIDE DEF T
    <2> QED BY <1>5, GreatestOf
<1>7. k \in R /\ date[k] = d
    BY <1>6
<1>8. ASSUME NEW j \in R PROVE date[j] < date[k] \/ (date[j] = date[k] /\ j <= k)
    <2>1. date[j] <= d /\ date[j] \in Nat /\ d \in Nat
        BY <1>2, <1>4
    <2>2. CASE date[j] = d
        BY <1>6, <1>7, <2>2
    <2>3. CASE date[j] # d
        <3> HIDE DEF date
        <3> QED BY <1>7, <2>1, <2>3
    <2> QED BY <2>2, <2>3
<1>9. \A j \in R : date[j] = filed[j].date
    OBVIOUS
<1> HIDE DEF date
<1> QED BY <1>7, <1>8, <1>9

LEMMA StatementsClose ==
    ASSUME SpendInv
    PROVE  StatementCloses
<1> SUFFICES ASSUME NEW i \in DOMAIN filed
             PROVE  LET who == filed[i].who
                        cur == filed[i].cur
                        St(from, to) == ContractorStatement(who, cur, from, to)
                    IN  /\ St(0, LastDate).closing = ContractorBalance(who, cur)
                        /\ \A d \in 0..(LastDate - 1) :
                              St(0, d).closing = St(d + 1, LastDate).opening
                        /\ \A from, to \in Dates :
                              LET st   == St(from, to)
                                  last == CHOOSE k \in DOMAIN st.rows :
                                            \A j \in DOMAIN st.rows :
                                                \/ filed[j].date < filed[k].date
                                                \/ filed[j].date = filed[k].date /\ j <= k
                              IN  IF DOMAIN st.rows = {}
                                  THEN from <= to => st.opening = st.closing
                                  ELSE st.rows[last] = st.closing
    BY DEF StatementCloses
<1> DEFINE who == filed[i].who
           cur == filed[i].cur
<1> HIDE DEF who, cur
<1> DEFINE Ops == OperationsOf(who, cur)
<1>1. /\ Ops \in SUBSET DOMAIN filed
      /\ \A k \in Ops : filed[k].date \in Nat /\ filed[k].date <= LastDate
    <2>1. Ops \in SUBSET DOMAIN filed
        BY DEF OperationsOf
    <2> HIDE DEF Ops
    <2> QED BY <2>1, DatesAre
<1>2. ContractorStatement(who, cur, 0, LastDate).closing = ContractorBalance(who, cur)
    <2>1. Inside(who, cur, LastDate) = Ops
        BY <1>1 DEF Inside
    <2>2. ContractorStatement(who, cur, 0, LastDate).closing = SumOf(Deltas, Ops)
        BY <2>1, StatementIs
    <2>3. ContractorBalance(who, cur) = SumOf(Deltas, Ops)
        BY <1>1, DeltaIs DEF ContractorBalance
    <2> QED BY <2>2, <2>3
<1>3. ASSUME NEW d \in 0..(LastDate - 1)
      PROVE  ContractorStatement(who, cur, 0, d).closing
                = ContractorStatement(who, cur, d + 1, LastDate).opening
    <2>1. d \in Nat
        OBVIOUS
    <2>2. Inside(who, cur, d) = Inside(who, cur, LastDate) \ Shown(who, cur, d + 1, LastDate)
        <3>1. \A k \in Ops : filed[k].date <= d <=> filed[k].date <= LastDate /\ filed[k].date < d + 1
            <4> HIDE DEF Ops
            <4> QED BY <1>1, <2>1
        <3> QED BY <3>1 DEF Inside, Shown, IsBefore
    <2>3. ContractorStatement(who, cur, 0, d).closing = SumOf(Deltas, Inside(who, cur, d))
        BY StatementIs
    <2>4. ContractorStatement(who, cur, d + 1, LastDate).opening
            = SumOf(Deltas, Inside(who, cur, LastDate) \ Shown(who, cur, d + 1, LastDate))
        BY StatementIs
    <2> QED BY <2>2, <2>3, <2>4
<1>4. ASSUME NEW from \in Dates, NEW to \in Dates
      PROVE  LET st   == ContractorStatement(who, cur, from, to)
                 last == CHOOSE k \in DOMAIN st.rows :
                           \A j \in DOMAIN st.rows :
                               \/ filed[j].date < filed[k].date
                               \/ filed[j].date = filed[k].date /\ j <= k
             IN  IF DOMAIN st.rows = {} THEN from <= to => st.opening = st.closing
                 ELSE st.rows[last] = st.closing
    <2> DEFINE st == ContractorStatement(who, cur, from, to)
               rows == Shown(who, cur, from, to)
               inside == Inside(who, cur, to)
               last == CHOOSE k \in rows :
                         \A j \in rows : \/ filed[j].date < filed[k].date
                                         \/ filed[j].date = filed[k].date /\ j <= k
    <2>1. /\ DOMAIN st.rows = rows /\ st.closing = SumOf(Deltas, inside)
          /\ st.opening = SumOf(Deltas, inside \ rows)
          /\ \A k \in rows : st.rows[k] = SumOf(Deltas, UpTo(k, who, cur, to))
        BY StatementIs
    <2>2. rows \in SUBSET Ops /\ inside \in SUBSET Ops
        BY DEF Shown, Inside
    <2>3. CASE rows = {}
        <3>1. inside \ rows = inside
            BY <2>3
        <3>2. st.opening = st.closing
            <4> HIDE DEF st, rows, inside
            <4> QED BY <2>1, <3>1
        <3> QED BY <2>1, <2>3, <3>2
    <2>4. CASE rows # {}
        <3>1. last \in rows /\ \A j \in rows : \/ filed[j].date < filed[last].date
                                               \/ filed[j].date = filed[last].date /\ j <= last
            <4>1. rows \in SUBSET DOMAIN filed
                BY <1>1, <2>2
            <4> HIDE DEF rows
            <4> QED BY <2>4, <4>1, LastIs
        <3> HIDE DEF last
        <3>2. UpTo(last, who, cur, to) = inside
            <4> SUFFICES ASSUME NEW j \in inside
                         PROVE  \/ filed[j].date < filed[last].date
                                \/ filed[j].date = filed[last].date /\ j <= last
                BY DEF UpTo
            <4>1. CASE j \in rows
                BY <3>1, <4>1
            <4>2. CASE j \notin rows
                <5>1. filed[j].date < from /\ ~(filed[last].date < from)
                    BY <3>1, <4>2 DEF Shown, IsBefore
                <5>2. filed[j].date \in Nat /\ filed[last].date \in Nat /\ from \in Nat
                    <6> HIDE DEF rows, inside, Ops
                    <6> QED BY <1>1, <2>2, <3>1 DEF Dates
                <5> QED BY <5>1, <5>2
            <4> QED BY <4>1, <4>2
        <3>3. st.rows[last] = st.closing
            <4> HIDE DEF st, rows, inside
            <4> QED BY <2>1, <3>1, <3>2
        <3> QED BY <2>1, <2>4, <3>3 DEF last
    <2> QED BY <2>3, <2>4
<1> QED BY <1>2, <1>3, <1>4, Zenon DEF who, cur

\* What was paid out is filed, shown and audited at the rate of its day: the figures
\* of a period add up, statements close on balances, and a rate that was never on
\* record is one that the audit lists.
THEOREM SpendingAlwaysHolds == MoneyOutSpec => []MoneySpending
<1> DEFINE Inv == focus = "spending" => SpendInv
<1>1. MoneyOutInit => Inv
    BY SpendStart DEF MoneyOutInit
<1>2. Inv /\ [MoneyOutNext]_<<vars, xvars, focus>> => Inv'
    <2> SUFFICES ASSUME Inv, [MoneyOutNext]_<<vars, xvars, focus>>, focus' = "spending"
                 PROVE  SpendInv'
        OBVIOUS
    <2>1. focus = "spending" /\ [XNext]_xvars
        BY DEF MoneyOutNext
    <2> QED BY <2>1, SpendStep
<1>3. Inv => MoneySpending
    BY FiguresAddUp, StatementsClose, RatesListed, GapByHand DEF MoneySpending, SpendingHolds
<1> HIDE DEF Inv
<1> QED BY <1>1, <1>2, <1>3, PTL DEF MoneyOutSpec
=============================================================================
