----------------------------- MODULE PaymentsProofs -----------------------------
(***************************************************************************)
(* Proofs about Payments, for any finite sets of sales and workers, any    *)
(* amounts and any tolerance: what a sale has been paid is a sum over rows *)
(* that other transactions append to, and the locks keep what a repayment  *)
(* or a void has read of it true until it writes.                          *)
(***************************************************************************)
EXTENDS Payments, SumsProofs

-----------------------------------------------------------------------------
(* The invariant *)

\* Batches have the key of their first row, a reversal is younger than what it
\* reverses, and only payments of sales are split.
RowsFit ==
    \A p \in Rows :
        /\ payments[p].batch <= p
        /\ payments[p].batch # None => payments[p].sale # None
        /\ payments[p].reverses < p

\* A batch has one row for a sale.
OneRowPerSale ==
    \A p, q \in Rows :
        /\ payments[p].batch # None /\ payments[p].batch = payments[q].batch
        /\ ~IsReversal(p) /\ ~IsReversal(q) /\ payments[p].sale = payments[q].sale
        => p = q

\* What a request has done before it commits.
RequestFits(r) ==
    /\ r.op # "oldest" => r.locked = {}
    /\ \A s \in Sales : r.paid[s] > 0 => s \in r.locked
    /\ r.op = "pay" => r.sale \in Sales
    /\ r.op \in {"void", "batch"} => r.target \in Rows
    /\ r.op \notin {"void", "batch"} => r.targets = {}
    /\ r.targets \subseteq Rows

\* A void has locked its payment, or the whole of its batch.
TargetsFit(r) ==
    r.targets # {} =>
        /\ \A p \in r.targets : ~IsReversal(p)
        /\ r.op = "void"  => r.targets = {r.target} /\ payments[r.target].batch = None
        /\ r.op = "batch" => r.targets = Originals(r.target)

\* What it read under its locks is still so.
ReadsFit(r) ==
    /\ r.op = "oldest" => \A s \in r.locked : r.paid[s] <= Balance(s)
    /\ r.targets \cap ReversedRows = {}

\* A sale's row and a payment's row are locked by one request at a time.
Apart(q, r) == q.locked \cap r.locked = {} /\ q.targets \cap r.targets = {}

RequestsInv ==
    \A w \in Workers : req[w] # Idle =>
        /\ RequestFits(req[w]) /\ TargetsFit(req[w]) /\ ReadsFit(req[w])
        /\ \A u \in Workers \ {w} : req[u] # Idle => Apart(req[w], req[u])

\* There is room for what the requests in flight may still write.
Taken    == MapThenSumSet(LAMBDA w : RowsOf(req[w]), Workers)
RoomKept == Len(payments) + Taken <= MaxPayments

PaymentInv ==
    TypeOK /\ RoomKept /\ RowsFit /\ OneRowPerSale /\ RequestsInv /\ BatchVoidedWhole

\* While no deposit is voided before its order is handed over, only payments of
\* sales are reversed.
SalesOnly ==
    /\ \A p \in Rows : payments[p].sale = None => ~IsReversal(p) /\ p \notin ReversedRows
    /\ \A w \in Workers :
          Serving(w, "void") => payments[req[w].target].sale # None

-----------------------------------------------------------------------------
(* What rows add up to *)

NetOf(rows)      == [p \in DOMAIN rows |-> Net(rows[p])]
OfSale(rows, s)  == {p \in DOMAIN rows : rows[p].sale = s}
NetSum(rows, s)  == SumOf(NetOf(rows), OfSale(rows, s))

LEMMA AppliedIsNetSum ==
    \A s \in Sales : Applied(s) = NetSum(payments, s)
BY DEF Applied, NetSum, NetOf, OfSale, Rows, SumOf, MapThenSumSet, MapThenFoldSet

LEMMA AppliedIsNetSumNext ==
    \A s \in Sales : Applied(s)' = NetSum(payments', s)
BY DEF Applied, NetSum, NetOf, OfSale, Rows, SumOf, MapThenSumSet, MapThenFoldSet

LEMMA RowFacts ==
    ASSUME NEW rows \in Seq(Row)
    PROVE  /\ DOMAIN rows = 1..Len(rows) /\ Len(rows) \in Nat
           /\ \A p \in DOMAIN rows : rows[p] \in Row /\ Net(rows[p]) \in Int
           /\ NetOf(rows) \in [DOMAIN rows -> Int]
           /\ IsFiniteSet(DOMAIN rows)
<1>1. DOMAIN rows = 1..Len(rows) /\ Len(rows) \in Nat /\ \A p \in DOMAIN rows : rows[p] \in Row
    OBVIOUS
<1>2. \A r \in Row : Net(r) \in Int
    BY DEF Row, Net
<1> QED BY <1>1, <1>2, FS_Interval DEF NetOf

LEMMA NetSumInt ==
    ASSUME NEW rows \in Seq(Row), NEW s
    PROVE  /\ NetSum(rows, s) \in Int
           /\ OfSale(rows, s) = {} => NetSum(rows, s) = 0
<1>1. IsFiniteSet(OfSale(rows, s)) /\ \A p \in OfSale(rows, s) : NetOf(rows)[p] \in Int
    BY RowFacts, FS_Subset DEF OfSale
<1> QED BY <1>1, SumInt, SumEmpty DEF NetSum

\* Rows of two lists, one after the other, add up.
LEMMA AppendFacts ==
    ASSUME NEW rows \in Seq(Row), NEW new \in Seq(Row)
    PROVE  /\ rows \o new \in Seq(Row) /\ Len(rows \o new) = Len(rows) + Len(new)
           /\ DOMAIN (rows \o new) = DOMAIN rows \cup {Len(rows) + n : n \in DOMAIN new}
           /\ \A p \in DOMAIN rows : (rows \o new)[p] = rows[p]
           /\ \A n \in DOMAIN new : /\ Len(rows) + n \notin DOMAIN rows
                                    /\ (rows \o new)[Len(rows) + n] = new[n]
<1>1. /\ rows \o new \in Seq(Row) /\ Len(rows \o new) = Len(rows) + Len(new)
      /\ DOMAIN (rows \o new) = 1..(Len(rows) + Len(new))
      /\ DOMAIN rows = 1..Len(rows) /\ DOMAIN new = 1..Len(new)
      /\ Len(rows) \in Nat /\ Len(new) \in Nat
    OBVIOUS
<1>2. \A p \in 1..Len(rows) : (rows \o new)[p] = rows[p]
    OBVIOUS
<1>3. \A n \in 1..Len(new) : (rows \o new)[Len(rows) + n] = new[n]
    OBVIOUS
<1>4. 1..(Len(rows) + Len(new)) = (1..Len(rows)) \cup {Len(rows) + n : n \in 1..Len(new)}
    <2>1. ASSUME NEW p \in 1..(Len(rows) + Len(new)), p \notin 1..Len(rows)
          PROVE  p \in {Len(rows) + n : n \in 1..Len(new)}
        <3>1. p - Len(rows) \in 1..Len(new) /\ p = Len(rows) + (p - Len(rows))
            BY <1>1, <2>1
        <3> QED BY <3>1
    <2> QED BY <1>1, <2>1
<1> QED BY <1>1, <1>2, <1>3, <1>4

\* The rows among `on`, of the first list and of the second.
LEMMA SumAppended ==
    ASSUME NEW rows \in Seq(Row), NEW new \in Seq(Row),
           NEW A, A \subseteq DOMAIN rows, NEW B, B \subseteq DOMAIN new
    PROVE  SumOf(NetOf(rows \o new), A \cup {Len(rows) + n : n \in B})
              = SumOf(NetOf(rows), A) + SumOf(NetOf(new), B)
<1> DEFINE all == rows \o new
           h   == [n \in B |-> Len(rows) + n]
           Im  == {Len(rows) + n : n \in B}
<1>1. /\ all \in Seq(Row) /\ DOMAIN all = DOMAIN rows \cup {Len(rows) + n : n \in DOMAIN new}
      /\ \A p \in DOMAIN rows : all[p] = rows[p]
      /\ \A n \in DOMAIN new : Len(rows) + n \notin DOMAIN rows /\ all[Len(rows) + n] = new[n]
    BY AppendFacts
<1>2. IsFiniteSet(A) /\ IsFiniteSet(B)
    BY RowFacts, FS_Subset
<1>3. NetOf(all) \in [DOMAIN all -> Int] /\ NetOf(rows) \in [DOMAIN rows -> Int]
      /\ NetOf(new) \in [DOMAIN new -> Int]
    <2> HIDE DEF all
    <2> QED BY <1>1, RowFacts
<1>4. /\ \A p \in A : NetOf(all)[p] = NetOf(rows)[p]
      /\ \A n \in B : NetOf(all)[Len(rows) + n] = NetOf(new)[n]
    <2> HIDE DEF all
    <2> QED BY <1>1 DEF NetOf
<1>5. SumOf(NetOf(all), Im) = SumOf(NetOf(new), B)
    <2>1. \A x, y \in B : h[x] = h[y] => x = y
        BY RowFacts
    <2>2. \A x \in B : NetOf(new)[x] \in Int /\ NetOf(all)[h[x]] = NetOf(new)[x]
        BY <1>3, <1>4
    <2>3. SumOf(NetOf(all), {h[x] : x \in B}) = SumOf(NetOf(new), B)
        <3> HIDE DEF h, all
        <3> QED BY <1>2, <2>1, <2>2, SumRenamed
    <2>4. {h[x] : x \in B} = Im
        OBVIOUS
    <2> QED BY <2>3, <2>4
<1>6. SumOf(NetOf(all), A) = SumOf(NetOf(rows), A)
    <2> HIDE DEF all
    <2> QED BY <1>2, <1>4, SumSame
<1>7. IsFiniteSet(Im) /\ A \cap Im = {} /\ \A x \in A \cup Im : NetOf(all)[x] \in Int
    <2>1. IsFiniteSet(Im)
        <3>1. Im \subseteq DOMAIN all
            BY <1>1
        <3> HIDE DEF all, Im
        <3> QED BY <1>1, <3>1, RowFacts, FS_Subset
    <2>2. A \cap Im = {} /\ A \cup Im \subseteq DOMAIN all
        BY <1>1
    <2> HIDE DEF all, Im
    <2> QED BY <1>3, <2>1, <2>2
<1>8. SumOf(NetOf(all), A \cup Im) = SumOf(NetOf(all), A) + SumOf(NetOf(all), Im)
    <2> HIDE DEF all, Im
    <2> QED BY <1>2, <1>7, SumUnion
<1> QED BY <1>5, <1>6, <1>8

LEMMA NetSumAppended ==
    ASSUME NEW rows \in Seq(Row), NEW new \in Seq(Row), NEW s
    PROVE  NetSum(rows \o new, s) = NetSum(rows, s) + NetSum(new, s)
<1>1. OfSale(rows \o new, s) = OfSale(rows, s) \cup {Len(rows) + n : n \in OfSale(new, s)}
    <2> DEFINE all == rows \o new
    <2>1. /\ DOMAIN all = DOMAIN rows \cup {Len(rows) + n : n \in DOMAIN new}
          /\ \A p \in DOMAIN rows : all[p] = rows[p]
          /\ \A n \in DOMAIN new : Len(rows) + n \notin DOMAIN rows /\ all[Len(rows) + n] = new[n]
        BY AppendFacts
    <2> HIDE DEF all
    <2>2. OfSale(all, s) = OfSale(rows, s) \cup {Len(rows) + n : n \in OfSale(new, s)}
        BY <2>1 DEF OfSale
    <2> QED BY <2>2 DEF all
<1>2. OfSale(rows, s) \subseteq DOMAIN rows /\ OfSale(new, s) \subseteq DOMAIN new
    BY DEF OfSale
<1> QED BY <1>1, <1>2, SumAppended DEF NetSum

-----------------------------------------------------------------------------
(* Keys in order *)

Ascends(list, S) ==
    /\ list \in [1..Cardinality(S) -> S]
    /\ \A i, j \in 1..Cardinality(S) : i < j => list[i] < list[j]

LEMMA OrderExists ==
    ASSUME NEW S, IsFiniteSet(S), S \subseteq Nat
    PROVE  \E list : Ascends(list, S)
<1> DEFINE N == {n \in Nat : \A T \in SUBSET S : Cardinality(T) = n => \E list : Ascends(list, T)}
<1>0. ASSUME NEW T \in SUBSET S PROVE IsFiniteSet(T) /\ Cardinality(T) \in Nat
    BY FS_Subset, FS_CardinalityType
<1>1. 0 \in N
    <2> SUFFICES ASSUME NEW T \in SUBSET S, Cardinality(T) = 0 PROVE \E list : Ascends(list, T)
        OBVIOUS
    <2>1. Ascends([i \in 1..0 |-> i], T)
        BY DEF Ascends
    <2> QED BY <2>1
<1>2. ASSUME NEW n \in Nat, n \in N PROVE n + 1 \in N
    <2> SUFFICES ASSUME NEW T \in SUBSET S, Cardinality(T) = n + 1
                 PROVE  \E list : Ascends(list, T)
        OBVIOUS
    <2>1. T # {}
        BY <1>0, FS_EmptySet
    <2>2. PICK m \in T : \A k \in T : k <= m
        BY <1>0, <2>1, GreatestOf
    <2>3. Cardinality(T \ {m}) = Cardinality(T) - 1
        BY <1>0, FS_RemoveElement
    <2>4. PICK list : Ascends(list, T \ {m})
        BY <1>2, <2>3
    <2> DEFINE more == [i \in 1..(n + 1) |-> IF i = n + 1 THEN m ELSE list[i]]
    <2>5. Cardinality(T \ {m}) = n
        BY <2>3
    <2>6. \A i \in 1..n : list[i] \in T \ {m}
        BY <2>4, <2>5 DEF Ascends
    <2>7. more \in [1..(n + 1) -> T]
        BY <2>6
    <2>8. ASSUME NEW i \in 1..(n + 1), NEW j \in 1..(n + 1), i < j
          PROVE  more[i] < more[j]
        <3>1. i \in 1..n /\ more[i] = list[i] /\ list[i] \in T \ {m} /\ list[i] \in Nat /\ m \in Nat
            <4>1. i \in 1..n
                BY <2>8
            <4>2. more[i] = list[i]
                BY <4>1
            <4>3. list[i] \in T \ {m}
                BY <2>6, <4>1
            <4> QED BY <4>1, <4>2, <4>3
        <3>2. CASE j = n + 1
            BY <2>2, <3>1, <3>2
        <3>3. CASE j # n + 1
            <4>1. j \in 1..n /\ more[j] = list[j]
                BY <3>3
            <4> QED BY <2>4, <2>5, <2>8, <3>1, <4>1 DEF Ascends
        <3> QED BY <3>2, <3>3
    <2>9. Ascends(more, T)
        <3> HIDE DEF more
        <3> QED BY <2>7, <2>8 DEF Ascends
    <2> QED BY <2>9
<1>3. \A n \in Nat : n \in N
    <2> HIDE DEF N
    <2> QED BY <1>1, <1>2, EveryNumber
<1> QED BY <1>0, <1>3

\* InOrder lists every key once.
LEMMA InOrderLists ==
    ASSUME NEW S, IsFiniteSet(S), S \subseteq Nat
    PROVE  /\ InOrder(S) \in Seq(S) /\ Len(InOrder(S)) = Cardinality(S)
           /\ DOMAIN InOrder(S) = 1..Cardinality(S)
           /\ S = {InOrder(S)[n] : n \in DOMAIN InOrder(S)}
           /\ \A m, n \in DOMAIN InOrder(S) : InOrder(S)[m] = InOrder(S)[n] => m = n
<1> DEFINE list == InOrder(S)
           c    == Cardinality(S)
<1>0. c \in Nat
    BY FS_CardinalityType
<1>1. Ascends(list, S)
    <2>1. \E l \in [1..c -> S] : \A i, j \in 1..c : i < j => l[i] < l[j]
        BY OrderExists DEF Ascends
    <2> QED BY <2>1 DEF InOrder, Ascends
<1> HIDE DEF list
<1>2. list \in [1..c -> S] /\ \A i, j \in 1..c : i < j => list[i] < list[j]
    BY <1>1 DEF Ascends
<1>3. list \in Seq(S) /\ Len(list) = c /\ DOMAIN list = 1..c
    BY <1>0, <1>2
<1>4. \A m, n \in 1..c : list[m] = list[n] => m = n
    <2> SUFFICES ASSUME NEW m \in 1..c, NEW n \in 1..c, m < n PROVE list[m] # list[n]
        BY <1>0
    <2>1. list[m] < list[n] /\ list[m] \in Nat
        BY <1>2
    <2> QED BY <2>1
<1>5. list \in Surjection(1..c, S)
    <2>1. list \in Injection(1..c, S)
        BY <1>2, <1>4 DEF Injection, IsInjective
    <2>2. Cardinality(1..c) = c
        BY <1>0, FS_Interval
    <2> QED BY <2>1, <2>2, FS_Injection
<1>6. S = {list[n] : n \in 1..c}
    BY <1>2, <1>5 DEF Surjection
<1> QED BY <1>3, <1>4, <1>6 DEF list

-----------------------------------------------------------------------------
(* What is owed *)

LEMMA RequestTypes ==
    ASSUME TypeOK, NEW w \in Workers, req[w] # Idle
    PROVE  /\ req[w] \in Request
           /\ req[w].op \in AllOps /\ req[w].sale \in Sales \cup {None}
           /\ req[w].plan \in [Sales -> Nat] /\ req[w].paid \in [Sales -> Nat]
           /\ req[w].locked \subseteq Sales /\ req[w].target \in Nat
           /\ req[w].targets \subseteq 1..MaxPayments
<1>1. req[w] \in Request
    BY DEF TypeOK
<1> QED BY <1>1 DEF Request

LEMMA RequestIsNotIdle ==
    ASSUME NEW r \in Request
    PROVE  r # Idle
<1>1. r.op \in AllOps /\ Idle.op = "idle"
    BY DEF Request, Idle
<1> QED BY <1>1 DEF AllOps

LEMMA BalanceFacts ==
    ASSUME TypeOK, NEW s \in Sales
    PROVE  /\ Owed(s) \in Int /\ Balance(s) \in Nat
           /\ Balance(s) > 0 => Balance(s) = Owed(s)
           /\ status[s] # "confirmed" => Balance(s) = 0
<1>1. Applied(s) \in Int
    BY AppliedIsNetSum, NetSumInt DEF TypeOK
<1>2. total[s] \in Nat /\ Tolerance \in Nat
    BY PaymentsAssumption DEF TypeOK
<1> QED BY <1>1, <1>2 DEF Owed, Balance

LEMMA BalanceNextNat ==
    ASSUME TypeOK', NEW s \in Sales
    PROVE  Balance(s)' \in Nat
<1>1. Applied(s)' \in Int
    BY AppliedIsNetSumNext, NetSumInt DEF TypeOK
<1>2. total'[s] \in Nat /\ Tolerance \in Nat
    BY PaymentsAssumption DEF TypeOK
<1> QED BY <1>1, <1>2 DEF Owed, Balance

\* What is owed on a sale depends on its own row and on its own payments.
LEMMA SameOwed ==
    ASSUME NEW s \in Sales, total'[s] = total[s], NetSum(payments', s) = NetSum(payments, s)
    PROVE  Owed(s)' = Owed(s) /\ (status'[s] = status[s] => Balance(s)' = Balance(s))
<1>1. Applied(s)' = Applied(s)
    BY AppliedIsNetSum, AppliedIsNetSumNext
<1> QED BY <1>1 DEF Owed, Balance

LEMMA SameBooks ==
    ASSUME UNCHANGED <<status, total, payments>>
    PROVE  /\ \A s \in Sales : Owed(s)' = Owed(s) /\ Balance(s)' = Balance(s)
           /\ Rows' = Rows /\ ReversedRows' = ReversedRows
           /\ \A p : IsReversal(p)' = IsReversal(p)
           /\ \A b : Originals(b)' = Originals(b)
<1>1. Rows' = Rows /\ ReversedRows' = ReversedRows /\ \A p : IsReversal(p)' = IsReversal(p)
    BY DEF Rows, ReversedRows, IsReversal
<1>2. \A b : Originals(b)' = Originals(b)
    BY DEF Rows, IsReversal, Originals
<1> QED BY <1>1, <1>2, SameOwed

-----------------------------------------------------------------------------
(* Room *)

LEMMA TakenSum ==
    /\ Taken = SumOf([u \in Workers |-> RowsOf(req[u])], Workers)
    /\ Taken' = SumOf([u \in Workers |-> RowsOf(req'[u])], Workers)
<1>1. Taken = SumOf([u \in Workers |-> RowsOf(req[u])], Workers)
    BY DEF Taken, SumOf, MapThenSumSet, MapThenFoldSet
<1>2. Taken' = SumOf([u \in Workers |-> RowsOf(req'[u])], Workers)
    BY DEF Taken, SumOf, MapThenSumSet, MapThenFoldSet
<1> QED BY <1>1, <1>2

LEMMA RoomTaken ==
    Taken \in Nat /\ \A r : RowsOf(r) \in Nat
<1>1. Cardinality(Sales) \in Nat /\ IsFiniteSet(Workers)
    BY PaymentsAssumption, FS_CardinalityType
<1>2. \A r : RowsOf(r) \in Nat
    BY <1>1 DEF RowsOf
<1>3. Taken = SumOf([w \in Workers |-> RowsOf(req[w])], Workers)
    BY TakenSum
<1>4. SumOf([w \in Workers |-> RowsOf(req[w])], Workers) \in Nat
    BY <1>1, <1>2, SumNat
<1> QED BY <1>2, <1>3, <1>4

LEMMA RoomChanges ==
    ASSUME TypeOK, NEW w \in Workers, NEW r, req' = [req EXCEPT ![w] = r]
    PROVE  Taken' = Taken - RowsOf(req[w]) + RowsOf(r)
<1> DEFINE f == [u \in Workers |-> RowsOf(req[u])]
           g == [u \in Workers |-> RowsOf(req'[u])]
<1>1. Cardinality(Sales) \in Nat /\ IsFiniteSet(Workers)
    BY PaymentsAssumption, FS_CardinalityType
<1>2. \A q : RowsOf(q) \in Nat
    BY <1>1 DEF RowsOf
<1>3. Taken = SumOf(f, Workers)
    BY TakenSum
<1>4. Taken' = SumOf(g, Workers)
    BY TakenSum
<1>5. /\ f[w] = RowsOf(req[w]) /\ g[w] = RowsOf(r)
      /\ \A u \in Workers \ {w} : f[u] = g[u]
      /\ \A u \in Workers : f[u] \in Int /\ g[u] \in Int
    BY <1>2 DEF TypeOK
<1>6. SumOf(g, Workers) = SumOf(f, Workers) - f[w] + g[w]
    <2> HIDE DEF f, g
    <2> QED BY <1>1, <1>5, SumChange
<1> QED BY <1>3, <1>4, <1>5, <1>6

-----------------------------------------------------------------------------
(* A request goes on; the books stay as they are. *)

RequestOK(r) == RequestFits(r) /\ TargetsFit(r) /\ ReadsFit(r)

\* What was true of a request still is when the books have not changed.
LEMMA SameBooksFit ==
    ASSUME UNCHANGED <<status, total, payments>>, NEW w \in Workers, NEW r,
           req'[w] = r, RequestOK(r), r.locked \subseteq Sales
    PROVE  RequestFits(req[w])' /\ TargetsFit(req[w])' /\ ReadsFit(req[w])'
<1>1. RequestFits(req[w])'
    BY DEF RequestOK, RequestFits, Rows
<1>2. TargetsFit(req[w])'
    BY DEF RequestOK, TargetsFit, IsReversal, Originals, Rows
<1>3. ReadsFit(req[w])'
    BY SameBooks DEF RequestOK, ReadsFit
<1> QED BY <1>1, <1>2, <1>3

LEMMA ServeStep ==
    ASSUME PaymentInv, NEW w \in Workers, NEW r \in Request \cup {Idle},
           req' = [req EXCEPT ![w] = r], UNCHANGED <<status, total, payments>>,
           r # Idle => /\ RequestOK(r)
                       /\ \A u \in Workers \ {w} : req[u] # Idle => Apart(r, req[u]),
           Len(payments) + Taken - RowsOf(req[w]) + RowsOf(r) <= MaxPayments
    PROVE  PaymentInv'
<1>0. TypeOK /\ req \in [Workers -> Request \cup {Idle}] /\ Len(payments) \in Nat /\ MaxPayments \in Nat
    BY PaymentsAssumption DEF PaymentInv, TypeOK
<1>1. TypeOK'
    BY <1>0 DEF TypeOK
<1>2. RoomKept'
    <2>1. Taken' = Taken - RowsOf(req[w]) + RowsOf(r)
        BY <1>0, RoomChanges
    <2> QED BY <1>0, <2>1, RoomTaken DEF RoomKept
<1>3. RowsFit' /\ OneRowPerSale' /\ BatchVoidedWhole'
    BY DEF PaymentInv, RowsFit, OneRowPerSale, BatchVoidedWhole, Rows, IsReversal, Originals,
           ReversedRows
<1>4. RequestsInv'
    <2> SUFFICES ASSUME NEW v \in Workers, req'[v] # Idle
                 PROVE  /\ RequestFits(req[v])' /\ TargetsFit(req[v])' /\ ReadsFit(req[v])'
                        /\ \A u \in Workers \ {v} : req'[u] # Idle => Apart(req'[v], req'[u])
        BY DEF RequestsInv, Apart
    <2>1. \A u \in Workers : req'[u] = IF u = w THEN r ELSE req[u]
        BY <1>0
    <2>2. \A u \in Workers \ {w} : req[u] # Idle => RequestOK(req[u])
        BY DEF PaymentInv, RequestsInv, RequestOK
    <2>3. \A u, q \in Workers : u # q /\ req[u] # Idle /\ req[q] # Idle => Apart(req[u], req[q])
        BY DEF PaymentInv, RequestsInv
    <2>4. \A u \in Workers : req'[u] # Idle => req'[u].locked \subseteq Sales
        <3>1. \A q \in Request : q.locked \subseteq Sales
            BY DEF Request
        <3> QED BY <1>0, <2>1, <3>1
    <2>5. \A a, b : Apart(a, b) <=> Apart(b, a)
        BY DEF Apart
    <2>6. RequestFits(req[v])' /\ TargetsFit(req[v])' /\ ReadsFit(req[v])'
        BY <2>1, <2>2, <2>4, SameBooksFit
    <2>7. \A u \in Workers \ {v} : req'[u] # Idle => Apart(req'[v], req'[u])
        BY <2>1, <2>3, <2>5
    <2> QED BY <2>6, <2>7
<1> QED BY <1>1, <1>2, <1>3, <1>4 DEF PaymentInv

\* What a repayment may take of every sale.
LEMMA BalanceSum ==
    ASSUME NEW S \in SUBSET Sales
    PROVE  MapThenSumSet(Balance, S) = SumOf([s \in Sales |-> Balance(s)], S)
BY DEF SumOf, MapThenSumSet, MapThenFoldSet

LEMMA AllocationType ==
    ASSUME TypeOK, NEW a \in Nat
    PROVE  Allocation(a) \in [Sales -> Nat]
<1> SUFFICES ASSUME NEW s \in Sales
             PROVE  Lesser(Balance(s),
                           AtLeastZero(a - MapThenSumSet(Balance, {t \in Sales : t < s}))) \in Nat
    BY DEF Allocation
<1> DEFINE before == {t \in Sales : t < s}
           f      == [t \in Sales |-> Balance(t)]
<1>1. MapThenSumSet(Balance, before) = SumOf(f, before)
    BY BalanceSum
<1>2. SumOf(f, before) \in Int
    <2>1. IsFiniteSet(before) /\ \A t \in before : f[t] \in Int
        BY PaymentsAssumption, FS_Subset, BalanceFacts
    <2> HIDE DEF f, before
    <2> QED BY <2>1, SumInt
<1>3. Balance(s) \in Nat
    BY BalanceFacts
<1> HIDE DEF before, f
<1> QED BY <1>1, <1>2, <1>3 DEF Lesser, AtLeastZero, before

\* A request that has just been read holds nothing.
LEMMA StartStep ==
    ASSUME PaymentInv, NEW w \in Workers, NEW r \in Request, Start(w, r),
           r.locked = {}, r.targets = {}, r.paid = NoMoney,
           r.op = "pay" => r.sale \in Sales,
           r.op \in {"void", "batch"} => r.target \in Rows
    PROVE  PaymentInv'
<1>1. RequestOK(r)
    BY DEF RequestOK, RequestFits, TargetsFit, ReadsFit, NoMoney
<1>2. \A u \in Workers \ {w} : Apart(r, req[u])
    BY DEF Apart
<1>3. /\ req[w] = Idle /\ Len(payments) + Taken + RowsOf(r) <= MaxPayments
      /\ req' = [req EXCEPT ![w] = r] /\ UNCHANGED <<status, total, payments>>
    BY DEF Start, RoomFor, Taken
<1>4. RowsOf(req[w]) = 0
    BY <1>3 DEF RowsOf
<1>5. Len(payments) + Taken - RowsOf(req[w]) + RowsOf(r) <= MaxPayments
    <2>1. Len(payments) \in Nat
        BY DEF PaymentInv, TypeOK
    <2> QED BY <1>3, <1>4, <2>1, RoomTaken
<1> QED BY <1>1, <1>2, <1>3, <1>5, ServeStep

LEMMA BlankType ==
    ASSUME NEW op \in AllOps
    PROVE  Blank(op) \in Request
BY PaymentsAssumption DEF Blank, Request, NoMoney, None

LEMMA LoadSaleStep ==
    ASSUME PaymentInv, NEW w \in Workers, NEW s \in Sales, LoadSale(w, s)
    PROVE  PaymentInv'
<1> DEFINE r == [Blank("pay") EXCEPT !.sale = s, !.owed = Owed(s)]
<1>1. r \in Request
    <2>1. Owed(s) \in Int
        BY BalanceFacts DEF PaymentInv
    <2> QED BY <2>1, BlankType DEF AllOps, Request, Blank, NoMoney, None
<1>2. /\ r.op = "pay" /\ r.locked = {} /\ r.targets = {} /\ r.paid = NoMoney /\ r.sale = s
      /\ Start(w, r)
    BY DEF Blank, LoadSale
<1> HIDE DEF r
<1> QED BY <1>1, <1>2, StartStep

LEMMA LoadVoidStep ==
    ASSUME PaymentInv, NEW w \in Workers, NEW p \in Rows, LoadVoid(w, p) \/ LoadBatch(w, p)
    PROVE  PaymentInv'
<1> DEFINE r(op) == [Blank(op) EXCEPT !.target = p]
<1>1. p \in Nat
    BY DEF PaymentInv, TypeOK, Rows
<1>2. \A op \in {"void", "batch"} :
        /\ r(op) \in Request /\ r(op).locked = {} /\ r(op).targets = {} /\ r(op).paid = NoMoney
        /\ r(op).op = op /\ r(op).target = p
    BY <1>1, PaymentsAssumption DEF AllOps, Request, Blank, NoMoney, None
<1>3. \E op \in {"void", "batch"} : Start(w, r(op))
    BY DEF LoadVoid, LoadBatch
<1> HIDE DEF r
<1> QED BY <1>2, <1>3, StartStep

LEMMA AllocateStep ==
    ASSUME PaymentInv, NEW w \in Workers, NEW a \in Amounts, Allocate(w, a)
    PROVE  PaymentInv'
<1> DEFINE r == [Blank("oldest") EXCEPT !.asked = a, !.plan = Allocation(a)]
<1>1. r \in Request
    <2>1. a \in Nat
        BY PaymentsAssumption
    <2>2. Allocation(a) \in [Sales -> Nat]
        BY <2>1, AllocationType DEF PaymentInv
    <2>3. Blank("oldest") \in Request
        BY BlankType DEF AllOps
    <2>4. \A q \in Request, plan \in [Sales -> Nat] :
            [q EXCEPT !.asked = a, !.plan = plan] \in Request
        BY <2>1 DEF Request
    <2> QED BY <2>2, <2>3, <2>4
<1>2. r.op = "oldest" /\ r.locked = {} /\ r.targets = {} /\ r.paid = NoMoney /\ Start(w, r)
    BY DEF Blank, Allocate
<1> HIDE DEF r
<1> QED BY <1>1, <1>2, StartStep

\* What holds of a request that is served.
LEMMA Served ==
    ASSUME PaymentInv, NEW w \in Workers, req[w] # Idle
    PROVE  /\ TypeOK /\ RequestOK(req[w])
           /\ \A u \in Workers \ {w} : req[u] # Idle => Apart(req[w], req[u])
           /\ Len(payments) + Taken <= MaxPayments
           /\ Len(payments) \in Nat
BY DEF PaymentInv, RequestsInv, RequestOK, RoomKept, TypeOK

\* A repayment locks one sale more.
LEMMA PayRowStep ==
    ASSUME PaymentInv, NEW w \in Workers, NEW s \in Sales, PayRow(w, s)
    PROVE  PaymentInv'
<1> DEFINE q == req[w]
           n == StillOwed(w, s)
           r == [q EXCEPT !.paid = [q.paid EXCEPT ![s] = n], !.locked = q.locked \cup {s}]
<1>0. req[w] # Idle /\ q.op = "oldest" /\ TypeOK /\ RequestOK(q)
    BY Served DEF PayRow, Serving
<1>1. /\ q \in Request /\ q.paid \in [Sales -> Nat] /\ q.locked \subseteq Sales
      /\ q.plan[s] \in Nat /\ q.targets = {}
    BY <1>0, RequestTypes DEF RequestOK, RequestFits
<1>2. n \in Nat /\ n <= Balance(s)
    <2>1. Balance(s) \in Nat
        BY <1>0, BalanceFacts
    <2> QED BY <1>1, <2>1 DEF StillOwed, Lesser
<1>3. req' = [req EXCEPT ![w] = r] /\ UNCHANGED <<status, total, payments>>
    BY <1>0, <1>1 DEF PayRow, TypeOK
<1>4. /\ r \in Request /\ r.op = q.op /\ r.locked = q.locked \cup {s} /\ r.targets = q.targets
      /\ r.paid = [q.paid EXCEPT ![s] = n]
    <2> HIDE DEF n, q
    <2> QED BY <1>1, <1>2 DEF Request
<1>5. /\ r.paid[s] = n
      /\ \A t \in Sales \ {s} : r.paid[t] = q.paid[t]
    <2> HIDE DEF n, q, r
    <2> QED BY <1>1, <1>4
<1> HIDE DEF r, n
<1>6. RequestOK(r)
    <2>1. RequestFits(r)
        BY <1>0, <1>1, <1>4, <1>5 DEF RequestOK, RequestFits
    <2>2. TargetsFit(r)
        BY <1>1, <1>4 DEF TargetsFit
    <2>3. ReadsFit(r)
        BY <1>0, <1>1, <1>2, <1>4, <1>5 DEF RequestOK, ReadsFit
    <2> QED BY <2>1, <2>2, <2>3 DEF RequestOK
<1>7. \A u \in Workers \ {w} : req[u] # Idle => Apart(r, req[u])
    BY <1>0, <1>1, <1>4, Served DEF Apart, PayRow, SaleFree, Holds
<1>8. RowsOf(r) = RowsOf(q)
    <2>1. r # Idle
        BY <1>4, RequestIsNotIdle
    <2> QED BY <1>0, <1>4, <2>1 DEF RowsOf
<1>9. Len(payments) + Taken - RowsOf(q) + RowsOf(r) <= MaxPayments
    BY <1>0, <1>8, Served, RoomTaken
<1> HIDE DEF q
<1> QED BY <1>3, <1>4, <1>6, <1>7, <1>9, ServeStep DEF q

\* A void locks what it will reverse.
LEMMA LockStepInv ==
    ASSUME PaymentInv, NEW w \in Workers, NEW T,
           req[w] # Idle, req[w].op \in {"void", "batch"},
           req' = [req EXCEPT ![w].targets = T], UNCHANGED <<status, total, payments>>,
           T \subseteq Rows, T \cap ReversedRows = {}, \A p \in T : ~IsReversal(p) /\ PaymentFree(p),
           req[w].op = "void"  => T = {req[w].target} /\ payments[req[w].target].batch = None,
           req[w].op = "batch" => T = Originals(req[w].target)
    PROVE  PaymentInv'
<1> DEFINE q == req[w]
           r == [q EXCEPT !.targets = T]
<1>0. TypeOK /\ RequestOK(q) /\ q \in Request
    BY Served, RequestTypes
<1>1. req' = [req EXCEPT ![w] = r]
    BY <1>0 DEF TypeOK
<1>2. T \subseteq 1..MaxPayments
    <2>1. Rows = 1..Len(payments) /\ Len(payments) <= MaxPayments /\ Len(payments) \in Nat
        BY <1>0 DEF Rows, TypeOK
    <2> QED BY <2>1, PaymentsAssumption
<1>3. /\ r \in Request /\ r.op = q.op /\ r.target = q.target /\ r.sale = q.sale
      /\ r.locked = q.locked /\ r.paid = q.paid /\ r.targets = T
    <2> HIDE DEF q
    <2> QED BY <1>0, <1>2 DEF Request
<1> HIDE DEF r
<1>4. RequestOK(r)
    <2>1. RequestFits(r)
        BY <1>0, <1>3 DEF RequestOK, RequestFits
    <2>2. TargetsFit(r)
        BY <1>3 DEF TargetsFit
    <2>3. ReadsFit(r)
        BY <1>0, <1>3 DEF RequestOK, ReadsFit
    <2> QED BY <2>1, <2>2, <2>3 DEF RequestOK
<1>5. \A u \in Workers \ {w} : req[u] # Idle => Apart(r, req[u])
    BY <1>3, Served DEF Apart, PaymentFree
<1>6. RowsOf(r) = RowsOf(q)
    <2>1. r # Idle
        BY <1>3, RequestIsNotIdle
    <2> QED BY <1>3, <2>1 DEF RowsOf
<1>7. Len(payments) + Taken - RowsOf(q) + RowsOf(r) <= MaxPayments
    BY <1>6, Served, RoomTaken
<1> HIDE DEF q
<1> QED BY <1>1, <1>3, <1>4, <1>5, <1>7, ServeStep DEF q

LEMMA LockVoidStep ==
    ASSUME PaymentInv, NEW w \in Workers, LockVoid(w)
    PROVE  PaymentInv'
<1>1. req[w] # Idle /\ req[w].op = "void"
    BY DEF LockVoid, Serving
<1>2. req[w].target \in Rows
    BY <1>1, Served DEF RequestOK, RequestFits
<1>3. /\ {req[w].target} \subseteq Rows /\ {req[w].target} \cap ReversedRows = {}
      /\ \A p \in {req[w].target} : ~IsReversal(p) /\ PaymentFree(p)
      /\ payments[req[w].target].batch = None
      /\ req' = [req EXCEPT ![w].targets = {req[w].target}]
      /\ UNCHANGED <<status, total, payments>>
    BY <1>2 DEF LockVoid, CanVoid
<1> QED BY <1>1, <1>3, LockStepInv

\* The rows of a batch are reversed together, so what it locks is all of it.
LEMMA LockBatchStep ==
    ASSUME PaymentInv, NEW w \in Workers, LockBatch(w)
    PROVE  PaymentInv'
<1> DEFINE b    == req[w].target
           ours == Originals(b)
<1>1. req[w] # Idle /\ req[w].op = "batch"
    BY DEF LockBatch, Serving
<1>2. /\ \A p \in ours : PaymentFree(p)
      /\ ours \ ReversedRows # {}
      /\ req' = [req EXCEPT ![w].targets = ours \ ReversedRows]
      /\ UNCHANGED <<status, total, payments>>
    BY DEF LockBatch
<1>3. b \in Rows /\ b # None
    <2>1. b \in Rows
        BY <1>1, Served DEF RequestOK, RequestFits
    <2>2. Rows = 1..Len(payments)
        BY DEF Rows, PaymentInv, TypeOK
    <2> QED BY <2>1, <2>2 DEF None
<1>4. ours \cap ReversedRows \in {{}, ours}
    <2>1. PICK p \in ours : TRUE
        BY <1>2
    <2>2. p \in Rows /\ payments[p].batch = b
        BY <2>1 DEF Originals
    <2> HIDE DEF b
    <2> QED BY <1>3, <2>2 DEF PaymentInv, BatchVoidedWhole
<1>5. ours \cap ReversedRows = {} /\ ours \ ReversedRows = ours
    BY <1>2, <1>4
<1>6. ours \subseteq Rows /\ \A p \in ours : ~IsReversal(p)
    BY DEF Originals
<1> QED BY <1>1, <1>2, <1>5, <1>6, LockStepInv

LEMMA RefuseStep ==
    ASSUME PaymentInv, NEW w \in Workers, Refuse(w)
    PROVE  PaymentInv'
<1>1. /\ req[w] # Idle /\ req' = [req EXCEPT ![w] = Idle] /\ UNCHANGED <<status, total, payments>>
    BY DEF Refuse, Finish
<1>2. RowsOf(Idle) = 0
    BY DEF RowsOf
<1>3. Len(payments) + Taken - RowsOf(req[w]) + RowsOf(Idle) <= MaxPayments
    BY <1>1, <1>2, Served, RoomTaken, PaymentsAssumption
<1> QED BY <1>1, <1>3, ServeStep

-----------------------------------------------------------------------------
(* Rows are appended *)

\* Every new payment that belongs to a batch belongs to a new one.
NewBatches(new) ==
    \A n \in DOMAIN new :
        new[n].reverses = None => new[n].batch \in {None, Len(payments) + 1}

\* The books when `new` has been appended to them.
Appended(new) ==
    /\ Rows' = Rows \cup {Len(payments) + n : n \in DOMAIN new}
    /\ \A p \in Rows : payments'[p] = payments[p]
    /\ \A n \in DOMAIN new : payments'[Len(payments) + n] = new[n]
    /\ ReversedRows' = ReversedRows \cup {new[n].reverses : n \in DOMAIN new}

LEMMA AppendedBooks ==
    ASSUME TypeOK, NEW new \in Seq(Row), payments' = payments \o new
    PROVE  /\ Appended(new)
           /\ payments' \in Seq(Row) /\ Len(payments') = Len(payments) + Len(new)
           /\ Rows = 1..Len(payments) /\ Len(payments) \in Nat
           /\ DOMAIN new = 1..Len(new) /\ Len(new) \in Nat
           /\ \A p \in Rows : payments[p] \in Row
           /\ \A n \in DOMAIN new : new[n] \in Row /\ Len(payments) + n \notin Rows
<1>0. payments \in Seq(Row)
    BY DEF TypeOK
<1>1. /\ payments' \in Seq(Row) /\ Len(payments') = Len(payments) + Len(new)
      /\ DOMAIN payments' = DOMAIN payments \cup {Len(payments) + n : n \in DOMAIN new}
      /\ \A p \in DOMAIN payments : payments'[p] = payments[p]
      /\ \A n \in DOMAIN new : /\ Len(payments) + n \notin DOMAIN payments
                               /\ payments'[Len(payments) + n] = new[n]
    BY <1>0, AppendFacts
<1>2. ReversedRows' = ReversedRows \cup {new[n].reverses : n \in DOMAIN new}
    <2>1. ReversedRows' = {payments'[p].reverses : p \in DOMAIN payments'}
          /\ ReversedRows = {payments[p].reverses : p \in DOMAIN payments}
        BY DEF ReversedRows, Rows
    <2>2. {payments'[p].reverses : p \in DOMAIN payments}
             = {payments[p].reverses : p \in DOMAIN payments}
        BY <1>1
    <2>3. {payments'[p].reverses : p \in {Len(payments) + n : n \in DOMAIN new}}
             = {payments'[Len(payments) + n].reverses : n \in DOMAIN new}
        OBVIOUS
    <2>4. {payments'[Len(payments) + n].reverses : n \in DOMAIN new}
             = {new[n].reverses : n \in DOMAIN new}
        BY <1>1
    <2> QED BY <1>1, <2>1, <2>2, <2>3, <2>4
<1> QED BY <1>0, <1>1, <1>2, RowFacts DEF Appended, Rows

LEMMA NewRows ==
    ASSUME TypeOK, NEW new \in Seq(Row), payments' = payments \o new, NEW p \in Rows' \ Rows
    PROVE  \E n \in DOMAIN new : p = Len(payments) + n /\ payments'[p] = new[n]
<1>1. Appended(new)
    BY AppendedBooks
<1> QED BY <1>1 DEF Appended

\* The keys of batches and of reversed payments are keys of older rows.
LEMMA OlderKeys ==
    ASSUME TypeOK, RowsFit
    PROVE  /\ Rows = 1..Len(payments) /\ Len(payments) \in Nat
           /\ \A p \in Rows : /\ payments[p].batch \in 0..Len(payments)
                              /\ payments[p].reverses \in 0..Len(payments)
           /\ \A p \in ReversedRows : p \in Nat /\ p < Len(payments)
<1>1. Rows = 1..Len(payments) /\ Len(payments) \in Nat /\ \A p \in Rows : payments[p] \in Row
    BY RowFacts DEF TypeOK, Rows
<1>2. \A p \in Rows : payments[p].batch \in Nat /\ payments[p].reverses \in Nat
    BY <1>1 DEF Row
<1> QED BY <1>1, <1>2 DEF RowsFit, ReversedRows

\* A sale without a new row is owed what it was.
LEMMA OwedElsewhere ==
    ASSUME TypeOK, NEW new \in Seq(Row), payments' = payments \o new,
           UNCHANGED <<status, total>>,
           NEW s \in Sales, \A n \in DOMAIN new : new[n].sale # s
    PROVE  Owed(s)' = Owed(s) /\ Balance(s)' = Balance(s)
<1>1. NetSum(payments', s) = NetSum(payments, s) + NetSum(new, s)
    BY NetSumAppended DEF TypeOK
<1>2. OfSale(new, s) = {}
    BY DEF OfSale
<1>3. NetSum(new, s) = 0 /\ NetSum(payments, s) \in Int
    BY <1>2, NetSumInt DEF TypeOK
<1>4. NetSum(payments', s) = NetSum(payments, s)
    BY <1>1, <1>3
<1> QED BY <1>4, SameOwed

\* The other requests hold what the new rows are about to touch, or not at all.
LEMMA OthersKept ==
    ASSUME PaymentInv, NEW new \in Seq(Row), payments' = payments \o new,
           UNCHANGED <<status, total>>, NewBatches(new),
           \A u \in Workers : req'[u] \in {req[u], Idle},
           \A u \in Workers : req'[u] # Idle =>
               \A n \in DOMAIN new : /\ new[n].sale \notin req[u].locked
                                     /\ new[n].reverses \notin req[u].targets
    PROVE  RequestsInv'
<1>0. TypeOK /\ RowsFit /\ RequestsInv
    BY DEF PaymentInv
<1>1. /\ Appended(new) /\ Rows = 1..Len(payments) /\ Len(payments) \in Nat
      /\ DOMAIN new = 1..Len(new) /\ Len(new) \in Nat
    BY <1>0, AppendedBooks
<1> SUFFICES ASSUME NEW u \in Workers, req'[u] # Idle
             PROVE  /\ RequestFits(req[u])' /\ TargetsFit(req[u])' /\ ReadsFit(req[u])'
                    /\ \A v \in Workers \ {u} : req'[v] # Idle => Apart(req'[u], req'[v])
    BY DEF RequestsInv, Apart
<1>2. /\ req'[u] = req[u] /\ req[u] # Idle /\ RequestFits(req[u]) /\ TargetsFit(req[u])
      /\ ReadsFit(req[u])
      /\ req[u].locked \subseteq Sales
    BY <1>0, RequestTypes DEF RequestsInv
<1>3. RequestFits(req[u])'
    BY <1>1, <1>2 DEF RequestFits, Appended
<1>4. TargetsFit(req[u])'
    <2>0. CASE req[u].targets = {}
        BY <1>2, <2>0 DEF TargetsFit
    <2> SUFFICES ASSUME req[u].targets # {} PROVE TargetsFit(req[u])'
        BY <2>0
    <2>1. req[u].targets \subseteq Rows /\ req[u].op \in {"void", "batch"} /\ req[u].target \in Rows
        BY <1>2 DEF RequestFits
    <2>2. \A p \in req[u].targets : payments'[p].reverses = None
        BY <1>1, <1>2, <2>1 DEF TargetsFit, IsReversal, Appended
    <2>3. req[u].op = "void" => req[u].targets = {req[u].target} /\ payments'[req[u].target].batch = None
        BY <1>1, <1>2, <2>1 DEF TargetsFit, Appended
    <2>4. ASSUME req[u].op = "batch"
          PROVE  req[u].targets = {p \in Rows' : /\ payments'[p].batch = req[u].target
                                                 /\ payments'[p].reverses = None}
        <3>1. req[u].targets = {p \in Rows : /\ payments[p].batch = req[u].target
                                             /\ payments[p].reverses = None}
            BY <1>2, <2>4 DEF TargetsFit, Originals, IsReversal
        <3>2. \A n \in DOMAIN new : new[n].reverses = None => new[n].batch # req[u].target
            BY <1>1, <2>1 DEF NewBatches, None
        <3> QED BY <1>1, <3>1, <3>2 DEF Appended
    <2>5. Originals(req[u].target)' = {p \in Rows' : /\ payments'[p].batch = req[u].target
                                                    /\ payments'[p].reverses = None}
        BY <1>2 DEF Originals, IsReversal
    <2> QED BY <1>2, <2>2, <2>3, <2>4, <2>5 DEF TargetsFit, IsReversal
<1>5. ReadsFit(req[u])'
    <2>1. ASSUME NEW s \in req[u].locked PROVE Balance(s)' = Balance(s)
        BY <1>0, <1>2, <2>1, OwedElsewhere
    <2>2. req[u].targets \cap ReversedRows' = {}
        BY <1>1, <1>2 DEF ReadsFit, Appended
    <2> QED BY <1>2, <2>1, <2>2 DEF ReadsFit
<1>6. \A v \in Workers \ {u} : req'[v] # Idle => Apart(req'[u], req'[v])
    BY <1>0, <1>2 DEF RequestsInv
<1> QED BY <1>3, <1>4, <1>5, <1>6

\* Rows may be appended that start a batch of their own, with one row for a
\* sale, or reverse older rows, and all of a batch if any of it.
MayAppend(new) ==
    /\ NewBatches(new)
    /\ \A n \in DOMAIN new : /\ new[n].batch <= Len(payments) + 1
                             /\ new[n].batch # None => new[n].sale # None
                             /\ new[n].reverses \in Rows \cup {None}
    /\ \A m, n \in DOMAIN new :
          /\ new[m].batch # None /\ new[m].batch = new[n].batch
          /\ new[m].reverses = None /\ new[n].reverses = None /\ new[m].sale = new[n].sale
          => m = n
    /\ \A b \in Nat \ {None} :
          Originals(b) \cap {new[n].reverses : n \in DOMAIN new} \in {{}, Originals(b)}

LEMMA AppendKeepsRows ==
    ASSUME PaymentInv, NEW new \in Seq(Row), payments' = payments \o new, MayAppend(new)
    PROVE  RowsFit' /\ OneRowPerSale' /\ BatchVoidedWhole'
<1> DEFINE L == Len(payments)
           N == {L + n : n \in DOMAIN new}
           R == {new[n].reverses : n \in DOMAIN new}
<1>0. TypeOK /\ RowsFit /\ OneRowPerSale /\ BatchVoidedWhole
    BY DEF PaymentInv
<1>1. /\ Rows' = Rows \cup N /\ ReversedRows' = ReversedRows \cup R
      /\ \A p \in Rows : payments'[p] = payments[p]
      /\ \A n \in DOMAIN new : payments'[L + n] = new[n]
      /\ DOMAIN new = 1..Len(new) /\ Len(new) \in Nat
      /\ \A n \in DOMAIN new : new[n] \in Row /\ L + n \notin Rows
    BY <1>0, AppendedBooks DEF Appended
<1>2. /\ Rows = 1..L /\ L \in Nat
      /\ \A p \in Rows : payments[p].batch \in 0..L /\ payments[p].reverses \in 0..L
      /\ \A p \in ReversedRows : p \in Nat /\ p < L
    BY <1>0, OlderKeys
<1>3. \A n \in DOMAIN new : new[n].batch \in Nat /\ new[n].reverses \in Nat
    BY <1>1 DEF Row
<1> HIDE DEF L
<1>4. RowsFit'
    <2> SUFFICES ASSUME NEW p \in Rows'
                 PROVE  /\ payments'[p].batch <= p
                        /\ payments'[p].batch # None => payments'[p].sale # None
                        /\ payments'[p].reverses < p
        BY DEF RowsFit
    <2>1. CASE p \in Rows
        BY <1>0, <1>1, <2>1 DEF RowsFit
    <2>2. ASSUME NEW n \in DOMAIN new, p = L + n
          PROVE  /\ payments'[p].batch <= p
                 /\ payments'[p].batch # None => payments'[p].sale # None
                 /\ payments'[p].reverses < p
        <3>1. new[n].batch <= L + 1 /\ new[n].reverses \in (1..L) \cup {0} /\ n >= 1 /\ n \in Nat
            BY <1>1, <1>2 DEF MayAppend, L, None
        <3>2. new[n].batch # None => new[n].sale # None
            BY DEF MayAppend
        <3>3. payments'[p] = new[n]
            BY <1>1, <2>2
        <3>4. new[n].batch <= p /\ new[n].reverses < p
            BY <1>2, <1>3, <2>2, <3>1
        <3> QED BY <3>2, <3>3, <3>4
    <2> QED BY <1>1, <2>1, <2>2
<1>5. OneRowPerSale'
    <2> SUFFICES ASSUME NEW p \in Rows', NEW q \in Rows',
                        payments'[p].batch # None, payments'[p].batch = payments'[q].batch,
                        payments'[p].reverses = None, payments'[q].reverses = None,
                        payments'[p].sale = payments'[q].sale
                 PROVE  p = q
        BY DEF OneRowPerSale, IsReversal
    <2>1. \A n \in DOMAIN new : new[n].reverses = None => new[n].batch \in {None, L + 1}
        BY DEF MayAppend, NewBatches, L
    <2>2. CASE p \in Rows /\ q \in Rows
        BY <1>0, <1>1, <2>2 DEF OneRowPerSale, IsReversal
    <2>6. \A x \in Rows : payments'[x].batch \in 0..L
        BY <1>1, <1>2
    <2>7. \A x \in Rows' \ Rows : payments'[x].reverses = None => payments'[x].batch \in {None, L + 1}
        BY <1>1, <2>1
    <2>3. CASE p \in Rows /\ q \notin Rows
        <3>1. payments'[q].batch = L + 1 /\ payments'[p].batch \in 0..L
            BY <2>3, <2>6, <2>7
        <3> QED BY <1>2, <3>1
    <2>4. CASE p \notin Rows /\ q \in Rows
        <3>1. payments'[p].batch = L + 1 /\ payments'[q].batch \in 0..L
            BY <2>4, <2>6, <2>7
        <3> QED BY <1>2, <3>1
    <2>5. CASE p \notin Rows /\ q \notin Rows
        <3>1. PICK m \in DOMAIN new : p = L + m
            BY <1>1, <2>5
        <3>2. PICK n \in DOMAIN new : q = L + n
            BY <1>1, <2>5
        <3>3. new[m].batch # None /\ new[m].batch = new[n].batch
              /\ new[m].reverses = None /\ new[n].reverses = None /\ new[m].sale = new[n].sale
            BY <1>1, <3>1, <3>2
        <3>4. m = n
            BY <3>3 DEF MayAppend
        <3> QED BY <3>1, <3>2, <3>4
    <2> QED BY <2>2, <2>3, <2>4, <2>5
<1>6. BatchVoidedWhole'
    <2> SUFFICES ASSUME NEW p \in Rows', payments'[p].batch # None
                 PROVE  Originals(payments[p].batch)' \cap ReversedRows'
                            \in {{}, Originals(payments[p].batch)'}
        BY DEF BatchVoidedWhole
    <2> DEFINE b  == payments'[p].batch
               O  == Originals(b)
               O2 == {q \in Rows' : payments'[q].batch = b /\ payments'[q].reverses = None}
    <2>0. Originals(payments[p].batch)' = O2
        BY DEF Originals, IsReversal
    <2>9. b # None
        OBVIOUS
    <2>1. b \in Nat /\ b # None /\ b <= L + 1
        <3>1. CASE p \in Rows
            <4>1. b = payments[p].batch
                BY <1>1, <3>1
            <4> HIDE DEF b
            <4> QED BY <1>2, <2>9, <3>1, <4>1
        <3>2. ASSUME NEW n \in DOMAIN new, p = L + n PROVE b \in Nat /\ b <= L + 1
            <4>1. b = new[n].batch
                BY <1>1, <3>2
            <4>2. new[n].batch <= L + 1
                BY DEF MayAppend, L
            <4> QED BY <1>3, <4>1, <4>2
        <3> QED BY <1>1, <2>9, <3>1, <3>2
    <2>2. CASE b = L + 1
        <3>1. O2 \cap Rows = {}
            <4> SUFFICES ASSUME NEW q \in Rows, payments'[q].batch = b PROVE FALSE
                OBVIOUS
            <4>1. payments[q].batch = b /\ payments[q].batch \in 0..L
                BY <1>1, <1>2
            <4> HIDE DEF b
            <4> QED BY <1>2, <2>2, <4>1
        <3>2. ReversedRows' \subseteq Rows \cup {None}
            <4>1. ReversedRows \subseteq Rows \cup {None}
                BY <1>2 DEF None
            <4>2. R \subseteq Rows \cup {None}
                BY DEF MayAppend
            <4> QED BY <1>1, <4>1, <4>2
        <3>3. None \notin Rows'
            BY <1>1, <1>2 DEF None
        <3> QED BY <2>0, <3>1, <3>2, <3>3
    <2>3. CASE b # L + 1
        <3>1. O2 = O
            <4>1. \A n \in DOMAIN new : new[n].reverses = None => new[n].batch # b
                BY <2>1, <2>3 DEF MayAppend, NewBatches, L
            <4>2. O = {q \in Rows : payments[q].batch = b /\ payments[q].reverses = None}
                BY DEF Originals, IsReversal
            <4> HIDE DEF b
            <4>3. O2 \subseteq O
                <5> SUFFICES ASSUME NEW q \in O2 PROVE q \in O
                    OBVIOUS
                <5>1. q \in Rows
                    <6>1. ASSUME NEW n \in DOMAIN new, q = L + n PROVE FALSE
                        BY <1>1, <4>1, <6>1
                    <6> QED BY <1>1, <6>1
                <5> QED BY <1>1, <4>2, <5>1
            <4>4. O \subseteq O2
                BY <1>1, <4>2
            <4> QED BY <4>3, <4>4
        <3>2. O \cap R \in {{}, O}
            BY <2>1 DEF MayAppend
        <3>3. O \cap ReversedRows \in {{}, O}
            <4>1. CASE O = {}
                BY <4>1
            <4>2. CASE O # {}
                <5>1. PICK q \in Rows : payments[q].batch = b
                    BY <4>2 DEF Originals
                <5> HIDE DEF b
                <5> QED BY <1>0, <2>1, <5>1 DEF BatchVoidedWhole
            <4> QED BY <4>1, <4>2
        <3> HIDE DEF O, R
        <3> QED BY <1>1, <2>0, <3>1, <3>2, <3>3
    <2> QED BY <2>2, <2>3
<1> QED BY <1>4, <1>5, <1>6

\* A request that writes `new` is done.
LEMMA CommitStepInv ==
    ASSUME PaymentInv, NEW w \in Workers, req[w] # Idle, Finish(w),
           NEW new \in Seq(Row), payments' = payments \o new, UNCHANGED <<status, total>>,
           MayAppend(new), Len(new) <= RowsOf(req[w]),
           \A u \in Workers \ {w} : req[u] # Idle =>
               \A n \in DOMAIN new : /\ new[n].sale \notin req[u].locked
                                     /\ new[n].reverses \notin req[u].targets
    PROVE  PaymentInv'
<1>0. TypeOK /\ Len(payments) + Taken <= MaxPayments /\ MaxPayments \in Nat
    BY PaymentsAssumption DEF PaymentInv, RoomKept
<1>1. /\ payments' \in Seq(Row) /\ Len(payments') = Len(payments) + Len(new)
      /\ Len(payments) \in Nat /\ Len(new) \in Nat
    BY <1>0, AppendedBooks
<1>2. req' = [req EXCEPT ![w] = Idle] /\ RowsOf(Idle) = 0
    BY DEF Finish, RowsOf
<1>3. Taken' = Taken - RowsOf(req[w])
    <2>1. Taken' = Taken - RowsOf(req[w]) + RowsOf(Idle)
        BY <1>0, <1>2, RoomChanges
    <2> QED BY <1>2, <2>1, RoomTaken
<1>4. Len(payments') + Taken' <= MaxPayments /\ Taken' \in Nat
    <2>1. Taken' = SumOf([u \in Workers |-> RowsOf(req'[u])], Workers)
        BY TakenSum
    <2>2. Taken' \in Nat
        BY <2>1, SumNat, RoomTaken, PaymentsAssumption
    <2> QED BY <1>0, <1>1, <1>3, <2>2, RoomTaken
<1>5. RoomKept'
    BY <1>4 DEF RoomKept
<1>6. TypeOK'
    <2>1. Len(payments') <= MaxPayments
        BY <1>0, <1>1, <1>4
    <2>2. req' \in [Workers -> Request \cup {Idle}]
        BY <1>0, <1>2 DEF TypeOK
    <2> QED BY <1>0, <1>1, <2>1, <2>2 DEF TypeOK
<1>7. RequestsInv'
    <2>1. \A u \in Workers : req'[u] \in {req[u], Idle} /\ (req'[u] # Idle => u # w)
        BY <1>0, <1>2 DEF TypeOK
    <2>2. NewBatches(new)
        BY DEF MayAppend
    <2> QED BY <2>1, <2>2, OthersKept
<1> QED BY <1>5, <1>6, <1>7, AppendKeepsRows DEF PaymentInv

LEMMA NewRowType ==
    ASSUME NEW s \in Sales \cup {None}, NEW a \in Nat, NEW c \in Nat,
           NEW disp \in Dispositions, NEW b \in Nat
    PROVE  NewRow(s, a, c, disp, b) \in Row
BY DEF NewRow, Row, None

\* One row, which belongs to no batch.
LEMMA SingleRow ==
    ASSUME PaymentInv, NEW row \in Row, row.batch = None, row.reverses = None
    PROVE  /\ <<row>> \in Seq(Row) /\ Len(<<row>>) = 1 /\ DOMAIN <<row>> = {1} /\ <<row>>[1] = row
           /\ MayAppend(<<row>>) /\ Append(payments, row) = payments \o <<row>>
<1> DEFINE new == <<row>>
<1>1. new \in Seq(Row) /\ Len(new) = 1 /\ DOMAIN new = {1} /\ new[1] = row
    OBVIOUS
<1>2. payments \in Seq(Row) /\ Len(payments) \in Nat
    BY DEF PaymentInv, TypeOK
<1>3. Append(payments, row) = payments \o new
    BY <1>2
<1> HIDE DEF new
<1>4. \A b \in Nat : Originals(b) \cap {new[n].reverses : n \in DOMAIN new} = {}
    <2>1. \A b : None \notin Originals(b)
        BY <1>2 DEF Originals, Rows, None
    <2> QED BY <1>1, <2>1
<1>5. MayAppend(new)
    BY <1>1, <1>2, <1>4 DEF MayAppend, NewBatches, None
<1> QED BY <1>1, <1>3, <1>5 DEF new

LEMMA RecordPaymentStep ==
    ASSUME PaymentInv, NEW w \in Workers, NEW a \in Amounts, NEW c \in 0..a,
           NEW disp \in Dispositions, RecordPayment(w, a, c, disp)
    PROVE  PaymentInv'
<1> DEFINE s   == req[w].sale
           row == NewRow(s, a, c, disp, None)
<1>1. req[w] # Idle /\ req[w].op = "pay"
    BY DEF RecordPayment, Serving
<1>2. s \in Sales
    BY <1>1, Served DEF RequestOK, RequestFits
<1>3. row \in Row /\ row.sale = s /\ row.batch = None /\ row.reverses = None
    <2>1. a \in Nat /\ c \in Nat
        BY PaymentsAssumption
    <2>2. s \in Sales \cup {None} /\ None \in Nat
        BY <1>2 DEF None
    <2>3. row \in Row
        <3> HIDE DEF s
        <3> QED BY <2>1, <2>2, NewRowType
    <2> QED BY <2>3 DEF NewRow
<1>4. /\ payments' = Append(payments, row) /\ Finish(w) /\ UNCHANGED <<status, total>>
      /\ SaleFree(w, s)
    BY DEF RecordPayment
<1> HIDE DEF row, s
<1>5. /\ <<row>> \in Seq(Row) /\ Len(<<row>>) = 1 /\ DOMAIN <<row>> = {1} /\ <<row>>[1] = row
      /\ MayAppend(<<row>>) /\ payments' = payments \o <<row>>
    BY <1>3, <1>4, SingleRow
<1>6. \A u \in Workers \ {w} : req[u] # Idle =>
          row.sale \notin req[u].locked /\ row.reverses \notin req[u].targets
    <2> SUFFICES ASSUME NEW u \in Workers \ {w}, req[u] # Idle
                 PROVE  row.sale \notin req[u].locked /\ row.reverses \notin req[u].targets
        OBVIOUS
    <2>1. req[u].targets \subseteq 1..MaxPayments
        BY RequestTypes DEF PaymentInv
    <2>2. None \notin 1..MaxPayments
        BY DEF None
    <2> QED BY <1>3, <1>4, <2>1, <2>2 DEF SaleFree, Holds
<1>7. RowsOf(req[w]) = 1
    BY <1>1 DEF RowsOf
<1> DEFINE new == <<row>>
<1>8. /\ new \in Seq(Row) /\ Len(new) <= RowsOf(req[w]) /\ MayAppend(new)
      /\ payments' = payments \o new
      /\ \A n \in DOMAIN new : new[n] = row
    BY <1>5, <1>7
<1> HIDE DEF new
<1>9. \A u \in Workers \ {w} : req[u] # Idle =>
          \A n \in DOMAIN new : /\ new[n].sale \notin req[u].locked
                                /\ new[n].reverses \notin req[u].targets
    BY <1>6, <1>8
<1> QED BY <1>1, <1>4, <1>8, <1>9, CommitStepInv

\* A deposit is of no sale, and no request is done with it.
LEMMA TakeDepositStep ==
    ASSUME PaymentInv, NEW a \in Amounts, TakeDeposit(a)
    PROVE  PaymentInv'
<1> DEFINE row == NewRow(None, a, 0, "none", None)
<1>1. row \in Row /\ row.sale = None /\ row.batch = None /\ row.reverses = None
    <2>1. a \in Nat
        BY PaymentsAssumption
    <2>2. row \in Row
        BY <2>1, NewRowType DEF Dispositions, None
    <2> QED BY <2>2 DEF NewRow
<1>2. /\ payments' = Append(payments, row) /\ UNCHANGED <<status, total, req>>
      /\ Len(payments) + Taken + 1 <= MaxPayments
    BY DEF TakeDeposit, RoomFor, Taken
<1> HIDE DEF row
<1>3. /\ <<row>> \in Seq(Row) /\ Len(<<row>>) = 1 /\ DOMAIN <<row>> = {1} /\ <<row>>[1] = row
      /\ MayAppend(<<row>>) /\ payments' = payments \o <<row>>
    BY <1>1, <1>2, SingleRow
<1>4. /\ payments' \in Seq(Row) /\ Len(payments') = Len(payments) + 1 /\ Len(payments) \in Nat
      /\ TypeOK /\ MaxPayments \in Nat
    BY <1>3, AppendedBooks, PaymentsAssumption DEF PaymentInv
<1>5. Taken' = Taken
    <2>1. Taken = SumOf([u \in Workers |-> RowsOf(req[u])], Workers)
        BY TakenSum
    <2>2. Taken' = SumOf([u \in Workers |-> RowsOf(req'[u])], Workers)
        BY TakenSum
    <2> QED BY <1>2, <2>1, <2>2
<1>6. TypeOK' /\ RoomKept'
    BY <1>2, <1>4, <1>5, RoomTaken DEF TypeOK, RoomKept
<1>7. RequestsInv'
    <2>1. ASSUME NEW u \in Workers, req'[u] # Idle
          PROVE  row.sale \notin req[u].locked /\ row.reverses \notin req[u].targets
        <3>1. req[u].targets \subseteq 1..MaxPayments /\ req[u].locked \subseteq Sales
            BY <1>2, <2>1, RequestTypes DEF PaymentInv
        <3>2. None \notin 1..MaxPayments /\ None \notin Sales
            BY PaymentsAssumption DEF None
        <3> QED BY <1>1, <3>1, <3>2
    <2>2. NewBatches(<<row>>) /\ \A u \in Workers : req'[u] \in {req[u], Idle}
        BY <1>2, <1>3 DEF MayAppend
    <2> QED BY <1>2, <1>3, <2>1, <2>2, OthersKept
<1> QED BY <1>3, <1>6, <1>7, AppendKeepsRows DEF PaymentInv

\* What a repayment writes: a row for every sale that something is taken of.
LEMMA OldestRows ==
    ASSUME PaymentInv, NEW w \in Workers, CommitOldest(w)
    PROVE  LET q    == req[w]
               S    == {s \in Sales : q.paid[s] > 0}
               list == InOrder(S)
               new  == [n \in DOMAIN list |->
                           NewRow(list[n], q.paid[list[n]], 0, "none", Len(payments) + 1)]
           IN  /\ S \subseteq q.locked /\ S \subseteq Sales /\ Cardinality(S) <= Cardinality(Sales)
               /\ S = {list[n] : n \in DOMAIN list}
               /\ \A m, n \in DOMAIN list : list[m] = list[n] => m = n
               /\ new \in Seq(Row) /\ DOMAIN new = DOMAIN list /\ Len(new) = Cardinality(S)
               /\ payments' = payments \o new
               /\ \A n \in DOMAIN new :
                     /\ new[n].sale = list[n] /\ new[n].batch = Len(payments) + 1
                     /\ new[n].reverses = None /\ new[n].disp = "none" /\ new[n].change = 0
                     /\ Net(new[n]) = q.paid[list[n]]
<1> DEFINE q    == req[w]
           S    == {s \in Sales : q.paid[s] > 0}
           list == InOrder(S)
           b    == Len(payments) + 1
           new  == [n \in DOMAIN list |-> NewRow(list[n], q.paid[list[n]], 0, "none", b)]
<1>1. req[w] # Idle /\ q.op = "oldest" /\ payments' = payments \o new
    BY DEF CommitOldest, Serving
<1>2. q.paid \in [Sales -> Nat] /\ S \subseteq q.locked /\ b \in Nat
    BY <1>1, Served, RequestTypes DEF RequestOK, RequestFits
<1>3. IsFiniteSet(S) /\ Cardinality(S) <= Cardinality(Sales) /\ S \subseteq Nat /\ S \subseteq Sales
    <2>1. S \subseteq Sales
        OBVIOUS
    <2>2. IsFiniteSet(Sales) /\ Sales \subseteq Nat
        BY PaymentsAssumption
    <2> HIDE DEF S
    <2>3. IsFiniteSet(S) /\ Cardinality(S) <= Cardinality(Sales)
        BY <2>1, <2>2, FS_Subset
    <2> QED BY <2>1, <2>2, <2>3
<1> HIDE DEF S
<1>4. /\ DOMAIN list = 1..Cardinality(S) /\ Cardinality(S) \in Nat
      /\ S = {list[n] : n \in DOMAIN list}
      /\ \A m, n \in DOMAIN list : list[m] = list[n] => m = n
    BY <1>3, InOrderLists, FS_CardinalityType
<1> HIDE DEF list, b, q
<1>5. \A n \in DOMAIN list :
          /\ new[n] \in Row /\ new[n].sale = list[n] /\ new[n].batch = b /\ new[n].reverses = None
          /\ new[n].disp = "none" /\ new[n].change = 0 /\ Net(new[n]) = q.paid[list[n]]
    <2> SUFFICES ASSUME NEW n \in DOMAIN list
                 PROVE  LET row == NewRow(list[n], q.paid[list[n]], 0, "none", b)
                        IN  /\ row \in Row /\ row.sale = list[n] /\ row.batch = b
                            /\ row.reverses = None /\ row.disp = "none" /\ row.change = 0
                            /\ Net(row) = q.paid[list[n]]
        OBVIOUS
    <2>1. list[n] \in Sales \cup {None} /\ q.paid[list[n]] \in Nat
        BY <1>2, <1>3, <1>4
    <2>2. NewRow(list[n], q.paid[list[n]], 0, "none", b) \in Row
        BY <1>2, <2>1, NewRowType DEF Dispositions
    <2> QED BY <2>1, <2>2 DEF NewRow, Net
<1>6. new \in Seq(Row) /\ DOMAIN new = DOMAIN list /\ Len(new) = Cardinality(S)
    <2>1. \A n \in 1..Cardinality(S) : new[n] \in Row
        BY <1>4, <1>5
    <2> QED BY <1>4, <2>1
<1> HIDE DEF new
<1>7. \A n \in DOMAIN new :
          /\ new[n].sale = list[n] /\ new[n].batch = b
          /\ new[n].reverses = None /\ new[n].disp = "none" /\ new[n].change = 0
          /\ Net(new[n]) = q.paid[list[n]]
    BY <1>5, <1>6
<1> QED BY <1>1, <1>2, <1>3, <1>4, <1>6, <1>7 DEF new, list, b, S, q

LEMMA CommitOldestStep ==
    ASSUME PaymentInv, NEW w \in Workers, CommitOldest(w)
    PROVE  PaymentInv'
<1> DEFINE q    == req[w]
           S    == {s \in Sales : q.paid[s] > 0}
           list == InOrder(S)
           b    == Len(payments) + 1
           new  == [n \in DOMAIN list |-> NewRow(list[n], q.paid[list[n]], 0, "none", b)]
<1>1. /\ req[w] # Idle /\ q.op = "oldest" /\ Finish(w) /\ UNCHANGED <<status, total>>
    BY DEF CommitOldest, Serving
<1>2. /\ S \subseteq q.locked /\ S \subseteq Sales /\ Cardinality(S) <= Cardinality(Sales)
      /\ S = {list[n] : n \in DOMAIN list}
      /\ \A m, n \in DOMAIN list : list[m] = list[n] => m = n
      /\ new \in Seq(Row) /\ DOMAIN new = DOMAIN list /\ Len(new) = Cardinality(S)
      /\ payments' = payments \o new
      /\ \A n \in DOMAIN new :
            new[n].sale = list[n] /\ new[n].batch = b /\ new[n].reverses = None
    BY OldestRows
<1>3. b \in Nat /\ b = Len(payments) + 1 /\ b # None
    BY <1>1, Served DEF None
<1> HIDE DEF new, list, b, S, q
<1>4. MayAppend(new)
    <2>1. NewBatches(new)
        BY <1>2, <1>3 DEF NewBatches
    <2>2. \A n \in DOMAIN new : /\ new[n].batch <= Len(payments) + 1
                                /\ new[n].batch # None => new[n].sale # None
                                /\ new[n].reverses \in Rows \cup {None}
        <3>1. None \notin Sales
            BY PaymentsAssumption DEF None
        <3>2. \A n \in DOMAIN new : new[n].sale \in Sales /\ new[n].batch = b /\ new[n].reverses = None
            BY <1>2
        <3> QED BY <1>3, <3>1, <3>2
    <2>3. \A m, n \in DOMAIN new : new[m].sale = new[n].sale => m = n
        BY <1>2
    <2>4. \A c \in Nat : Originals(c) \cap {new[n].reverses : n \in DOMAIN new} = {}
        <3>1. \A c : None \notin Originals(c)
            BY <1>1, Served DEF Originals, Rows, None, TypeOK
        <3> QED BY <1>2, <3>1
    <2> QED BY <2>1, <2>2, <2>3, <2>4 DEF MayAppend
<1>5. \A u \in Workers \ {w} : req[u] # Idle =>
           \A n \in DOMAIN new : /\ new[n].sale \notin req[u].locked
                                 /\ new[n].reverses \notin req[u].targets
    <2> SUFFICES ASSUME NEW u \in Workers \ {w}, req[u] # Idle, NEW n \in DOMAIN new
                 PROVE  new[n].sale \notin req[u].locked /\ new[n].reverses \notin req[u].targets
        OBVIOUS
    <2>1. req[u].targets \subseteq 1..MaxPayments /\ None \notin 1..MaxPayments
        BY RequestTypes DEF PaymentInv, None
    <2>2. Apart(q, req[u])
        BY <1>1, Served DEF q
    <2>3. new[n].sale \in q.locked /\ new[n].reverses = None
        BY <1>2
    <2> QED BY <2>1, <2>2, <2>3 DEF Apart
<1>6. Len(new) <= RowsOf(req[w])
    BY <1>1, <1>2 DEF RowsOf, q
<1> QED BY <1>1, <1>2, <1>4, <1>5, <1>6, CommitStepInv

\* A batch has no more payments than there are sales.
LEMMA BatchSize ==
    ASSUME TypeOK, RowsFit, OneRowPerSale, NEW b, b # None
    PROVE  IsFiniteSet(Originals(b)) /\ Cardinality(Originals(b)) <= Cardinality(Sales)
<1> DEFINE f == [p \in Originals(b) |-> payments[p].sale]
<1>1. \A p \in Originals(b) : p \in Rows /\ payments[p].batch = b /\ ~IsReversal(p)
    BY DEF Originals
<1>2. f \in [Originals(b) -> Sales]
    <2>1. \A p \in Rows : payments[p].sale \in Sales \cup {None}
        <3>1. \A p \in Rows : payments[p] \in Row
            BY RowFacts DEF TypeOK, Rows
        <3> QED BY <3>1 DEF Row
    <2> QED BY <1>1, <2>1 DEF RowsFit
<1>3. \A p, q \in Originals(b) : f[p] = f[q] => p = q
    BY <1>1 DEF OneRowPerSale
<1>4. f \in Injection(Originals(b), Sales)
    BY <1>2, <1>3 DEF Injection, IsInjective
<1> QED BY <1>4, FS_Injection, PaymentsAssumption

\* What a void writes: the reversals of what it has locked.
LEMMA VoidRows ==
    ASSUME PaymentInv, NEW w \in Workers, CommitVoid(w)
    PROVE  LET targets == req[w].targets
               list    == InOrder(targets)
               new     == [n \in DOMAIN list |-> Reversal(list[n])]
           IN  /\ targets \subseteq Rows /\ IsFiniteSet(targets)
               /\ \A p \in targets : ~IsReversal(p)
               /\ DOMAIN list = 1..Cardinality(targets) /\ Cardinality(targets) \in Nat
               /\ targets = {list[n] : n \in DOMAIN list}
               /\ \A m, n \in DOMAIN list : list[m] = list[n] => m = n
               /\ new \in Seq(Row) /\ DOMAIN new = DOMAIN list /\ Len(new) = Cardinality(targets)
               /\ \A n \in DOMAIN new :
                     /\ new[n].sale = payments[list[n]].sale /\ new[n].batch = payments[list[n]].batch
                     /\ new[n].reverses = list[n] /\ Net(new[n]) = -Net(payments[list[n]])
<1> DEFINE targets == req[w].targets
           list    == InOrder(targets)
           new     == [n \in DOMAIN list |-> Reversal(list[n])]
<1>1. /\ req[w] # Idle /\ targets # {}
      /\ TypeOK /\ RequestFits(req[w]) /\ TargetsFit(req[w])
    <2>1. req[w] # Idle
        BY DEF CommitVoid, Serving
    <2>2. TypeOK /\ RequestFits(req[w]) /\ TargetsFit(req[w])
        BY <2>1, Served DEF RequestOK
    <2>3. list # <<>>
        BY DEF CommitVoid
    <2>4. targets # {}
        <3> SUFFICES ASSUME targets = {} PROVE FALSE
            OBVIOUS
        <3>1. InOrder({}) \in Seq({}) /\ Len(InOrder({})) = 0
            BY InOrderLists, FS_EmptySet
        <3>2. InOrder({}) = <<>>
            BY <3>1
        <3> QED BY <2>3, <3>2
    <2> QED BY <2>1, <2>2, <2>4
<1>2. targets \subseteq Rows /\ \A p \in targets : ~IsReversal(p)
    BY <1>1 DEF RequestFits, TargetsFit
<1>3. IsFiniteSet(targets) /\ targets \subseteq Nat
    BY <1>1, <1>2, RowFacts, FS_Subset DEF Rows, TypeOK
<1> HIDE DEF targets
<1>4. /\ DOMAIN list = 1..Cardinality(targets) /\ Cardinality(targets) \in Nat
      /\ targets = {list[n] : n \in DOMAIN list}
      /\ \A m, n \in DOMAIN list : list[m] = list[n] => m = n
    BY <1>3, InOrderLists, FS_CardinalityType
<1> HIDE DEF list
<1>5. \A p \in targets :
        /\ Reversal(p) \in Row /\ Reversal(p).sale = payments[p].sale
        /\ Reversal(p).batch = payments[p].batch /\ Reversal(p).reverses = p
        /\ Net(Reversal(p)) = -Net(payments[p])
    <2> SUFFICES ASSUME NEW p \in targets
                 PROVE  /\ Reversal(p) \in Row /\ Reversal(p).sale = payments[p].sale
                        /\ Reversal(p).batch = payments[p].batch /\ Reversal(p).reverses = p
                        /\ Net(Reversal(p)) = -Net(payments[p])
        OBVIOUS
    <2>1. payments[p] \in Row /\ p \in Nat
        BY <1>1, <1>2, <1>3 DEF TypeOK, Rows
    <2> DEFINE row == payments[p]
    <2>2. Reversal(p) = [row EXCEPT !.amount = -@, !.change = -@, !.reverses = p]
        BY DEF Reversal
    <2> HIDE DEF row
    <2>3. row \in Row
        BY <2>1 DEF row
    <2>4. row.amount \in Int /\ row.change \in Int
        BY <2>3 DEF Row
    <2>5. /\ Reversal(p) \in Row
          /\ Reversal(p).sale = row.sale /\ Reversal(p).batch = row.batch
          /\ Reversal(p).reverses = p
          /\ Reversal(p).amount = -row.amount /\ Reversal(p).change = -row.change
        <3>1. Reversal(p) = [sale |-> row.sale, amount |-> -row.amount, change |-> -row.change,
                             disp |-> row.disp, batch |-> row.batch, reverses |-> p]
            BY <2>2, <2>3 DEF Row
        <3>2. row.sale \in Sales \cup {None} /\ row.disp \in Dispositions /\ row.batch \in Nat
            BY <2>3 DEF Row
        <3>3. -row.amount \in Int /\ -row.change \in Int
            BY <2>4
        <3> QED BY <2>1, <3>1, <3>2, <3>3 DEF Row
    <2>6. Net(Reversal(p)) = -Net(row)
        BY <2>4, <2>5 DEF Net
    <2> QED BY <2>5, <2>6 DEF row
<1>6. DOMAIN new = DOMAIN list /\ \A n \in DOMAIN new : new[n] = Reversal(list[n]) /\ list[n] \in targets
    BY <1>4
<1>7. new \in Seq(Row) /\ Len(new) = Cardinality(targets)
    BY <1>4, <1>5, <1>6
<1> HIDE DEF new
<1>8. \A n \in DOMAIN new :
        /\ new[n].sale = payments[list[n]].sale /\ new[n].batch = payments[list[n]].batch
        /\ new[n].reverses = list[n] /\ Net(new[n]) = -Net(payments[list[n]])
    BY <1>5, <1>6
<1> QED BY <1>2, <1>3, <1>4, <1>6, <1>7, <1>8 DEF targets, list, new

LEMMA CommitVoidStep ==
    ASSUME PaymentInv, NEW w \in Workers, CommitVoid(w)
    PROVE  PaymentInv'
<1> DEFINE q       == req[w]
           targets == q.targets
           list    == InOrder(targets)
           new     == [n \in DOMAIN list |-> Reversal(list[n])]
<1>1. /\ targets \subseteq Rows /\ IsFiniteSet(targets)
      /\ DOMAIN list = 1..Cardinality(targets) /\ Cardinality(targets) \in Nat
      /\ targets = {list[n] : n \in DOMAIN list}
      /\ new \in Seq(Row) /\ DOMAIN new = DOMAIN list /\ Len(new) = Cardinality(targets)
      /\ \A n \in DOMAIN new :
            /\ new[n].sale = payments[list[n]].sale /\ new[n].batch = payments[list[n]].batch
            /\ new[n].reverses = list[n]
    BY VoidRows
<1>2. /\ req[w] # Idle /\ q.op \in {"void", "batch"} /\ Finish(w)
      /\ payments' = payments \o new /\ UNCHANGED <<status, total>>
      /\ \A p \in targets : payments[p].sale # None => SaleFree(w, payments[p].sale)
    BY DEF CommitVoid, Serving
<1>3. TypeOK /\ RowsFit /\ OneRowPerSale /\ RequestFits(q) /\ TargetsFit(q)
      /\ \A u \in Workers \ {w} : req[u] # Idle => Apart(q, req[u])
    BY <1>2, Served DEF PaymentInv, RequestOK
<1> HIDE DEF new, list, targets, q
<1>4. \A n \in DOMAIN new : list[n] \in targets /\ list[n] \in Rows
    BY <1>1
<1>5. Rows = 1..Len(payments) /\ Len(payments) \in Nat
      /\ \A p \in Rows : payments[p].batch \in 0..Len(payments)
    BY <1>3, OlderKeys
<1>6. MayAppend(new)
    <2>1. \A n \in DOMAIN new : new[n].reverses \in Rows /\ new[n].reverses # None
        BY <1>1, <1>4, <1>5 DEF None
    <2>2. \A n \in DOMAIN new : /\ new[n].batch <= Len(payments) + 1
                                /\ new[n].batch # None => new[n].sale # None
        <3> SUFFICES ASSUME NEW n \in DOMAIN new
                     PROVE  /\ new[n].batch <= Len(payments) + 1
                            /\ new[n].batch # None => new[n].sale # None
            OBVIOUS
        <3>1. payments[list[n]].batch \in 0..Len(payments)
              /\ (payments[list[n]].batch # None => payments[list[n]].sale # None)
            BY <1>3, <1>4, <1>5 DEF RowsFit
        <3> QED BY <1>1, <1>5, <3>1
    <2>3. {new[n].reverses : n \in DOMAIN new} = targets
        BY <1>1
    <2>4. ASSUME NEW b \in Nat \ {None} PROVE Originals(b) \cap targets \in {{}, Originals(b)}
        <3>1. CASE targets = {}
            BY <3>1
        <3>2. CASE targets # {} /\ q.op = "void"
            <4>1. \A p \in targets : payments[p].batch = None
                BY <1>3, <3>2 DEF TargetsFit, targets
            <4> QED BY <4>1 DEF Originals
        <3>3. CASE targets # {} /\ q.op = "batch"
            <4>1. targets = Originals(q.target)
                BY <1>3, <3>3 DEF TargetsFit, targets
            <4>2. CASE b = q.target
                BY <4>1, <4>2
            <4>3. CASE b # q.target
                <5>1. Originals(b) \cap Originals(q.target) = {}
                    BY <4>3 DEF Originals
                <5> QED BY <4>1, <5>1
            <4> QED BY <4>2, <4>3
        <3> QED BY <1>2, <3>1, <3>2, <3>3
    <2> QED BY <2>1, <2>2, <2>3, <2>4 DEF MayAppend, NewBatches
<1>7. Cardinality(targets) <= RowsOf(q)
    <2>1. CASE q.op = "void"
        <3>1. RowsOf(q) = 1
            BY <1>2, <2>1 DEF RowsOf, q
        <3>2. targets = {} \/ targets = {q.target}
            BY <1>3, <2>1 DEF TargetsFit, targets
        <3>3. Cardinality(targets) \in {0, 1}
            BY <3>2, FS_EmptySet, FS_Singleton
        <3> QED BY <3>1, <3>3
    <2>2. CASE q.op = "batch"
        <3>1. RowsOf(q) = Cardinality(Sales) /\ Cardinality(Sales) \in Nat
            BY <1>2, <2>2, PaymentsAssumption, FS_CardinalityType DEF RowsOf, q
        <3>2. targets = {} \/ targets = Originals(q.target)
            BY <1>3, <2>2 DEF TargetsFit, targets
        <3>3. q.target # None
            BY <1>3, <1>5, <2>2 DEF RequestFits, None
        <3> QED BY <1>3, <3>1, <3>2, <3>3, BatchSize, FS_EmptySet
    <2> QED BY <1>2, <2>1, <2>2
<1>8. \A u \in Workers \ {w} : req[u] # Idle =>
           \A n \in DOMAIN new : /\ new[n].sale \notin req[u].locked
                                 /\ new[n].reverses \notin req[u].targets
    <2> SUFFICES ASSUME NEW u \in Workers \ {w}, req[u] # Idle, NEW n \in DOMAIN new
                 PROVE  new[n].sale \notin req[u].locked /\ new[n].reverses \notin req[u].targets
        OBVIOUS
    <2>1. new[n].reverses \notin req[u].targets
        BY <1>1, <1>3, <1>4 DEF Apart, targets
    <2>2. CASE new[n].sale = None
        <3>1. req[u].locked \subseteq Sales /\ None \notin Sales
            BY <1>3, RequestTypes, PaymentsAssumption DEF None
        <3> QED BY <2>1, <2>2, <3>1
    <2>3. CASE new[n].sale # None
        <3>1. SaleFree(w, new[n].sale)
            BY <1>1, <1>2, <1>4, <2>3
        <3> QED BY <2>1, <3>1 DEF SaleFree, Holds
    <2> QED BY <2>2, <2>3
<1> QED BY <1>1, <1>2, <1>6, <1>7, <1>8, CommitStepInv DEF q

-----------------------------------------------------------------------------
(* The sales change, or a deposit is linked to one. *)

\* Rows may be linked to a sale as long as they belong to no batch; nothing that
\* a repayment holds is owed less.
LEMMA SalesStep ==
    ASSUME PaymentInv, UNCHANGED req, TypeOK',
           Rows' = Rows, Len(payments') = Len(payments),
           \A p \in Rows : /\ payments'[p].batch = payments[p].batch
                           /\ payments'[p].reverses = payments[p].reverses
                           /\ payments[p].batch # None => payments'[p].sale = payments[p].sale,
           \A t \in Sales : (\E w \in Workers : Holds(w, t)) => Balance(t) <= Balance(t)'
    PROVE  PaymentInv'
<1>0. TypeOK /\ RowsFit /\ OneRowPerSale /\ BatchVoidedWhole /\ RequestsInv
    BY DEF PaymentInv
<1>1. \A p \in Rows : IsReversal(p)' = IsReversal(p)
    BY DEF IsReversal
<1>2. \A b : Originals(b)' = Originals(b)
    BY <1>1 DEF Originals
<1>3. ReversedRows' = ReversedRows
    BY DEF ReversedRows
<1>4. RoomKept'
    <2>1. Taken = SumOf([u \in Workers |-> RowsOf(req[u])], Workers)
        BY TakenSum
    <2>2. Taken' = SumOf([u \in Workers |-> RowsOf(req'[u])], Workers)
        BY TakenSum
    <2> QED BY <2>1, <2>2 DEF RoomKept, PaymentInv
<1>5. RowsFit'
    BY <1>0 DEF RowsFit
<1>6. OneRowPerSale'
    BY <1>0, <1>1 DEF OneRowPerSale
<1>7. BatchVoidedWhole'
    <2> SUFFICES ASSUME NEW p \in Rows, payments'[p].batch # None
                 PROVE  Originals(payments[p].batch)' \cap ReversedRows'
                            \in {{}, Originals(payments[p].batch)'}
        BY DEF BatchVoidedWhole
    <2>1. Originals(payments[p].batch)' = Originals(payments[p].batch)
        BY <1>1 DEF Originals
    <2> QED BY <1>0, <1>3, <2>1 DEF BatchVoidedWhole
<1>8. RequestsInv'
    <2> SUFFICES ASSUME NEW u \in Workers, req[u] # Idle
                 PROVE  /\ RequestFits(req[u])' /\ TargetsFit(req[u])' /\ ReadsFit(req[u])'
                        /\ \A v \in Workers \ {u} : req[v] # Idle => Apart(req[u], req[v])
        BY DEF RequestsInv, Apart
    <2>1. /\ RequestFits(req[u]) /\ TargetsFit(req[u]) /\ ReadsFit(req[u])
          /\ \A v \in Workers \ {u} : req[v] # Idle => Apart(req[u], req[v])
        BY <1>0 DEF RequestsInv
    <2>2. RequestFits(req[u])'
        BY <2>1 DEF RequestFits
    <2>3. TargetsFit(req[u])'
        <3>1. Originals(req[u].target)' = Originals(req[u].target)
            BY <1>1 DEF Originals
        <3> QED BY <1>1, <2>1, <3>1 DEF TargetsFit, RequestFits
    <2>4. ReadsFit(req[u])'
        <3>1. ASSUME req[u].op = "oldest", NEW t \in req[u].locked
              PROVE  req[u].paid[t] <= Balance(t)'
            <4>1. t \in Sales /\ req[u].paid[t] \in Nat
                BY <1>0, <3>1, RequestTypes
            <4>2. req[u].paid[t] <= Balance(t)
                BY <2>1, <3>1 DEF ReadsFit
            <4>3. Balance(t) <= Balance(t)'
                BY <4>1 DEF Holds
            <4> QED BY <1>0, <4>1, <4>2, <4>3, BalanceFacts, BalanceNextNat
        <3> QED BY <1>3, <2>1, <3>1 DEF ReadsFit
    <2> QED BY <2>1, <2>2, <2>3, <2>4
<1> QED BY <1>4, <1>5, <1>6, <1>7, <1>8 DEF PaymentInv

\* A sale that is not confirmed yet is owed nothing, and nothing else changes.
LEMMA ConfirmSaleStep ==
    ASSUME PaymentInv, NEW s \in Sales, NEW t \in Totals, ConfirmSale(s, t)
    PROVE  PaymentInv'
<1>1. TypeOK /\ UNCHANGED <<payments, req>> /\ status[s] = "none"
      /\ status' = [status EXCEPT ![s] = "confirmed"] /\ total' = [total EXCEPT ![s] = t]
    BY DEF PaymentInv, ConfirmSale, IsNext
<1>2. TypeOK'
    <2>1. t \in Nat
        BY PaymentsAssumption
    <2> QED BY <1>1, <2>1 DEF TypeOK
<1>3. ASSUME NEW x \in Sales PROVE Balance(x) <= Balance(x)'
    <2>1. CASE x = s
        BY <1>1, <1>2, <2>1, BalanceFacts, BalanceNextNat
    <2>2. CASE x # s
        <3>1. Balance(x)' = Balance(x) /\ Balance(x) \in Nat
            BY <1>1, <2>2, SameOwed, BalanceFacts DEF TypeOK
        <3> QED BY <3>1
    <2> QED BY <2>1, <2>2
<1> QED BY <1>1, <1>2, <1>3, SalesStep DEF Rows

\* A sale is shrunk under its lock.
LEMMA ShrinkSaleStep ==
    ASSUME PaymentInv, NEW s \in Sales, NEW t \in Totals \cup {0}, ShrinkSale(s, t)
    PROVE  PaymentInv'
<1>1. /\ TypeOK /\ UNCHANGED <<payments, req>> /\ \A w \in Workers : ~Holds(w, s)
      /\ status' = [status EXCEPT ![s] = IF t = 0 THEN "cancelled" ELSE @]
      /\ total' = [total EXCEPT ![s] = t]
    BY DEF PaymentInv, ShrinkSale
<1>2. TypeOK'
    <2>1. t \in Nat
        BY PaymentsAssumption
    <2> QED BY <1>1, <2>1 DEF TypeOK
<1>3. ASSUME NEW x \in Sales, \E w \in Workers : Holds(w, x) PROVE Balance(x) <= Balance(x)'
    <2>1. x # s
        BY <1>1, <1>3
    <2>2. Balance(x)' = Balance(x) /\ Balance(x) \in Nat
        BY <1>1, <2>1, SameOwed, BalanceFacts DEF TypeOK
    <2> QED BY <2>2
<1> QED BY <1>1, <1>2, <1>3, SalesStep DEF Rows

\* The deposits become payments of the new sale; other sales keep theirs.
LEMMA Linked ==
    ASSUME PaymentInv, NEW s \in Sales, NEW t \in Totals, CarryOver(s, t)
    PROVE  /\ payments' \in Seq(Row) /\ Rows' = Rows /\ Len(payments') = Len(payments)
           /\ \A p \in Rows : /\ Net(payments'[p]) = Net(payments[p])
                              /\ payments'[p].batch = payments[p].batch
                              /\ payments'[p].reverses = payments[p].reverses
                              /\ payments'[p].sale =
                                    IF payments[p].sale = None /\ ~IsReversal(p)
                                    THEN s ELSE payments[p].sale
<1>0. payments \in Seq(Row)
    BY DEF PaymentInv, TypeOK
<1>1. Rows = 1..Len(payments) /\ Len(payments) \in Nat /\ \A p \in Rows : payments[p] \in Row
    BY <1>0, RowFacts DEF Rows
<1>2. payments' = [p \in Rows |-> IF payments[p].sale = None /\ ~IsReversal(p)
                                  THEN [payments[p] EXCEPT !.sale = s]
                                  ELSE payments[p]]
    BY DEF CarryOver
<1>3. ASSUME NEW row \in Row
      PROVE  LET r == [row EXCEPT !.sale = s]
             IN  /\ r \in Row /\ r.sale = s /\ r.amount = row.amount /\ r.change = row.change
                 /\ r.batch = row.batch /\ r.reverses = row.reverses
    BY DEF Row
<1>4. \A p \in Rows :
        /\ payments'[p] \in Row /\ Net(payments'[p]) = Net(payments[p])
        /\ payments'[p].batch = payments[p].batch
        /\ payments'[p].reverses = payments[p].reverses
        /\ payments'[p].sale =
              IF payments[p].sale = None /\ ~IsReversal(p) THEN s ELSE payments[p].sale
    BY <1>1, <1>2, <1>3 DEF Net
<1>5. DOMAIN payments' = 1..Len(payments)
    BY <1>1, <1>2
<1>6. payments' \in Seq(Row) /\ Len(payments') = Len(payments)
    <2>1. payments' = [p \in 1..Len(payments) |-> payments'[p]]
        BY <1>1, <1>2
    <2> QED BY <1>1, <1>4, <1>5, <2>1
<1> QED BY <1>1, <1>4, <1>5, <1>6 DEF Rows

LEMMA CarryOverStep ==
    ASSUME PaymentInv, NEW s \in Sales, NEW t \in Totals, CarryOver(s, t)
    PROVE  PaymentInv'
<1>1. /\ TypeOK /\ UNCHANGED req /\ status[s] = "none"
      /\ status' = [status EXCEPT ![s] = "confirmed"] /\ total' = [total EXCEPT ![s] = t]
    BY DEF PaymentInv, CarryOver, IsNext
<1>2. TypeOK'
    <2>1. t \in Nat
        BY PaymentsAssumption
    <2> QED BY <1>1, <2>1, Linked DEF TypeOK
<1>3. ASSUME NEW x \in Sales PROVE Balance(x) <= Balance(x)'
    <2>1. CASE x = s
        BY <1>1, <1>2, <2>1, BalanceFacts, BalanceNextNat
    <2>2. CASE x # s
        <3>1. OfSale(payments', x) = OfSale(payments, x)
            <4>1. x # None
                BY PaymentsAssumption DEF None
            <4> QED BY <2>2, <4>1, Linked DEF OfSale, Rows
        <3>2. \A p \in OfSale(payments, x) : NetOf(payments')[p] = NetOf(payments)[p]
            BY Linked DEF NetOf, OfSale, Rows
        <3>3. IsFiniteSet(OfSale(payments, x))
            BY <1>1, RowFacts, FS_Subset DEF OfSale, TypeOK
        <3>4. NetSum(payments', x) = NetSum(payments, x)
            BY <3>1, <3>2, <3>3, SumSame DEF NetSum
        <3>5. Balance(x)' = Balance(x) /\ Balance(x) \in Nat
            BY <1>1, <2>2, <3>4, SameOwed, BalanceFacts DEF TypeOK
        <3> QED BY <3>5
    <2> QED BY <2>1, <2>2
<1>4. \A p \in Rows : payments[p].batch # None => payments'[p].sale = payments[p].sale
    BY Linked DEF PaymentInv, RowsFit
<1> QED BY <1>1, <1>2, <1>3, <1>4, Linked, SalesStep

-----------------------------------------------------------------------------
(* The invariant holds, and what follows from it *)

LEMMA InvInit ==
    ASSUME Init
    PROVE  PaymentInv
<1>1. payments = <<>> /\ Rows = {} /\ Len(payments) = 0
    BY DEF Init, Rows
<1>2. \A w \in Workers : req[w] = Idle
    BY DEF Init
<1>3. TypeOK
    <2>1. payments \in Seq(Row) /\ Len(payments) <= MaxPayments
        BY <1>1, PaymentsAssumption
    <2> QED BY <2>1 DEF Init, TypeOK, NoMoney
<1>4. RoomKept
    <2>1. Taken = SumOf([w \in Workers |-> RowsOf(req[w])], Workers)
        BY TakenSum
    <2>2. \A w \in Workers : [u \in Workers |-> RowsOf(req[u])][w] = 0
        BY <1>2 DEF RowsOf
    <2>3. Taken = 0
        BY <2>1, <2>2, SumZero, PaymentsAssumption
    <2> QED BY <1>1, <2>3, PaymentsAssumption DEF RoomKept
<1>5. RowsFit /\ OneRowPerSale /\ BatchVoidedWhole
    BY <1>1 DEF RowsFit, OneRowPerSale, BatchVoidedWhole
<1>6. RequestsInv
    BY <1>2 DEF RequestsInv
<1> QED BY <1>3, <1>4, <1>5, <1>6 DEF PaymentInv

LEMMA InvStep ==
    ASSUME PaymentInv, [Next]_pvars
    PROVE  PaymentInv'
<1>1. ASSUME NEW w \in Workers, LoadStep(w) PROVE PaymentInv'
    BY <1>1, LoadSaleStep, LoadVoidStep, AllocateStep DEF LoadStep
<1>2. ASSUME NEW w \in Workers, LockStep(w) PROVE PaymentInv'
    BY <1>2, PayRowStep, LockVoidStep, LockBatchStep DEF LockStep
<1>3. ASSUME NEW w \in Workers, CommitStep(w) PROVE PaymentInv'
    BY <1>3, RecordPaymentStep, CommitOldestStep, CommitVoidStep, RefuseStep DEF CommitStep
<1>4. ASSUME SaleStep PROVE PaymentInv'
    BY <1>4, ConfirmSaleStep, CarryOverStep, ShrinkSaleStep DEF SaleStep
<1>5. ASSUME NEW a \in Amounts, TakeDeposit(a) PROVE PaymentInv'
    BY <1>5, TakeDepositStep
<1>6. ASSUME UNCHANGED pvars PROVE PaymentInv'
    <2>1. UNCHANGED <<status, total, payments, req>>
        BY <1>6 DEF pvars
    <2>2. \A t \in Sales : Balance(t)' = Balance(t) /\ Balance(t) \in Nat
        BY <2>1, SameBooks, BalanceFacts DEF PaymentInv
    <2>3. TypeOK'
        BY <2>1 DEF PaymentInv, TypeOK
    <2>4. Rows' = Rows /\ \A t \in Sales : Balance(t) <= Balance(t)'
        BY <2>1, <2>2 DEF Rows
    <2> QED BY <2>1, <2>3, <2>4, SalesStep
<1> QED BY <1>1, <1>2, <1>3, <1>4, <1>5, <1>6 DEF Next

\* In every reachable state, whoever pays, voids, cancels or hands over in
\* between.
THEOREM PaymentsInvariant == Spec => []PaymentInv
<1>1. Init => PaymentInv
    BY InvInit
<1>2. PaymentInv /\ [Next]_pvars => PaymentInv'
    BY InvStep
<1> QED BY <1>1, <1>2, PTL DEF Spec

\* A split repayment, allocated on an unlocked read, takes from every sale that
\* it has locked no more than is still owed, a batch is voided as a whole or not
\* at all, and no second reversal of a payment is ever attempted.
THEOREM BatchesKept == Spec => []BatchesHold
<1>1. PaymentInv => BatchesHold
    <2> SUFFICES ASSUME PaymentInv PROVE BatchesHold
        OBVIOUS
    <2>1. BatchWithinDebt
        BY DEF PaymentInv, RequestsInv, ReadsFit, BatchWithinDebt, Serving
    <2>2. ConstraintNeverFires
        BY DEF PaymentInv, RequestsInv, ReadsFit, ConstraintNeverFires
    <2> QED BY <2>1, <2>2 DEF PaymentInv, BatchesHold
<1> QED BY <1>1, PaymentsInvariant, PTL

\* A payment of its own takes its amount off what is owed.
LEMMA PaymentTakes ==
    ASSUME TypeOK, NEW row \in Row, NEW s \in Sales, row.sale = s,
           payments' = payments \o <<row>>, UNCHANGED total
    PROVE  Owed(s)' = Owed(s) - Net(row) /\ Rows' \ Rows = {Len(payments) + 1}
           /\ payments'[Len(payments) + 1] = row
<1> DEFINE new == <<row>>
<1>1. new \in Seq(Row) /\ DOMAIN new = {1} /\ new[1] = row /\ payments' = payments \o new
    OBVIOUS
<1> HIDE DEF new
<1>2. OfSale(new, s) = {1}
    BY <1>1 DEF OfSale
<1>3. NetOf(new)[1] = Net(row) /\ Net(row) \in Int
    BY <1>1, RowFacts DEF NetOf
<1>4. NetSum(new, s) = Net(row)
    <2>1. SumOf(NetOf(new), {} \cup {1}) = NetOf(new)[1] + SumOf(NetOf(new), {})
        BY <1>3, SumAdd, FS_EmptySet
    <2>2. {} \cup {1} = {1}
        OBVIOUS
    <2> QED BY <1>2, <1>3, <2>1, <2>2, SumEmpty DEF NetSum
<1>5. NetSum(payments', s) = NetSum(payments, s) + Net(row)
    BY <1>1, <1>4, NetSumAppended DEF TypeOK
<1>6. NetSum(payments, s) \in Int /\ total[s] \in Nat
    BY NetSumInt DEF TypeOK
<1>7. Owed(s)' = Owed(s) - Net(row)
    BY <1>3, <1>5, <1>6, AppliedIsNetSum, AppliedIsNetSumNext DEF Owed
<1>8. Rows' \ Rows = {Len(payments) + 1} /\ payments'[Len(payments) + 1] = row
    BY <1>1, AppendedBooks DEF Appended
<1> QED BY <1>7, <1>8

\* What a new row promises about its sale.
Settled(s, p) ==
    /\ payments'[p].disp = "none" => Owed(s)' >= Lesser(0, Owed(s)) - Tolerance
    /\ payments'[p].change > 0    => Owed(s)' <= Tolerance

SettleAction ==
    \A s \in Sales : \A p \in DOMAIN payments' \ Rows :
        payments'[p].sale = s /\ payments'[p].reverses = None => Settled(s, p)

LEMMA RecordPaymentSettles ==
    ASSUME PaymentInv, NEW w \in Workers, NEW a \in Amounts, NEW c \in 0..a,
           NEW disp \in Dispositions, RecordPayment(w, a, c, disp)
    PROVE  SettleAction
<1>0. TypeOK /\ req[w].sale \in Sales
    <2>1. req[w] # Idle /\ req[w].op = "pay"
        BY DEF RecordPayment, Serving
    <2> QED BY <2>1, Served DEF RequestOK, RequestFits
<1> PICK s \in Sales : s = req[w].sale
    BY <1>0
<1> DEFINE row == NewRow(s, a, c, disp, None)
<1>1. TypeOK /\ a \in Nat /\ c \in Nat /\ Tolerance \in Nat /\ Owed(s) \in Int /\ a > 0
    BY <1>0, BalanceFacts, PaymentsAssumption
<1>2. row \in Row /\ row.sale = s /\ row.disp = disp /\ row.change = c /\ Net(row) = a - c
    <2>1. row \in Row
        BY <1>1, NewRowType DEF None
    <2> QED BY <2>1 DEF NewRow, Net
<1>3. payments' = payments \o <<row>> /\ UNCHANGED total
    <2>1. payments' = Append(payments, row) /\ UNCHANGED total /\ payments \in Seq(Row)
        BY <1>1 DEF RecordPayment, TypeOK
    <2> HIDE DEF row
    <2> QED BY <1>2, <2>1
<1>4. /\ disp = "none" => Excess(Owed(s), a) <= Tolerance
      /\ IF disp = "change" THEN MayHandBack(Owed(s), a, c) ELSE c = 0
    BY DEF RecordPayment, Fits
<1> HIDE DEF row
<1>5. Owed(s)' = Owed(s) - (a - c) /\ Rows' \ Rows = {Len(payments) + 1}
      /\ payments'[Len(payments) + 1] = row
    BY <1>1, <1>2, <1>3, PaymentTakes
<1>6. ASSUME disp = "none" PROVE Owed(s)' >= Lesser(0, Owed(s)) - Tolerance
    BY <1>1, <1>4, <1>5, <1>6 DEF Excess, Lesser, AtLeastZero
<1>7. ASSUME c > 0 PROVE Owed(s)' <= Tolerance
    BY <1>1, <1>4, <1>5, <1>7 DEF MayHandBack
<1> SUFFICES ASSUME NEW t \in Sales, NEW p \in Rows' \ Rows, payments'[p].sale = t
             PROVE  Settled(t, p)
    BY DEF SettleAction, Rows
<1>8. payments'[p] = row /\ t = s
    BY <1>2, <1>5
<1> QED BY <1>2, <1>6, <1>7, <1>8 DEF Settled

LEMMA CommitOldestSettles ==
    ASSUME PaymentInv, NEW w \in Workers, CommitOldest(w)
    PROVE  SettleAction
<1> DEFINE q    == req[w]
           S    == {s \in Sales : q.paid[s] > 0}
           list == InOrder(S)
           new  == [n \in DOMAIN list |->
                       NewRow(list[n], q.paid[list[n]], 0, "none", Len(payments) + 1)]
<1>1. req[w] # Idle /\ q.op = "oldest" /\ UNCHANGED <<status, total>>
    BY DEF CommitOldest, Serving
<1>2. TypeOK /\ q.paid \in [Sales -> Nat] /\ \A s \in q.locked : q.paid[s] <= Balance(s)
    BY <1>1, Served, RequestTypes DEF RequestOK, ReadsFit
<1>3. \A s \in S : q.paid[s] > 0
    OBVIOUS
<1>4. /\ S \subseteq q.locked /\ S = {list[n] : n \in DOMAIN list}
      /\ \A m, n \in DOMAIN list : list[m] = list[n] => m = n
      /\ new \in Seq(Row) /\ DOMAIN new = DOMAIN list /\ payments' = payments \o new
      /\ \A n \in DOMAIN new : /\ new[n].sale = list[n] /\ new[n].change = 0
                               /\ Net(new[n]) = q.paid[list[n]]
    BY OldestRows
<1> HIDE DEF new, list, S, q
<1> SUFFICES ASSUME NEW s \in Sales, NEW p \in Rows' \ Rows, payments'[p].sale = s
             PROVE  Settled(s, p)
    BY DEF SettleAction, Rows
<1>8. PICK n \in DOMAIN new : p = Len(payments) + n /\ payments'[p] = new[n]
    BY <1>2, <1>4, NewRows
<1>9. s = list[n] /\ s \in S
    BY <1>4, <1>8
<1>10. OfSale(new, s) = {n}
    BY <1>4, <1>9 DEF OfSale
<1>11. NetOf(new)[n] = q.paid[s] /\ q.paid[s] \in Nat
    BY <1>2, <1>4, <1>9 DEF NetOf
<1>12. NetSum(new, s) = q.paid[s]
    <2>1. SumOf(NetOf(new), {} \cup {n}) = NetOf(new)[n] + SumOf(NetOf(new), {})
        BY <1>11, SumAdd, FS_EmptySet
    <2>2. {} \cup {n} = {n}
        OBVIOUS
    <2> QED BY <1>10, <1>11, <2>1, <2>2, SumEmpty DEF NetSum
<1>13. NetSum(payments', s) = NetSum(payments, s) + q.paid[s]
    BY <1>2, <1>4, <1>12, NetSumAppended DEF TypeOK
<1>14. NetSum(payments, s) \in Int /\ total[s] \in Nat
    BY <1>2, NetSumInt DEF TypeOK
<1>15. Owed(s)' = Owed(s) - q.paid[s] /\ Owed(s) \in Int
    BY <1>1, <1>2, <1>11, <1>13, <1>14, AppliedIsNetSum, AppliedIsNetSumNext DEF Owed
<1>16. q.paid[s] > 0 /\ q.paid[s] <= Balance(s)
    BY <1>2, <1>3, <1>4, <1>9
<1>17. Owed(s)' >= 0 /\ Owed(s)' \in Int
    <2>1. Balance(s) \in Nat /\ (Balance(s) > 0 => Balance(s) = Owed(s))
        BY <1>2, BalanceFacts
    <2> QED BY <1>11, <1>15, <1>16, <2>1
<1>18. Owed(s)' >= Lesser(0, Owed(s)) - Tolerance
    BY <1>15, <1>17, PaymentsAssumption DEF Lesser
<1>19. payments'[p].change = 0
    BY <1>4, <1>8
<1> QED BY <1>18, <1>19 DEF Settled

LEMMA SettleStep ==
    ASSUME PaymentInv, [Next]_pvars
    PROVE  SettleAction \/ UNCHANGED payments
<1>1. ASSUME NEW w \in Workers, LoadStep(w) \/ LockStep(w) \/ Refuse(w) PROVE UNCHANGED payments
    BY <1>1 DEF LoadStep, LoadSale, LoadVoid, LoadBatch, Allocate, Start,
                LockStep, PayRow, LockVoid, LockBatch, Refuse
<1>2. ASSUME NEW w \in Workers, CommitVoid(w) PROVE SettleAction
    <2> DEFINE list == InOrder(req[w].targets)
               new  == [n \in DOMAIN list |-> Reversal(list[n])]
    <2>1. /\ req[w].targets \subseteq Rows /\ req[w].targets = {list[n] : n \in DOMAIN list}
          /\ new \in Seq(Row) /\ DOMAIN new = DOMAIN list
          /\ \A n \in DOMAIN new : new[n].reverses = list[n]
        BY <1>2, VoidRows
    <2>2. payments' = payments \o new /\ TypeOK
        BY <1>2 DEF CommitVoid, PaymentInv
    <2> HIDE DEF new, list
    <2>3. \A p \in Rows' \ Rows : payments'[p].reverses \in Rows
        <3> SUFFICES ASSUME NEW p \in Rows' \ Rows PROVE payments'[p].reverses \in Rows
            OBVIOUS
        <3>1. PICK n \in DOMAIN new : payments'[p] = new[n]
            BY <2>1, <2>2, NewRows
        <3> QED BY <2>1, <3>1
    <2>4. None \notin Rows
        BY <2>2 DEF Rows, None, TypeOK
    <2> QED BY <2>3, <2>4 DEF SettleAction, Rows
<1>3. ASSUME NEW a \in Amounts, TakeDeposit(a) PROVE SettleAction
    <2> DEFINE row == NewRow(None, a, 0, "none", None)
    <2>1. TypeOK /\ row \in Row /\ row.sale = None /\ None \notin Sales
        <3>1. a \in Nat /\ None \notin Sales
            BY PaymentsAssumption DEF None
        <3>2. row \in Row
            BY <3>1, NewRowType DEF Dispositions, None
        <3> QED BY <3>1, <3>2 DEF NewRow, PaymentInv
    <2>2. payments' = Append(payments, row)
        BY <1>3 DEF TakeDeposit
    <2> HIDE DEF row
    <2>3. \A p \in Rows' \ Rows : payments'[p] = row
        BY <2>1, <2>2 DEF Rows, TypeOK
    <2> QED BY <2>1, <2>3 DEF SettleAction, Rows
<1>4. ASSUME NEW s \in Sales, NEW t \in Totals, ConfirmSale(s, t) PROVE UNCHANGED payments
    BY <1>4 DEF ConfirmSale
<1>5. ASSUME NEW s \in Sales, NEW t \in Totals \cup {0}, ShrinkSale(s, t) PROVE UNCHANGED payments
    BY <1>5 DEF ShrinkSale
<1>6. ASSUME NEW s \in Sales, NEW t \in Totals, CarryOver(s, t) PROVE SettleAction
    BY <1>6, Linked DEF SettleAction, Rows
<1>7. ASSUME UNCHANGED pvars PROVE UNCHANGED payments
    BY <1>7 DEF pvars
<1> QED BY <1>1, <1>2, <1>3, <1>4, <1>5, <1>6, <1>7, RecordPaymentSettles, CommitOldestSettles
        DEF Next, CommitStep, SaleStep

\* sales/services.py, record_payment and pay_oldest_first: whatever the view saw
\* and whoever paid in between, a payment without a disposition takes no sale
\* beyond what is owed by more than the tolerance, and change is handed back only
\* when nothing is owed any more.
THEOREM PaymentsAreSettled == Spec => PaymentsSettle
<1>1. PaymentInv /\ [Next]_pvars =>
         [\A s \in Sales : \A p \in DOMAIN payments' \ Rows :
             payments'[p].sale = s /\ payments'[p].reverses = None =>
                 /\ payments'[p].disp = "none" => Owed(s)' >= Lesser(0, Owed(s)) - Tolerance
                 /\ payments'[p].change > 0    => Owed(s)' <= Tolerance]_payments
    BY SettleStep DEF SettleAction, Settled
<1> QED BY <1>1, PaymentsInvariant, PTL DEF Spec, PaymentsSettle

-----------------------------------------------------------------------------
(* Voids, where no deposit is voided before its order is handed over *)

Counted(s) ==
    {p \in Rows : payments[p].sale = s /\ ~IsReversal(p) /\ p \notin ReversedRows}

CountsAll == \A s \in Sales : NetSum(payments, s) = SumOf(NetOf(payments), Counted(s))

VoidInv == PaymentInv /\ SalesOnly /\ CountsAll

LEMMA NetOfRows ==
    ASSUME NEW S \in SUBSET Rows
    PROVE  MapThenSumSet(LAMBDA p : Net(payments[p]), S) = SumOf(NetOf(payments), S)
BY DEF NetOf, Rows, SumOf, MapThenSumSet, MapThenFoldSet

LEMMA CountedIsSum ==
    CountsAll <=> VoidedCountsNothing
<1>1. \A s \in Sales : Counted(s) \in SUBSET Rows
    BY DEF Counted
<1>2. \A s \in Sales :
        MapThenSumSet(LAMBDA p : Net(payments[p]), Counted(s)) = SumOf(NetOf(payments), Counted(s))
    BY <1>1, NetOfRows
<1> QED BY <1>2, AppliedIsNetSum DEF CountsAll, VoidedCountsNothing, Counted

LEMMA CountedFacts ==
    ASSUME PaymentInv, NEW s
    PROVE  /\ Counted(s) \subseteq OfSale(payments, s) /\ IsFiniteSet(OfSale(payments, s))
           /\ IsFiniteSet(Counted(s)) /\ OfSale(payments, s) \subseteq Rows
           /\ \A p \in Rows : NetOf(payments)[p] \in Int
           /\ NetSum(payments, s) \in Int
<1>1. payments \in Seq(Row)
    BY DEF PaymentInv, TypeOK
<1>2. Counted(s) \subseteq OfSale(payments, s) /\ OfSale(payments, s) \subseteq Rows
    BY DEF Counted, OfSale, Rows
<1> QED BY <1>1, <1>2, RowFacts, FS_Subset, NetSumInt DEF Rows

\* The same books, the same sums.
LEMMA SameCounts ==
    ASSUME CountsAll, UNCHANGED payments
    PROVE  CountsAll'
BY DEF CountsAll, Counted, NetSum, NetOf, OfSale, Rows, IsReversal, ReversedRows

\* New payments count.
LEMMA PaymentsCount ==
    ASSUME PaymentInv, CountsAll, NEW new \in Seq(Row), payments' = payments \o new,
           \A n \in DOMAIN new : new[n].reverses = None
    PROVE  CountsAll'
<1> SUFFICES ASSUME NEW s \in Sales
             PROVE  NetSum(payments', s) = SumOf(NetOf(payments'), Counted(s)')
    BY DEF CountsAll, NetSum, NetOf, OfSale
<1> DEFINE A  == Counted(s)
           B  == OfSale(new, s)
           Im == {Len(payments) + n : n \in B}
<1>0. TypeOK /\ RowsFit
    BY DEF PaymentInv
<1>1. /\ Appended(new) /\ Rows = 1..Len(payments) /\ Len(payments) \in Nat
      /\ DOMAIN new = 1..Len(new) /\ Len(new) \in Nat
      /\ \A n \in DOMAIN new : Len(payments) + n \notin Rows
    BY <1>0, AppendedBooks
<1>2. ReversedRows' \ {None} = ReversedRows \ {None} /\ None \notin Rows'
    BY <1>1 DEF Appended, None
<1>3. Counted(s)' = A \cup Im
    <2>1. Counted(s)' = {p \in Rows' : /\ payments'[p].sale = s /\ payments'[p].reverses = None
                                       /\ p \notin ReversedRows'}
        BY DEF Counted, IsReversal
    <2>2. A = {p \in Rows : /\ payments[p].sale = s /\ payments[p].reverses = None
                            /\ p \notin ReversedRows}
        BY DEF Counted, IsReversal
    <2>3. \A n \in DOMAIN new : Len(payments) + n \notin ReversedRows'
        BY <1>0, <1>1, <1>2, OlderKeys DEF None
    <2>4. \A p \in Rows : p \in Counted(s)' <=> p \in A
        BY <1>1, <1>2, <2>1, <2>2 DEF Appended
    <2>5. \A n \in DOMAIN new : Len(payments) + n \in Counted(s)' <=> n \in B
        BY <1>1, <2>1, <2>3 DEF Appended, OfSale
    <2>6. Counted(s)' \subseteq Rows \cup {Len(payments) + n : n \in DOMAIN new}
        BY <1>1, <2>1 DEF Appended
    <2>7. A \subseteq Rows /\ B \subseteq DOMAIN new
        BY DEF Counted, OfSale
    <2> HIDE DEF A, B
    <2>8. Counted(s)' \subseteq A \cup Im
        BY <2>4, <2>5, <2>6
    <2>9. A \cup Im \subseteq Counted(s)'
        BY <2>4, <2>5, <2>7
    <2> QED BY <2>8, <2>9
<1>4. A \subseteq DOMAIN payments /\ B \subseteq DOMAIN new /\ payments \in Seq(Row)
    BY <1>0 DEF Counted, OfSale, Rows, TypeOK
<1>5. SumOf(NetOf(payments \o new), A \cup Im)
          = SumOf(NetOf(payments), A) + SumOf(NetOf(new), B)
    <2> HIDE DEF A, B
    <2> QED BY <1>4, SumAppended
<1>6. NetSum(payments', s) = NetSum(payments, s) + NetSum(new, s)
    BY <1>4, NetSumAppended
<1> QED BY <1>3, <1>5, <1>6 DEF CountsAll, NetSum

\* A void takes out of the sum what its reversals take off.
LEMMA VoidCounts ==
    ASSUME PaymentInv, CountsAll, NEW w \in Workers, CommitVoid(w)
    PROVE  CountsAll'
<1> DEFINE targets == req[w].targets
           list    == InOrder(targets)
           new     == [n \in DOMAIN list |-> Reversal(list[n])]
<1>1. /\ targets \subseteq Rows /\ IsFiniteSet(targets) /\ \A p \in targets : ~IsReversal(p)
      /\ targets = {list[n] : n \in DOMAIN list}
      /\ \A m, n \in DOMAIN list : list[m] = list[n] => m = n
      /\ new \in Seq(Row) /\ DOMAIN new = DOMAIN list
      /\ \A n \in DOMAIN new : /\ new[n].sale = payments[list[n]].sale
                               /\ new[n].reverses = list[n]
                               /\ Net(new[n]) = -Net(payments[list[n]])
    BY VoidRows
<1>2. payments' = payments \o new /\ targets \cap ReversedRows = {}
    BY DEF CommitVoid
<1> HIDE DEF new, list, targets
<1> SUFFICES ASSUME NEW s \in Sales
             PROVE  NetSum(payments', s) = SumOf(NetOf(payments'), Counted(s)')
    BY DEF CountsAll, NetSum, NetOf, OfSale
<1> DEFINE A  == Counted(s)
           B  == OfSale(new, s)
           Ts == {p \in targets : payments[p].sale = s}
<1>3. /\ TypeOK /\ RowsFit /\ payments \in Seq(Row)
      /\ Appended(new) /\ Rows = 1..Len(payments) /\ Len(payments) \in Nat
      /\ \A n \in DOMAIN new : Len(payments) + n \notin Rows
    BY <1>1, <1>2, AppendedBooks DEF PaymentInv, TypeOK
<1>4. Ts \subseteq A /\ A \subseteq Rows /\ IsFiniteSet(A) /\ IsFiniteSet(Ts)
      /\ \A p \in A : NetOf(payments)[p] \in Int
    <2>1. Ts \subseteq A /\ A \subseteq Rows
        BY <1>1, <1>2 DEF Counted
    <2> QED BY <2>1, CountedFacts, FS_Subset
<1>5. {new[n].reverses : n \in DOMAIN new} = targets
    BY <1>1
<1>6. Counted(s)' = A \ Ts
    <2>1. Counted(s)' = {p \in Rows' : /\ payments'[p].sale = s /\ payments'[p].reverses = None
                                       /\ p \notin ReversedRows'}
        BY DEF Counted, IsReversal
    <2>2. A = {p \in Rows : /\ payments[p].sale = s /\ payments[p].reverses = None
                            /\ p \notin ReversedRows}
        BY DEF Counted, IsReversal
    <2>3. \A n \in DOMAIN new : new[n].reverses # None
        BY <1>1, <1>3 DEF None
    <2>4. Counted(s)' \subseteq Rows
        BY <1>3, <2>1, <2>3 DEF Appended
    <2>5. \A p \in Rows : p \in Counted(s)' <=> p \in A /\ p \notin targets
        BY <1>3, <1>5, <2>1, <2>2 DEF Appended
    <2> HIDE DEF A
    <2>6. \A p \in A : p \in Ts <=> p \in targets
        BY <2>2
    <2> HIDE DEF Ts
    <2> QED BY <1>4, <2>4, <2>5, <2>6
<1>7. SumOf(NetOf(payments'), A \ Ts) = SumOf(NetOf(payments), A \ Ts)
    <2>1. \A p \in Rows : NetOf(payments')[p] = NetOf(payments)[p]
        BY <1>3 DEF Appended, NetOf, Rows
    <2>2. IsFiniteSet(A \ Ts) /\ A \ Ts \subseteq Rows
        BY <1>4, FS_Subset
    <2> HIDE DEF A, Ts
    <2> QED BY <2>1, <2>2, SumSame
<1>8. SumOf(NetOf(payments), A) = SumOf(NetOf(payments), A \ Ts) + SumOf(NetOf(payments), Ts)
    <2> HIDE DEF A, Ts
    <2>1. IsFiniteSet(A \ Ts) /\ (A \ Ts) \cup Ts = A /\ (A \ Ts) \cap Ts = {}
        BY <1>4, FS_Subset
    <2>2. SumOf(NetOf(payments), (A \ Ts) \cup Ts)
             = SumOf(NetOf(payments), A \ Ts) + SumOf(NetOf(payments), Ts)
        BY <1>4, <2>1, SumUnion
    <2> QED BY <2>1, <2>2
<1>9. NetSum(new, s) = -SumOf(NetOf(payments), Ts)
    <2> DEFINE f == [n \in B |-> NetOf(payments)[list[n]]]
    <2>0. B \subseteq DOMAIN new /\ IsFiniteSet(B) /\ {list[n] : n \in B} = Ts
        <3>1. B = {n \in DOMAIN new : payments[list[n]].sale = s}
            BY <1>1 DEF OfSale
        <3>2. IsFiniteSet(DOMAIN new)
            BY <1>1, RowFacts
        <3> QED BY <1>1, <3>1, <3>2, FS_Subset
    <2>1. \A n \in B : f[n] \in Int /\ list[n] \in Ts
        BY <1>4, <2>0
    <2>2. \A n \in B : NetOf(new)[n] = -f[n]
        <3>1. \A n \in DOMAIN new : NetOf(new)[n] = Net(new[n])
            BY DEF NetOf
        <3>2. \A p \in Rows : NetOf(payments)[p] = Net(payments[p])
            BY DEF NetOf, Rows
        <3> QED BY <1>1, <2>0, <3>1, <3>2
    <2>3. \A m, n \in B : list[m] = list[n] => m = n
        BY <1>1, <2>0
    <2>4. \A n \in B : NetOf(payments)[list[n]] = f[n]
        OBVIOUS
    <2> HIDE DEF f, B, Ts
    <2>5. SumOf(NetOf(payments), {list[n] : n \in B}) = SumOf(f, B)
        BY <2>0, <2>1, <2>3, <2>4, SumRenamed
    <2>6. SumOf(NetOf(new), B) = -SumOf(f, B)
        BY <2>0, <2>1, <2>2, SumNegated
    <2> QED BY <2>0, <2>5, <2>6 DEF NetSum, B
<1>10. NetSum(payments', s) = NetSum(payments, s) + NetSum(new, s)
    BY <1>1, <1>2, <1>3, NetSumAppended
<1>11. SumOf(NetOf(payments), Ts) \in Int /\ SumOf(NetOf(payments), A \ Ts) \in Int
    <2>1. IsFiniteSet(A \ Ts)
        BY <1>4, FS_Subset
    <2> HIDE DEF A, Ts
    <2> QED BY <1>4, <2>1, SumInt
<1> QED BY <1>6, <1>7, <1>8, <1>9, <1>10, <1>11 DEF CountsAll

\* Deposits that are linked to a sale count for it, for they are not voided.
LEMMA LinkedCount ==
    ASSUME PaymentInv, SalesOnly, CountsAll, NEW s \in Sales, NEW t \in Totals, CarryOver(s, t)
    PROVE  CountsAll'
<1> SUFFICES ASSUME NEW x \in Sales
             PROVE  NetSum(payments', x) = SumOf(NetOf(payments'), Counted(x)')
    BY DEF CountsAll, NetSum, NetOf, OfSale
<1> DEFINE D == {p \in Rows : x = s /\ payments[p].sale = None}
           A == Counted(x)
           S == OfSale(payments, x)
<1>0. x # None
    BY PaymentsAssumption DEF None
<1>1. /\ Rows' = Rows
      /\ \A p \in Rows : /\ Net(payments'[p]) = Net(payments[p])
                         /\ payments'[p].reverses = payments[p].reverses
                         /\ payments'[p].sale =
                               IF payments[p].sale = None THEN s ELSE payments[p].sale
      /\ \A p \in Rows : payments[p].sale = None => payments[p].reverses = None /\ p \notin ReversedRows
    BY Linked DEF SalesOnly, IsReversal
<1>2. ReversedRows' = ReversedRows
    BY <1>1 DEF ReversedRows
<1>3. Counted(x)' = A \cup D
    <2>1. Counted(x)' = {p \in Rows' : /\ payments'[p].sale = x /\ payments'[p].reverses = None
                                       /\ p \notin ReversedRows'}
        BY DEF Counted, IsReversal
    <2>2. A = {p \in Rows : /\ payments[p].sale = x /\ payments[p].reverses = None
                            /\ p \notin ReversedRows}
        BY DEF Counted, IsReversal
    <2> QED BY <1>0, <1>1, <1>2, <2>1, <2>2
<1>4. OfSale(payments', x) = S \cup D
    BY <1>0, <1>1 DEF OfSale, Rows
<1>5. /\ A \cap D = {} /\ S \cap D = {} /\ IsFiniteSet(A) /\ IsFiniteSet(S) /\ IsFiniteSet(D)
      /\ \A p \in A \cup S \cup D : NetOf(payments)[p] \in Int
    <2>1. A \subseteq S /\ IsFiniteSet(A) /\ IsFiniteSet(S) /\ S \subseteq Rows
          /\ \A p \in Rows : NetOf(payments)[p] \in Int
        BY CountedFacts
    <2>2. S \cap D = {} /\ D \subseteq Rows
        BY <1>0 DEF OfSale
    <2>3. IsFiniteSet(Rows)
        BY RowFacts DEF PaymentInv, TypeOK, Rows
    <2>4. IsFiniteSet(D)
        BY <2>2, <2>3, FS_Subset
    <2> HIDE DEF A, S, D
    <2> QED BY <2>1, <2>2, <2>4
<1>6. \A p \in Rows : NetOf(payments')[p] = NetOf(payments)[p]
    BY <1>1 DEF NetOf, Rows
<1>7. A \cup D \subseteq Rows /\ S \cup D \subseteq Rows
    BY DEF Counted, OfSale, Rows
<1> HIDE DEF A, D, S
<1>8. IsFiniteSet(A \cup D) /\ IsFiniteSet(S \cup D)
    BY <1>5, FS_Union
<1>9. /\ SumOf(NetOf(payments'), A \cup D) = SumOf(NetOf(payments), A \cup D)
      /\ SumOf(NetOf(payments'), S \cup D) = SumOf(NetOf(payments), S \cup D)
    BY <1>6, <1>7, <1>8, SumSame
<1>10. /\ SumOf(NetOf(payments), A \cup D) = SumOf(NetOf(payments), A) + SumOf(NetOf(payments), D)
       /\ SumOf(NetOf(payments), S \cup D) = SumOf(NetOf(payments), S) + SumOf(NetOf(payments), D)
    BY <1>5, SumUnion
<1>11. SumOf(NetOf(payments), A) = SumOf(NetOf(payments), S)
    BY DEF CountsAll, NetSum, A, S
<1> QED BY <1>3, <1>4, <1>9, <1>10, <1>11 DEF NetSum

\* Rows that nothing reverses are as good as they were when payments are added,
\* or the reversals of payments of sales.
LEMMA UnlinkedKept ==
    ASSUME PaymentInv, SalesOnly, NEW new \in Seq(Row), payments' = payments \o new,
           \A n \in DOMAIN new :
               /\ new[n].reverses \in Rows \cup {None}
               /\ new[n].reverses # None =>
                     new[n].sale # None /\ payments[new[n].reverses].sale # None
    PROVE  \A p \in Rows' : payments'[p].sale = None =>
               payments'[p].reverses = None /\ p \notin ReversedRows'
<1>1. /\ TypeOK /\ RowsFit
      /\ \A p \in Rows : payments[p].sale = None => payments[p].reverses = None /\ p \notin ReversedRows
    BY DEF PaymentInv, SalesOnly, IsReversal
<1>2. /\ Appended(new) /\ \A n \in DOMAIN new : Len(payments) + n \notin Rows
      /\ None \notin Rows' /\ ReversedRows \subseteq Rows \cup {None}
    <2>1. /\ Appended(new) /\ Rows = 1..Len(payments) /\ Len(payments) \in Nat
          /\ DOMAIN new = 1..Len(new) /\ \A n \in DOMAIN new : Len(payments) + n \notin Rows
        BY <1>1, AppendedBooks
    <2>2. None \notin Rows'
        BY <2>1 DEF Appended, None
    <2>3. ReversedRows \subseteq Rows \cup {None}
        BY <1>1, <2>1, OlderKeys DEF None
    <2> QED BY <2>1, <2>2, <2>3
<1>3. ReversedRows' \subseteq Rows \cup {None}
    BY <1>2 DEF Appended
<1> SUFFICES ASSUME NEW p \in Rows', payments'[p].sale = None
             PROVE  payments'[p].reverses = None /\ p \notin ReversedRows'
    OBVIOUS
<1>4. CASE p \in Rows
    <2>1. payments[p].sale = None /\ payments'[p] = payments[p]
        BY <1>2, <1>4 DEF Appended
    <2>2. \A n \in DOMAIN new : new[n].reverses # p
        BY <1>2, <1>4, <2>1
    <2> QED BY <1>1, <1>2, <1>4, <2>1, <2>2 DEF Appended
<1>5. CASE p \notin Rows
    <2>1. PICK n \in DOMAIN new : payments'[p] = new[n]
        BY <1>1, <1>5, NewRows
    <2> QED BY <1>2, <1>3, <1>5, <2>1
<1> QED BY <1>4, <1>5

\* Some payments are added, and nothing is reversed.
PaymentsAdded ==
    \E new \in Seq(Row) : /\ payments' = payments \o new
                          /\ \A n \in DOMAIN new : new[n].reverses = None

LEMMA RowAdded ==
    ASSUME PaymentInv, NEW row \in Row, payments' = Append(payments, row), row.reverses = None
    PROVE  PaymentsAdded
<1> DEFINE new == <<row>>
<1>0. payments \in Seq(Row)
    BY DEF PaymentInv, TypeOK
<1>1. new \in Seq(Row) /\ payments' = payments \o new /\ DOMAIN new = {1} /\ new[1] = row
    BY <1>0
<1> HIDE DEF new
<1> QED BY <1>1 DEF PaymentsAdded

LEMMA RecordPaymentAdds ==
    ASSUME PaymentInv, NEW w \in Workers, NEW a \in Amounts, NEW c \in 0..a,
           NEW disp \in Dispositions, RecordPayment(w, a, c, disp)
    PROVE  PaymentsAdded
<1> DEFINE row == NewRow(req[w].sale, a, c, disp, None)
<1>1. req[w] # Idle /\ req[w].op = "pay"
    BY DEF RecordPayment, Serving
<1>2. req[w].sale \in Sales /\ a \in Nat /\ c \in Nat
    BY <1>1, Served, PaymentsAssumption DEF RequestOK, RequestFits
<1>3. row \in Row
    BY <1>2, NewRowType DEF None
<1>4. payments' = Append(payments, row) /\ row.reverses = None
    BY DEF RecordPayment, NewRow
<1> QED BY <1>3, <1>4, RowAdded

LEMMA TakeDepositAdds ==
    ASSUME PaymentInv, NEW a \in Amounts, TakeDeposit(a)
    PROVE  PaymentsAdded
<1> DEFINE row == NewRow(None, a, 0, "none", None)
<1>1. a \in Nat
    BY PaymentsAssumption
<1>2. row \in Row
    BY <1>1, NewRowType DEF Dispositions, None
<1>3. payments' = Append(payments, row) /\ row.reverses = None
    BY DEF TakeDeposit, NewRow
<1> QED BY <1>2, <1>3, RowAdded

LEMMA CommitOldestAdds ==
    ASSUME PaymentInv, NEW w \in Workers, CommitOldest(w)
    PROVE  PaymentsAdded
<1> QED BY OldestRows DEF PaymentsAdded

\* A void that is being served is that of a payment of a sale, unless deposits
\* are voided here.
LEMMA ServedStep ==
    ASSUME Deposits # "refunded", PaymentInv, SalesOnly, [Next]_pvars,
           NEW u \in Workers, Serving(u, "void")'
    PROVE  payments[req'[u].target].sale # None /\ req'[u].target \in Rows
<1>0. /\ req \in [Workers -> Request \cup {Idle}]
      /\ Serving(u, "void") => req[u].target \in Rows /\ payments[req[u].target].sale # None
      /\ req'[u] # Idle /\ req'[u].op = "void"
    BY DEF PaymentInv, SalesOnly, Serving, RequestsInv, RequestFits, TypeOK
<1>1. ASSUME req'[u] # req[u]
      PROVE  \/ \E p \in Rows : LoadVoid(u, p)
             \/ LockVoid(u)
    <2>1. \E w \in Workers : LoadStep(w) \/ LockStep(w) \/ CommitStep(w)
        BY <1>1 DEF Next, SaleStep, ConfirmSale, CarryOver, ShrinkSale, TakeDeposit, pvars
    <2>2. PICK w \in Workers : LoadStep(w) \/ LockStep(w) \/ CommitStep(w)
        BY <2>1
    <2>3. ASSUME CommitStep(w) PROVE FALSE
        <3>1. req' = [req EXCEPT ![w] = Idle]
            BY <2>3 DEF CommitStep, RecordPayment, CommitOldest, CommitVoid, Refuse, Finish
        <3> QED BY <1>0, <1>1, <3>1
    <2>4. ASSUME LoadStep(w) PROVE \E p \in Rows : LoadVoid(u, p)
        <3>1. ASSUME NEW r, Start(w, r), r.op # "void" PROVE FALSE
            BY <1>0, <1>1, <3>1 DEF Start
        <3>2. ASSUME NEW s \in Sales, LoadSale(w, s) PROVE FALSE
            <4> DEFINE r == [Blank("pay") EXCEPT !.sale = s, !.owed = Owed(s)]
            <4>1. Start(w, r) /\ r.op = "pay"
                BY <3>2 DEF LoadSale, Blank
            <4> HIDE DEF r
            <4> QED BY <3>1, <4>1
        <3>3. ASSUME NEW p \in Rows, LoadBatch(w, p) PROVE FALSE
            <4> DEFINE r == [Blank("batch") EXCEPT !.target = p]
            <4>1. Start(w, r) /\ r.op = "batch"
                BY <3>3 DEF LoadBatch, Blank
            <4> HIDE DEF r
            <4> QED BY <3>1, <4>1
        <3>4. ASSUME NEW a \in Amounts, Allocate(w, a) PROVE FALSE
            <4> DEFINE r == [Blank("oldest") EXCEPT !.asked = a, !.plan = Allocation(a)]
            <4>1. Start(w, r) /\ r.op = "oldest"
                BY <3>4 DEF Allocate, Blank
            <4> HIDE DEF r
            <4> QED BY <3>1, <4>1
        <3>5. PICK p \in Rows : LoadVoid(w, p)
            BY <2>4, <3>2, <3>3, <3>4 DEF LoadStep
        <3>6. w = u
            BY <1>0, <1>1, <3>5 DEF LoadVoid, Start
        <3> QED BY <3>5, <3>6
    <2>5. ASSUME LockStep(w) PROVE LockVoid(u)
        <3>1. ASSUME NEW s \in Sales, PayRow(w, s) PROVE FALSE
            <4>1. req'[w].op = "oldest" /\ \A v \in Workers \ {w} : req'[v] = req[v]
                <5>1. req[w] \in Request /\ req[w].op = "oldest"
                    BY <1>0, <3>1 DEF PayRow, Serving
                <5> QED BY <1>0, <3>1, <5>1 DEF PayRow, Request
            <4> QED BY <1>0, <1>1, <4>1
        <3>2. ASSUME LockBatch(w) PROVE FALSE
            <4>1. req'[w].op = "batch" /\ \A v \in Workers \ {w} : req'[v] = req[v]
                <5>1. req[w] \in Request /\ req[w].op = "batch"
                    BY <1>0, <3>2 DEF LockBatch, Serving
                <5> QED BY <1>0, <3>2, <5>1 DEF LockBatch, Request
            <4> QED BY <1>0, <1>1, <4>1
        <3>3. LockVoid(w)
            BY <2>5, <3>1, <3>2 DEF LockStep
        <3>4. w = u
            BY <1>0, <1>1, <3>3 DEF LockVoid
        <3> QED BY <3>3, <3>4
    <2> QED BY <2>2, <2>3, <2>4, <2>5
<1>2. ASSUME NEW p \in Rows, LoadVoid(u, p)
      PROVE  payments[req'[u].target].sale # None /\ req'[u].target \in Rows
    <2>1. req'[u] = [Blank("void") EXCEPT !.target = p] /\ payments[p].sale # None
        BY <1>0, <1>2 DEF LoadVoid, Start
    <2>2. req'[u].target = p
        BY <2>1 DEF Blank
    <2> QED BY <2>1, <2>2
<1>3. ASSUME LockVoid(u)
      PROVE  payments[req'[u].target].sale # None /\ req'[u].target \in Rows
    <2>1. Serving(u, "void") /\ req[u] \in Request
        BY <1>0, <1>3 DEF LockVoid, Serving
    <2>2. req'[u].target = req[u].target
        BY <1>0, <1>3, <2>1 DEF LockVoid, Request
    <2> QED BY <1>0, <2>1, <2>2
<1>4. CASE req'[u] = req[u]
    BY <1>0, <1>4 DEF Serving
<1> QED BY <1>1, <1>2, <1>3, <1>4

LEMMA VoidStep ==
    ASSUME Deposits # "refunded", VoidInv, [Next]_pvars
    PROVE  VoidInv'
<1>0. PaymentInv /\ SalesOnly /\ CountsAll /\ TypeOK /\ PaymentInv'
    BY InvStep DEF VoidInv, PaymentInv
<1> DEFINE Rows1 == \A p \in Rows' : payments'[p].sale = None =>
                        payments'[p].reverses = None /\ p \notin ReversedRows'
           Linked1 == \A p \in Rows : payments[p].sale # None => payments'[p].sale # None
<1>1. ASSUME UNCHANGED payments PROVE CountsAll' /\ Rows1 /\ Linked1
    BY <1>0, <1>1, SameCounts DEF SalesOnly, Rows, IsReversal, ReversedRows
<1>2. ASSUME NEW new \in Seq(Row), payments' = payments \o new,
             \A n \in DOMAIN new : new[n].reverses = None
      PROVE  CountsAll' /\ Rows1 /\ Linked1
    <2>1. Rows1 /\ CountsAll'
        BY <1>0, <1>2, PaymentsCount, UnlinkedKept
    <2>2. Linked1
        BY <1>0, <1>2, AppendedBooks DEF Appended
    <2> QED BY <2>1, <2>2
<1>3. ASSUME NEW w \in Workers, CommitVoid(w) PROVE CountsAll' /\ Rows1 /\ Linked1
    <2> DEFINE list == InOrder(req[w].targets)
               new  == [n \in DOMAIN list |-> Reversal(list[n])]
    <2>1. /\ req[w].targets \subseteq Rows /\ req[w].targets = {list[n] : n \in DOMAIN list}
          /\ new \in Seq(Row) /\ DOMAIN new = DOMAIN list
          /\ \A n \in DOMAIN new : new[n].reverses = list[n] /\ new[n].sale = payments[list[n]].sale
        BY <1>0, <1>3, VoidRows
    <2>2. payments' = payments \o new /\ req[w] # Idle /\ req[w].op \in {"void", "batch"}
        BY <1>3 DEF CommitVoid, Serving
    <2> HIDE DEF new, list
    <2>3. \A p \in req[w].targets : payments[p].sale # None
        <3>1. RequestFits(req[w]) /\ TargetsFit(req[w])
            BY <1>0, <2>2, Served DEF RequestOK
        <3>2. CASE req[w].op = "void"
            BY <1>0, <2>2, <3>1, <3>2 DEF TargetsFit, SalesOnly, Serving
        <3>3. CASE req[w].op = "batch"
            <4>1. req[w].target # None
                BY <1>0, <3>1, <3>3 DEF RequestFits, Rows, None, TypeOK
            <4> QED BY <1>0, <3>1, <3>3, <4>1 DEF TargetsFit, Originals, PaymentInv, RowsFit
        <3> QED BY <2>2, <3>2, <3>3
    <2>4. \A n \in DOMAIN new : /\ new[n].reverses \in Rows /\ new[n].sale # None
                                /\ payments[new[n].reverses].sale # None
        BY <2>1, <2>3
    <2>5. Rows1
        BY <1>0, <2>1, <2>2, <2>4, UnlinkedKept
    <2>6. Linked1
        BY <1>0, <2>1, <2>2, AppendedBooks DEF Appended
    <2>7. CountsAll'
        BY <1>0, <1>3, VoidCounts
    <2> QED BY <2>5, <2>6, <2>7
<1>4. ASSUME NEW s \in Sales, NEW t \in Totals, CarryOver(s, t)
      PROVE  CountsAll' /\ Rows1 /\ Linked1
    <2>1. CountsAll'
        BY <1>0, <1>4, LinkedCount
    <2>2. s # None
        BY PaymentsAssumption DEF None
    <2>3. \A p \in Rows : payments[p].sale = None => ~IsReversal(p)
        BY <1>0 DEF SalesOnly
    <2> QED BY <1>0, <1>4, <2>1, <2>2, <2>3, Linked
<1> HIDE DEF Rows1, Linked1
<1>5. CountsAll' /\ Rows1 /\ Linked1
    <2>1. ASSUME NEW w \in Workers, LoadStep(w) \/ LockStep(w) \/ Refuse(w) PROVE UNCHANGED payments
        BY <2>1 DEF LoadStep, LoadSale, LoadVoid, LoadBatch, Allocate, Start,
                    LockStep, PayRow, LockVoid, LockBatch, Refuse
    <2>2. ASSUME NEW s \in Sales, NEW t \in Totals \cup {0},
                 (t \in Totals /\ ConfirmSale(s, t)) \/ ShrinkSale(s, t)
          PROVE  UNCHANGED payments
        BY <2>2 DEF ConfirmSale, ShrinkSale
    <2>3. ASSUME NEW w \in Workers, CommitStep(w) PROVE CountsAll' /\ Rows1 /\ Linked1
        BY <1>0, <1>1, <1>2, <1>3, <2>1, <2>3, RecordPaymentAdds, CommitOldestAdds
           DEF CommitStep, PaymentsAdded
    <2>4. ASSUME SaleStep PROVE CountsAll' /\ Rows1 /\ Linked1
        BY <1>1, <1>4, <2>2, <2>4 DEF SaleStep
    <2>5. ASSUME UNCHANGED pvars PROVE UNCHANGED payments
        BY <2>5 DEF pvars
    <2>6. ASSUME NEW a \in Amounts, TakeDeposit(a) PROVE CountsAll' /\ Rows1 /\ Linked1
        BY <1>0, <1>2, <2>6, TakeDepositAdds DEF PaymentsAdded
    <2> QED BY <1>1, <2>1, <2>3, <2>4, <2>5, <2>6 DEF Next
<1>6. SalesOnly'
    <2>1. \A p \in Rows' : (payments[p].sale = None => ~IsReversal(p) /\ p \notin ReversedRows)'
        BY <1>5 DEF Rows1, IsReversal
    <2>2. \A u \in Workers : (Serving(u, "void") => payments[req[u].target].sale # None)'
        BY <1>0, <1>5, ServedStep DEF Linked1
    <2> QED BY <2>1, <2>2 DEF SalesOnly
<1> QED BY <1>0, <1>5, <1>6 DEF VoidInv

\* sales/services.py, void_payment and void_payment_batch: unless a deposit is
\* voided before its order is handed over, what is voided counts nothing, for
\* reversals carry every sign and the sale of what they reverse.
THEOREM VoidsCountNothing ==
    ASSUME Deposits # "refunded"
    PROVE  Spec => []VoidedCountsNothing
<1>1. Init => VoidInv
    <2> SUFFICES ASSUME Init PROVE VoidInv
        OBVIOUS
    <2>1. Rows = {} /\ payments = <<>> /\ \A w \in Workers : req[w] = Idle
        BY DEF Init, Rows
    <2>2. SalesOnly
        BY <2>1 DEF SalesOnly, Serving
    <2>3. \A s \in Sales : OfSale(payments, s) = {} /\ Counted(s) = {}
        BY <2>1 DEF OfSale, Counted, Rows
    <2>4. CountsAll
        BY <2>3 DEF CountsAll, NetSum
    <2> QED BY <2>2, <2>4, InvInit DEF VoidInv
<1>2. VoidInv /\ [Next]_pvars => VoidInv'
    BY VoidStep
<1>3. VoidInv => VoidedCountsNothing
    BY CountedIsSum DEF VoidInv
<1> QED BY <1>1, <1>2, <1>3, PTL DEF Spec
=============================================================================
