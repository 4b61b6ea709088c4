------------------------------- MODULE CacheProofs -------------------------------
(***************************************************************************)
(* Proofs about what is served from the cache: the rate of a currency      *)
(* (ExchangeRates) and the pages of stock (StockPages), for every set of   *)
(* workers, rates, variants and rows.                                      *)
(***************************************************************************)
EXTENDS MCExchangeRates, SumsProofs

-----------------------------------------------------------------------------
(* Rates *)

\* Which steps a request goes through.
StepsFit ==
    \A w \in Workers : req[w] # Idle =>
       /\ Writing(w) <=> req[w].step \in {"old", "write", "commit", "log"}
       /\ At(w, "log") => req[w].op \in {"refresh", "dialog"}
       /\ Writing(w) => (req[w].op = "delete" <=> req[w].rate = None)

\* Everything that is read, cached or frozen has been on record; a rate that
\* is about to be written has not.
OnRecord ==
    /\ row   \in past \cup {None}
    /\ cache \in past \cup {None, Miss}
    /\ filed \in past \cup {Fallback, None}
    /\ \A w \in Workers : req[w] # Idle =>
          /\ req[w].old \in past \cup {None}
          /\ ~Writing(w) => req[w].rate \in past \cup {None}

RateInv == TypeOK /\ StepsFit /\ OnRecord

LEMMA RatesAreNumbers ==
    /\ Rates \subseteq Nat /\ None \notin Rates /\ Fallback \notin Rates
    /\ Miss \notin Rates /\ None \in Nat
    BY RatesAssumption DEF Rates, None, Fallback, Miss

\* A request that begins.
LEMMA BeginsWell ==
    ASSUME RateInv, NEW w \in Workers, NEW op \in AllOps, NEW rate \in Rates \cup {None},
           NEW step \in {"old", "write", "check", "get"}, Start(w, op, rate, step),
           op \in Writes <=> step \in {"old", "write"},
           op \notin Writes => rate = None,
           op \in Writes => (op = "delete" <=> rate = None)
    PROVE  RateInv'
    <1>1. TypeOK'
        BY DEF Start, RateInv, TypeOK, Request, None
    <1>2. StepsFit'
        BY DEF Start, RateInv, TypeOK, StepsFit, Writing, At, Idle
    <1>3. OnRecord'
        BY DEF Start, RateInv, TypeOK, OnRecord, Writing, Idle
    <1> QED BY <1>1, <1>2, <1>3 DEF RateInv

LEMMA BeginKeeps ==
    ASSUME RateInv, NEW w \in Workers, Begin(w)
    PROVE  RateInv'
    <1>1. ASSUME NEW rate \in Fetched, Refresh(w, rate)
          PROVE  RateInv'
        BY <1>1, BeginsWell, RatesAreNumbers DEF Refresh, AllOps, Writes, Rates
    <1>2. ASSUME NEW rate \in Typed, Dialog(w, rate) \/ Panel(w, rate)
          PROVE  RateInv'
        BY <1>2, BeginsWell, RatesAreNumbers DEF Dialog, Panel, AllOps, Writes, Rates
    <1>3. CASE Delete(w)
        BY <1>3, BeginsWell DEF Delete, AllOps, Writes
    <1>4. CASE Convert(w)
        BY <1>4, BeginsWell DEF Convert, AllOps, Writes
    <1>5. CASE Pay(w)
        BY <1>5, BeginsWell DEF Pay, AllOps, Writes
    <1> QED BY <1>1, <1>2, <1>3, <1>4, <1>5 DEF Begin

LEMMA WriterKeeps ==
    ASSUME RateInv, NEW w \in Workers,
           ReadOld(w) \/ Write(w) \/ Commit(w) \/ RollBack(w) \/ Log(w)
    PROVE  RateInv'
    <1> USE DEF At, GoTo, Finish, Writing, Idle
    <1>1. CASE ReadOld(w)
        <2>1. TypeOK'
            BY <1>1 DEF RateInv, TypeOK, ReadOld, Request
        <2>2. StepsFit' /\ OnRecord'
            BY <1>1 DEF RateInv, TypeOK, ReadOld, Request, StepsFit, OnRecord
        <2> QED BY <2>1, <2>2 DEF RateInv
    <1>2. CASE Write(w)
        <2>1. TypeOK'
            BY <1>2 DEF RateInv, TypeOK, Write, ClearCache, Request
        <2>2. StepsFit' /\ OnRecord'
            BY <1>2 DEF RateInv, TypeOK, Write, ClearCache, Request, StepsFit, OnRecord
        <2> QED BY <2>1, <2>2 DEF RateInv
    <1>3. CASE Commit(w)
        <2>1. TypeOK'
            BY <1>3 DEF RateInv, TypeOK, StepsFit, Commit, Request, Writes
        <2>2. StepsFit'
            BY <1>3 DEF RateInv, TypeOK, Commit, Request, StepsFit
        <2>3. OnRecord'
            BY <1>3 DEF RateInv, TypeOK, Commit, Request, StepsFit, OnRecord
        <2> QED BY <2>1, <2>2, <2>3 DEF RateInv
    <1>4. CASE RollBack(w)
        BY <1>4 DEF RateInv, TypeOK, RollBack, Request, StepsFit, OnRecord
    <1>5. CASE Log(w)
        <2>1. req[w].rate \in Rates
            BY <1>5 DEF RateInv, TypeOK, Log, Request, StepsFit
        <2> QED BY <1>5, <2>1 DEF RateInv, TypeOK, Log, Request, StepsFit, OnRecord
    <1> QED BY <1>1, <1>2, <1>3, <1>4, <1>5

LEMMA ReaderKeeps ==
    ASSUME RateInv, NEW w \in Workers,
           Check(w) \/ Get(w) \/ Load(w) \/ Fill(w) \/ File(w)
    PROVE  RateInv'
    <1> USE DEF At, GoTo, Finish, Writing, Idle, Got
    <1>0. Miss \notin Rates \cup {None}
        BY RatesAreNumbers DEF Miss, None
    <1>1. CASE Check(w)
        BY <1>1 DEF RateInv, TypeOK, Check, Request, StepsFit, OnRecord
    <1>2. CASE Get(w)
        <2>1. TypeOK'
            BY <1>0, <1>2 DEF RateInv, TypeOK, Get, Request
        <2>2. StepsFit' /\ OnRecord'
            BY <1>0, <1>2 DEF RateInv, TypeOK, Get, Request, StepsFit, OnRecord
        <2> QED BY <2>1, <2>2 DEF RateInv
    <1>3. CASE Load(w)
        BY <1>3 DEF RateInv, TypeOK, Load, Request, StepsFit, OnRecord
    <1>4. CASE Fill(w)
        <2>1. TypeOK'
            BY <1>4 DEF RateInv, TypeOK, Fill, Request
        <2>2. StepsFit' /\ OnRecord'
            BY <1>4 DEF RateInv, TypeOK, Fill, Request, StepsFit, OnRecord
        <2> QED BY <2>1, <2>2 DEF RateInv
    <1>5. CASE File(w)
        BY <1>5 DEF RateInv, TypeOK, File, Request, StepsFit, OnRecord
    <1> QED BY <1>1, <1>2, <1>3, <1>4, <1>5

LEMMA StepKeepsRateInv ==
    ASSUME RateInv, [Next]_vars
    PROVE  RateInv'
    <1>1. CASE UNCHANGED vars
        BY <1>1 DEF vars, RateInv, TypeOK, StepsFit, OnRecord, Writing, At
    <1>2. CASE Expire
        BY <1>2 DEF Expire, RateInv, TypeOK, StepsFit, OnRecord, Writing, At
    <1>3. CASE \E w \in Workers : Begin(w) \/ Step(w)
        BY <1>3, BeginKeeps, WriterKeeps, ReaderKeeps DEF Step
    <1> QED BY <1>1, <1>2, <1>3 DEF Next

LEMMA RatesStartWell == Init => RateInv
    BY DEF Init, RateInv, TypeOK, StepsFit, OnRecord, None, Miss, Writing, At

-----------------------------------------------------------------------------
\* Rows, cache, payments and requests hold what they should in every state.
THEOREM TypeCorrect == Spec => []TypeOK
    <1>1. RateInv => TypeOK
        BY DEF RateInv
    <1> QED BY <1>1, RatesStartWell, StepKeepsRateInv, PTL DEF Spec

\* No payment freezes a rate that was never on record, with any number of
\* readers and writers, failing transactions and a failing cache.
THEOREM FrozenRates == Spec => []FrozenWasOnRecord
    <1>1. RateInv => FrozenWasOnRecord
        BY DEF RateInv, OnRecord, FrozenWasOnRecord
    <1> QED BY <1>1, RatesStartWell, StepKeepsRateInv, PTL DEF Spec

-----------------------------------------------------------------------------
\* What a step does to the audit trail: a commit brings a new rate only with
\* its row, or with a writer that will leave it; a log removes no duty but its
\* own, which it does.
LEMMA StepKeepsLogged ==
    ASSUME RateInv, EveryRateLogged, [Next]_vars
    PROVE  EveryRateLogged'
    <1> USE DEF At, GoTo, Finish, Idle
    <1> SUFFICES ASSUME NEW rate \in past'
                 PROVE  \/ rate \in logged'
                        \/ \E w \in Workers : At(w, "log")' /\ Moved(w)' /\ req'[w].rate = rate
        BY DEF EveryRateLogged
    <1>1. CASE rate \in past /\ rate \in logged
        <2>1. logged \subseteq logged'
            BY DEF Next, Begin, Step, Refresh, Dialog, Panel, Delete, Convert, Pay, Start,
                   ReadOld, Write, Commit, RollBack, Log, Check, Get, Load, Fill, File,
                   Expire, vars
        <2> QED BY <1>1, <2>1
    <1>2. CASE rate \in past /\ rate \notin logged
        <2>1. PICK u \in Workers : At(u, "log") /\ Moved(u) /\ req[u].rate = rate
            BY <1>2 DEF EveryRateLogged
        <2>2. req'[u] = req[u] \/ Log(u)
            <3>1. ASSUME NEW w \in Workers, Begin(w) \/ Step(w)
                  PROVE  req'[u] = req[u] \/ Log(u)
                <4>1. CASE w # u
                    <5>1. req'[u] = req[u]
                        BY <3>1, <4>1 DEF Begin, Step, Refresh, Dialog, Panel, Delete, Convert,
                           Pay, Start, ReadOld, Write, Commit, RollBack, Log, Check, Get, Load,
                           Fill, File, Got, RateInv, TypeOK
                    <5> QED BY <5>1
                <4>2. CASE w = u
                    BY <2>1, <3>1, <4>2 DEF Begin, Step, Refresh, Dialog, Panel, Delete,
                       Convert, Pay, Start, ReadOld, Write, Commit, RollBack, Check, Get, Load,
                       Fill, File
                <4> QED BY <4>1, <4>2
            <3> QED BY <3>1 DEF Next, Expire, vars
        <2>3. CASE req'[u] = req[u]
            BY <2>1, <2>3 DEF Moved
        <2>4. CASE Log(u)
            BY <2>1, <2>4 DEF Log
        <2> QED BY <2>2, <2>3, <2>4
    <1>3. CASE rate \notin past
        <2>1. PICK w \in Workers : Commit(w) /\ rate = req[w].rate /\ rate # None
            BY <1>3 DEF Next, Begin, Step, Refresh, Dialog, Panel, Delete, Convert, Pay, Start,
                   ReadOld, Write, Commit, RollBack, Log, Check, Get, Load, Fill, File,
                   Expire, vars
        <2>2. CASE req[w].op \in {"refresh", "dialog"}
            <3>1. req[w].old # rate
                BY <1>3, <2>1 DEF RateInv, OnRecord, Commit
            <3>2. At(w, "log")' /\ Moved(w)' /\ req'[w].rate = rate
                BY <2>1, <2>2, <3>1 DEF Commit, Moved, RateInv, TypeOK, Request
            <3> QED BY <3>2
        <2>3. CASE req[w].op = "panel"
            BY <2>1, <2>3 DEF Commit
        <2>4. req[w].op # "delete"
            BY <1>3, <2>1 DEF RateInv, TypeOK, StepsFit, Commit, Request
        <2>5. req[w].op \in Writes
            BY <2>1 DEF RateInv, StepsFit, Commit, Writing
        <2> QED BY <2>2, <2>3, <2>4, <2>5 DEF Writes
    <1> QED BY <1>1, <1>2, <1>3

\* Every rate that was on record is in the audit trail or about to be.
THEOREM AuditComplete == Spec => []EveryRateLogged
    <1>1. Init => EveryRateLogged
        BY DEF Init, EveryRateLogged
    <1> QED BY <1>1, RatesStartWell, StepKeepsRateInv, StepKeepsLogged, PTL DEF Spec

-----------------------------------------------------------------------------
(* Pages of stock: the figures *)

LEMMA PagesConstants ==
    /\ IsFiniteSet(Variants) /\ IsFiniteSet(Writers)
    /\ Ttl \in Nat /\ Ttl > 0 /\ MaxRows \in Nat /\ MaxEvictions \in Nat
    /\ \A e \in Postings : e.variant \in Variants /\ e.kind \in Kinds /\ e.quantity \in Int
BY PagesAssumption

\* What a page of all rows adds up.
Now      == Len(ledger)
Quantity == [i \in 1..Now |-> ledger[i].quantity]

LEMMA RowsMoved ==
    ASSUME ledger \in Seq(Postings), NEW v, NEW kinds
    PROVE  /\ IsFiniteSet(Rows(v, kinds, Now))
           /\ \A i \in Rows(v, kinds, Now) : Quantity[i] \in Int
           /\ MovedBy(v, kinds, Now) = SumOf(Quantity, Rows(v, kinds, Now))
           /\ MovedBy(v, kinds, Now) \in Int
<1>1. Now \in Nat /\ Rows(v, kinds, Now) \subseteq 1..Now
    BY DEF Now, Rows
<1>2. IsFiniteSet(Rows(v, kinds, Now))
    <2>1. IsFiniteSet(1..Now)
        BY <1>1, FS_Interval
    <2> QED BY <1>1, <2>1, FS_Subset
<1>3. \A i \in 1..Now : ledger[i] \in Postings /\ Quantity[i] = ledger[i].quantity
    BY DEF Now, Quantity
<1>4. \A i \in 1..Now : Quantity[i] \in Int
    BY <1>3, PagesConstants
<1>5. MovedBy(v, kinds, Now) = SumOf(Quantity, Rows(v, kinds, Now))
    <2> DEFINE R == Rows(v, kinds, Now)
               f == [i \in R |-> ledger[i].quantity]
    <2>1. MapThenSumSet(LAMBDA i : ledger[i].quantity, R) = SumOf(f, R)
        <3> HIDE DEF R
        <3> QED BY DEF SumOf, MapThenSumSet, MapThenFoldSet
    <2>2. SumOf(f, R) = SumOf(Quantity, R)
        <3>1. \A i \in R : f[i] = Quantity[i]
            BY <1>1, <1>3
        <3> HIDE DEF R, f
        <3> QED BY <1>2, <3>1, SumSame DEF R
    <2> QED BY <2>1, <2>2 DEF MovedBy
<1>6. SumOf(Quantity, Rows(v, kinds, Now)) \in Int
    BY <1>1, <1>2, <1>4, SumInt
<1> QED BY <1>1, <1>2, <1>4, <1>5, <1>6

LEMMA MovedTogether ==
    ASSUME ledger \in Seq(Postings), NEW v, NEW A, NEW B, A \cap B = {}
    PROVE  MovedBy(v, A \cup B, Now) = MovedBy(v, A, Now) + MovedBy(v, B, Now)
<1>1. /\ Rows(v, A \cup B, Now) = Rows(v, A, Now) \cup Rows(v, B, Now)
      /\ Rows(v, A, Now) \cap Rows(v, B, Now) = {}
    BY DEF Rows
<1>2. SumOf(Quantity, Rows(v, A, Now) \cup Rows(v, B, Now)) =
          SumOf(Quantity, Rows(v, A, Now)) + SumOf(Quantity, Rows(v, B, Now))
    BY <1>1, RowsMoved, SumUnion
<1> QED BY <1>1, <1>2, RowsMoved

LEMMA OnHandIsWhole ==
    ASSUME ledger \in Seq(Postings), NEW v
    PROVE  LET it == Item(v, Now)
           IN  /\ it.stock = it.intake + it.returns - it.sold - it.writeoff + it.adjust
               /\ it.stock = OnHand(v, Now) /\ OnHand(v, Now) \in Int
               /\ Reserved(v, Now) \in Int
<1> DEFINE M(kinds) == MovedBy(v, kinds, Now)
           in  == {"production_in", "purchase_in"}
           r   == {"return_in"}
           s   == {"sale_out"}
           wo  == {"writeoff_out"}
           a   == {"adjustment"}
<1>1. Kinds \ {"order"} = (((in \cup r) \cup s) \cup wo) \cup a
    BY DEF Kinds
<1>2. M((((in \cup r) \cup s) \cup wo) \cup a) = M(((in \cup r) \cup s) \cup wo) + M(a)
    BY MovedTogether
<1>3. M(((in \cup r) \cup s) \cup wo) = M((in \cup r) \cup s) + M(wo)
    BY MovedTogether
<1>4. M((in \cup r) \cup s) = M(in \cup r) + M(s)
    BY MovedTogether
<1>5. M(in \cup r) = M(in) + M(r)
    BY MovedTogether
<1>6. M(in) \in Int /\ M(r) \in Int /\ M(s) \in Int /\ M(wo) \in Int /\ M(a) \in Int
    BY RowsMoved
<1>7. OnHand(v, Now) \in Int /\ Reserved(v, Now) \in Int
    BY RowsMoved DEF OnHand, Reserved
<1>8. OnHand(v, Now) = M(in) + M(r) + M(s) + M(wo) + M(a)
    <2> HIDE DEF in, r, s, wo, a, M
    <2>1. OnHand(v, Now) = M(Kinds \ {"order"})
        BY DEF OnHand, M
    <2> QED BY <1>1, <1>2, <1>3, <1>4, <1>5, <1>6, <2>1
<1> DEFINE it == Item(v, Now)
<1>9. /\ it.intake = M(in) /\ it.returns = M(r) /\ it.sold = -M(s) /\ it.writeoff = -M(wo)
      /\ it.adjust = M(a) /\ it.stock = OnHand(v, Now)
    BY DEF Item, TakenIn
<1> HIDE DEF in, r, s, wo, a, M, it
<1>10. it.stock = it.intake + it.returns - it.sold - it.writeoff + it.adjust
    BY <1>6, <1>7, <1>8, <1>9
<1> QED BY <1>7, <1>9, <1>10 DEF it

Stock == [v \in Variants |-> OnHand(v, Now)]

LEMMA UnitsAreSums ==
    ASSUME ledger \in Seq(Postings), NEW S \in SUBSET Variants
    PROVE  Units(S, Now) = SumOf(Stock, S)
<1> DEFINE f == [v \in S |-> Item(v, Now).stock]
<1>1. Units(S, Now) = SumOf(f, S)
    BY DEF Units, SumOf, MapThenSumSet, MapThenFoldSet
<1>2. \A v \in S : f[v] = Stock[v]
    BY OnHandIsWhole DEF Stock
<1>3. IsFiniteSet(S)
    BY PagesConstants, FS_Subset
<1> HIDE DEF f
<1>4. SumOf(f, S) = SumOf(Stock, S)
    BY <1>2, <1>3, SumSame
<1> QED BY <1>1, <1>4

LEMMA TotalsAgree ==
    ASSUME ledger \in Seq(Postings)
    PROVE  LET data == StorageData(Now)
           IN  StorageTotals(Now) = [items |-> data.units, categories |-> data.units]
<1> DEFINE data == StorageData(Now)
           f == [v \in Variants |-> data.items[v].stock]
           g == [c \in Categories |-> data.categories[c]]
           Of(c) == {v \in Variants : Category[v] = c}
           h == [c \in {Category[v] : v \in Variants} |-> SumOf(Stock, Of(c))]
<1>1. data.units = SumOf(Stock, Variants)
    BY UnitsAreSums DEF StorageData
<1>2. \A v \in Variants : Stock[v] \in Int
    BY OnHandIsWhole DEF Stock
<1>3. StorageTotals(Now).items = SumOf(f, Variants)
    <2>1. MapThenSumSet(LAMBDA v : data.items[v].stock, Variants) = SumOf(f, Variants)
        <3> HIDE DEF data
        <3> QED BY DEF SumOf, MapThenSumSet, MapThenFoldSet
    <2> QED BY <2>1 DEF StorageTotals
<1>4. SumOf(f, Variants) = SumOf(Stock, Variants)
    <2>1. \A v \in Variants : f[v] = Stock[v]
        BY OnHandIsWhole DEF StorageData, Stock
    <2> HIDE DEF f
    <2> QED BY <2>1, PagesConstants, SumSame
<1>5. StorageTotals(Now).categories = SumOf(g, Categories)
    <2>1. MapThenSumSet(LAMBDA c : data.categories[c], Categories) = SumOf(g, Categories)
        <3> HIDE DEF data
        <3> QED BY DEF SumOf, MapThenSumSet, MapThenFoldSet
    <2> QED BY <2>1 DEF StorageTotals
<1>6. g = h
    <2>1. ASSUME NEW c \in Categories PROVE data.categories[c] = SumOf(Stock, Of(c))
        <3>1. data.categories[c] = Units(InCategory(c), Now)
            BY <2>1 DEF StorageData
        <3>2. InCategory(c) = Of(c) /\ InCategory(c) \in SUBSET Variants
            BY DEF InCategory
        <3> HIDE DEF Of
        <3> QED BY <3>1, <3>2, UnitsAreSums
    <2>2. Categories = {Category[v] : v \in Variants}
        BY DEF Categories
    <2> HIDE DEF data, Of
    <2> QED BY <2>1, <2>2
<1>7. SumOf(h, {Category[v] : v \in Variants}) = SumOf(Stock, Variants)
    <2>1. PICK p, k, D : p = Stock /\ k = Category /\ D = Variants
        OBVIOUS
    <2>2. IsFiniteSet(D) /\ \A x \in D : p[x] \in Int
        BY <1>2, <2>1, PagesConstants
    <2>3. SumOf([c \in {k[x] : x \in D} |-> SumOf(p, {x \in D : k[x] = c})], {k[x] : x \in D})
              = SumOf(p, D)
        BY <2>2, SumGroups
    <2> HIDE DEF Stock
    <2> QED BY <2>1, <2>3
<1>8. SumOf(g, Categories) = SumOf(Stock, Variants)
    BY <1>6, <1>7 DEF Categories
<1>9. StorageTotals(Now) = [items |-> StorageTotals(Now).items,
                            categories |-> StorageTotals(Now).categories]
    BY DEF StorageTotals
<1> HIDE DEF data, f, g
<1> QED BY <1>1, <1>3, <1>4, <1>5, <1>8, <1>9 DEF data

LEMMA StockExplained ==
    ledger \in Seq(Postings) => StockIsExplained
<1> SUFFICES ASSUME ledger \in Seq(Postings) PROVE StockIsExplained
    OBVIOUS
<1>1. ASSUME NEW v \in Variants PROVE StorageData(Now).items[v] = Item(v, Now)
    BY DEF StorageData
<1>2. \A v \in Variants :
         LET it == StorageData(Now).items[v]
         IN  it.stock = it.intake + it.returns - it.sold - it.writeoff + it.adjust
    BY <1>1, OnHandIsWhole
<1> QED BY <1>2, TotalsAgree DEF StockIsExplained, Now

\* Not less than nothing.
LEMMA NotBelowZero ==
    ASSUME NEW n \in Int
    PROVE  Max({0, n}) = IF n > 0 THEN n ELSE 0
<1> DEFINE m == IF n > 0 THEN n ELSE 0
<1>1. m \in {0, n} /\ \A y \in {0, n} : m >= y
    OBVIOUS
<1>2. \A x \in {0, n} : (\A y \in {0, n} : x >= y) => x = m
    OBVIOUS
<1> HIDE DEF m
<1>3. Max({0, n}) = m
    BY <1>1, <1>2 DEF Max
<1> QED BY <1>3 DEF m

LEMMA TilesPromise ==
    ledger \in Seq(Postings) => TilePromisesNoMore
<1> SUFFICES ASSUME ledger \in Seq(Postings), NEW c \in Categories
             PROVE  Tile(c, Now) <= MapThenSumSet(LAMBDA v : Picker(v, Now), InCategory(c))
    BY DEF TilePromisesNoMore, Now
<1> DEFINE S == InCategory(c)
           f == [v \in S |-> OnHand(v, Now) - Reserved(v, Now)]
           g == [v \in S |-> Picker(v, Now)]
<1>1. IsFiniteSet(S) /\ S \subseteq Variants
    BY PagesConstants, FS_Subset DEF InCategory
<1>2. MapThenSumSet(LAMBDA v : OnHand(v, Now) - Reserved(v, Now), S) = SumOf(f, S)
    <2> HIDE DEF S
    <2> QED BY DEF SumOf, MapThenSumSet, MapThenFoldSet
<1>3. MapThenSumSet(LAMBDA v : Picker(v, Now), S) = SumOf(g, S)
    <2> HIDE DEF S
    <2> QED BY DEF SumOf, MapThenSumSet, MapThenFoldSet
<1>4. ASSUME NEW v \in S PROVE f[v] \in Int /\ g[v] \in Nat /\ f[v] <= g[v]
    <2>1. OnHand(v, Now) \in Int /\ Reserved(v, Now) \in Int
        BY OnHandIsWhole
    <2>2. f[v] = OnHand(v, Now) - Reserved(v, Now) /\ g[v] = Max({0, f[v]})
        BY DEF Picker
    <2> HIDE DEF f, g
    <2>3. f[v] \in Int
        BY <2>1, <2>2
    <2>4. g[v] = IF f[v] > 0 THEN f[v] ELSE 0
        BY <2>2, <2>3, NotBelowZero
    <2> QED BY <2>3, <2>4
<1> HIDE DEF S, f, g
<1>5. SumOf(f, S) \in Int /\ SumOf(g, S) \in Nat /\ SumOf(f, S) <= SumOf(g, S)
    <2>1. SumOf(f, S) \in Int
        BY <1>1, <1>4, SumInt
    <2>2. SumOf(g, S) \in Nat
        BY <1>1, <1>4, SumNat
    <2>3. SumOf(f, S) <= SumOf(g, S)
        BY <1>1, <1>4, SumAtMost
    <2> QED BY <2>1, <2>2, <2>3
<1>6. Tile(c, Now) = IF SumOf(f, S) > 0 THEN SumOf(f, S) ELSE 0
    <2>1. Tile(c, Now) = Max({0, SumOf(f, S)})
        BY <1>2 DEF Tile, S
    <2> QED BY <1>5, <2>1, NotBelowZero
<1> QED BY <1>3, <1>5, <1>6 DEF S

-----------------------------------------------------------------------------
(* Pages of stock: what a cached page may lack *)

Busy    == {w \in Writers : writing[w] # NoWork}
Raisers == {w \in Writers : writing[w].step \in {"bump", "incr"}}

PageTypes ==
    /\ ledger \in Seq(Postings)
    /\ writing \in [Writers -> {NoWork} \cup [step : {"bump", "incr", "commit"}, entry : Postings]]
    /\ version \in 0..MaxRows + 1
    /\ page \in [Versions -> {NoPage} \cup [rows : Nat, left : 1..Ttl, overlapped : BOOLEAN]]
    /\ \A v \in Versions : page[v].rows <= Len(ledger)
    /\ reading \in [Readers -> {NoWork} \cup [step : {"look"}, version : Versions]
                       \cup [step : {"store"}, version : Versions, rows : Nat,
                             overlapped : BOOLEAN]]
    /\ \A r \in Readers : reading[r].step = "store" => reading[r].rows <= Len(ledger)
    /\ evictions \in Nat

\* There is room for the rows that are being written, and a version for each.
RoomForRows ==
    /\ Len(ledger) + Cardinality(Busy) <= MaxRows
    /\ version + Cardinality(Raisers) <= MaxRows + 1

\* Nothing but order lines came after the first k rows, and nothing else is about
\* to come for which the version is raised already.
Current(k) == ~Overlap /\ \A i \in (k + 1)..Len(ledger) : ledger[i].kind = "order"

\* While the cache has lost no version: no page or reader is ahead of the version,
\* and what is found or will be stored under it is current, or was overlapped.
Fresh ==
    evictions = 0 =>
        /\ \A v \in Versions : v > version => page[v] = NoPage
        /\ \A r \in Readers : reading[r] # NoWork => reading[r].version <= version
        /\ \A r \in Readers :
              reading[r].step = "store" /\ reading[r].version = version /\ ~reading[r].overlapped
                  => Current(reading[r].rows)
        /\ \A v \in Versions :
              v = version /\ page[v] # NoPage /\ ~page[v].overlapped => Current(page[v].rows)

PageInv == PageTypes /\ RoomForRows /\ Fresh

LEMMA BusyCounted ==
    /\ IsFiniteSet(Busy) /\ IsFiniteSet(Raisers)
    /\ Cardinality(Busy) \in Nat /\ Cardinality(Raisers) \in Nat
    /\ Cardinality(Raisers) <= Cardinality(Busy)
    /\ Cardinality({}) = 0
<1>1. IsFiniteSet(Busy)
    BY PagesConstants, FS_Subset DEF Busy
<1>2. Raisers \subseteq Busy
    BY DEF Raisers, Busy, NoWork
<1> QED BY <1>1, <1>2, FS_Subset, FS_CardinalityType, FS_EmptySet

\* A writer goes on: how the counts and the overlap change.
LEMMA WriterTurns ==
    ASSUME PageTypes, NEW w \in Writers, NEW r, writing' = [writing EXCEPT ![w] = r]
    PROVE  /\ writing'[w] = r /\ \A u \in Writers : u # w => writing'[u] = writing[u]
           /\ Busy' = IF r # NoWork THEN Busy \cup {w} ELSE Busy \ {w}
           /\ Raisers' = IF r.step \in {"bump", "incr"} THEN Raisers \cup {w} ELSE Raisers \ {w}
           /\ ~(r.step = "commit" /\ r.entry.kind # "order") => (Overlap' => Overlap)
<1>1. writing'[w] = r /\ \A u \in Writers : u # w => writing'[u] = writing[u]
    BY DEF PageTypes
<1> QED BY <1>1 DEF Busy, Raisers, Overlap

LEMMA WriterCounts ==
    ASSUME PageTypes, NEW w \in Writers, NEW r, writing' = [writing EXCEPT ![w] = r]
    PROVE  /\ Cardinality(Busy') \in Nat /\ Cardinality(Raisers') \in Nat
           /\ r # NoWork => Cardinality(Busy') <= Cardinality(Busy) + 1
           /\ r # NoWork /\ w \in Busy => Cardinality(Busy') = Cardinality(Busy)
           /\ r = NoWork /\ w \in Busy => Cardinality(Busy') = Cardinality(Busy) - 1
           /\ r.step \in {"bump", "incr"} => Cardinality(Raisers') <= Cardinality(Raisers) + 1
           /\ r.step \in {"bump", "incr"} /\ w \in Raisers =>
                 Cardinality(Raisers') = Cardinality(Raisers)
           /\ r.step \notin {"bump", "incr"} =>
                 Cardinality(Raisers') =
                     Cardinality(Raisers) - (IF w \in Raisers THEN 1 ELSE 0)
<1>1. /\ Cardinality(Busy \cup {w}) \in Nat
      /\ Cardinality(Busy \cup {w}) <= Cardinality(Busy) + 1
      /\ Cardinality(Busy \ {w}) = Cardinality(Busy) - (IF w \in Busy THEN 1 ELSE 0)
      /\ Cardinality(Busy \ {w}) \in Nat
    <2>1. IsFiniteSet(Busy) /\ IsFiniteSet(Busy \ {w})
        BY BusyCounted, FS_Subset
    <2> QED BY <2>1, Joined, FS_CardinalityType
<1>2. /\ Cardinality(Raisers \cup {w}) \in Nat
      /\ Cardinality(Raisers \cup {w}) <= Cardinality(Raisers) + 1
      /\ Cardinality(Raisers \ {w}) = Cardinality(Raisers) - (IF w \in Raisers THEN 1 ELSE 0)
      /\ Cardinality(Raisers \ {w}) \in Nat
    <2>1. IsFiniteSet(Raisers) /\ IsFiniteSet(Raisers \ {w})
        BY BusyCounted, FS_Subset
    <2> QED BY <2>1, Joined, FS_CardinalityType
<1>3. /\ w \in Busy => Busy \cup {w} = Busy
      /\ w \in Raisers => Raisers \cup {w} = Raisers
    OBVIOUS
<1>4. /\ Cardinality(Busy') \in Nat
      /\ r # NoWork => Cardinality(Busy') <= Cardinality(Busy) + 1
      /\ r # NoWork /\ w \in Busy => Cardinality(Busy') = Cardinality(Busy)
      /\ r = NoWork /\ w \in Busy => Cardinality(Busy') = Cardinality(Busy) - 1
    <2>1. CASE r # NoWork
        <3>1. Busy' = Busy \cup {w}
            BY <2>1, WriterTurns
        <3> QED BY <1>1, <1>3, <2>1, <3>1
    <2>2. CASE r = NoWork
        <3>1. Busy' = Busy \ {w}
            BY <2>2, WriterTurns
        <3> QED BY <1>1, <2>2, <3>1
    <2> QED BY <2>1, <2>2
<1>5. /\ Cardinality(Raisers') \in Nat
      /\ r.step \in {"bump", "incr"} => Cardinality(Raisers') <= Cardinality(Raisers) + 1
      /\ r.step \in {"bump", "incr"} /\ w \in Raisers =>
            Cardinality(Raisers') = Cardinality(Raisers)
      /\ r.step \notin {"bump", "incr"} =>
            Cardinality(Raisers') = Cardinality(Raisers) - (IF w \in Raisers THEN 1 ELSE 0)
    <2>1. CASE r.step \in {"bump", "incr"}
        <3>1. Raisers' = Raisers \cup {w}
            BY <2>1, WriterTurns
        <3> QED BY <1>2, <1>3, <2>1, <3>1
    <2>2. CASE r.step \notin {"bump", "incr"}
        <3>1. Raisers' = Raisers \ {w}
            BY <2>2, WriterTurns
        <3> QED BY <1>2, <2>2, <3>1
    <2> QED BY <2>1, <2>2
<1> QED BY <1>4, <1>5

LEMMA PageFacts ==
    ASSUME PageTypes
    PROVE  /\ \A v \in Versions :
                 page[v] # NoPage =>
                    page[v].rows \in 0..Len(ledger) /\ page[v].left \in 1..Ttl
                    /\ page[v].overlapped \in BOOLEAN
           /\ \A r \in Readers :
                 /\ reading[r].step = "look" => reading[r].version \in Versions
                 /\ reading[r].step = "store" =>
                       /\ reading[r].version \in Versions /\ reading[r].rows \in 0..Len(ledger)
                       /\ reading[r].overlapped \in BOOLEAN
                 /\ reading[r] # NoWork =>
                       reading[r].version \in Versions /\ reading[r].step \in {"look", "store"}
           /\ \A w \in Writers :
                 writing[w] # NoWork =>
                    writing[w].step \in {"bump", "incr", "commit"} /\ writing[w].entry \in Postings
           /\ Len(ledger) \in Nat /\ version \in Nat /\ NoWork.step = "idle"
           /\ Versions = 1..(MaxRows + 1)
<1>1. Len(ledger) \in Nat /\ version \in Nat
    BY PagesConstants DEF PageTypes
<1>2. ASSUME NEW v \in Versions, page[v] # NoPage
      PROVE  page[v].rows \in 0..Len(ledger) /\ page[v].left \in 1..Ttl
             /\ page[v].overlapped \in BOOLEAN
    <2>1. page[v] \in [rows : Nat, left : 1..Ttl, overlapped : BOOLEAN]
        BY <1>2 DEF PageTypes
    <2>2. page[v].rows <= Len(ledger)
        BY DEF PageTypes
    <2> QED BY <1>1, <2>1, <2>2
<1>3. ASSUME NEW r \in Readers
      PROVE  /\ reading[r].step = "look" => reading[r].version \in Versions
             /\ reading[r].step = "store" =>
                   /\ reading[r].version \in Versions /\ reading[r].rows \in 0..Len(ledger)
                   /\ reading[r].overlapped \in BOOLEAN
             /\ reading[r] # NoWork =>
                   reading[r].version \in Versions /\ reading[r].step \in {"look", "store"}
    <2>1. reading[r] \in {NoWork} \cup [step : {"look"}, version : Versions]
              \cup [step : {"store"}, version : Versions, rows : Nat, overlapped : BOOLEAN]
        BY DEF PageTypes
    <2>2. reading[r].step = "store" => reading[r].rows <= Len(ledger)
        BY DEF PageTypes
    <2> QED BY <1>1, <2>1, <2>2 DEF NoWork
<1>4. ASSUME NEW w \in Writers, writing[w] # NoWork
      PROVE  writing[w].step \in {"bump", "incr", "commit"} /\ writing[w].entry \in Postings
    BY <1>4 DEF PageTypes
<1> QED BY <1>1, <1>2, <1>3, <1>4 DEF NoWork, Versions

\* A step that writes no row: what was current stays so, unless there is an overlap.
LEMMA CurrentStays ==
    ASSUME NEW k, Current(k), UNCHANGED ledger, Overlap' => Overlap
    PROVE  Current(k)'
BY DEF Current

\* A writer begins: a line of an order goes on to its commit, a movement raises
\* the version first.
LEMMA RowIsWritten ==
    ASSUME PageInv, NEW w \in Writers, NEW e \in Postings, WriteRow(w, e)
    PROVE  PageInv'
<1> DEFINE r == [step |-> IF e.kind = "order" THEN "commit" ELSE "bump", entry |-> e]
<1> PageTypes /\ RoomForRows /\ Fresh
    BY DEF PageInv
<1>1. /\ writing' = [writing EXCEPT ![w] = r] /\ writing[w] = NoWork
      /\ Len(ledger) + Cardinality(Busy) < MaxRows /\ version + Cardinality(Raisers) <= MaxRows
      /\ UNCHANGED <<ledger, version, page, reading, evictions>>
    BY DEF WriteRow, Unfinished, Raising, Busy, Raisers
<1>2. /\ r \in [step : {"bump", "incr", "commit"}, entry : Postings]
      /\ ~(r.step = "commit" /\ r.entry.kind # "order") /\ r # NoWork
      /\ r.step \notin {"bump", "incr"} => w \notin Raisers
    BY <1>1 DEF NoWork, Raisers
<1> HIDE DEF r
<1>3. PageTypes'
    BY <1>1, <1>2 DEF PageTypes
<1>4. RoomForRows'
    <2>1. /\ Cardinality(Busy') \in Nat /\ Cardinality(Raisers') \in Nat
          /\ Cardinality(Busy') <= Cardinality(Busy) + 1
          /\ Cardinality(Raisers') <= Cardinality(Raisers) + 1
        <3>1. /\ Cardinality(Busy') \in Nat /\ Cardinality(Raisers') \in Nat
              /\ r # NoWork => Cardinality(Busy') <= Cardinality(Busy) + 1
              /\ r.step \in {"bump", "incr"} => Cardinality(Raisers') <= Cardinality(Raisers) + 1
              /\ r.step \notin {"bump", "incr"} =>
                    Cardinality(Raisers') =
                        Cardinality(Raisers) - (IF w \in Raisers THEN 1 ELSE 0)
            BY <1>1, WriterCounts
        <3>2. Cardinality(Raisers) \in Nat
            BY BusyCounted
        <3> QED BY <1>2, <3>1, <3>2
    <2> QED BY <1>1, <2>1, PageFacts, PagesConstants, BusyCounted DEF RoomForRows
<1>5. Fresh'
    <2>1. Overlap' => Overlap
        BY <1>1, <1>2, WriterTurns
    <2> QED BY <1>1, <2>1, CurrentStays DEF Fresh
<1> QED BY <1>3, <1>4, <1>5 DEF PageInv

\* The version is raised: nothing is found under it yet.
LEMMA VersionIsRaised ==
    ASSUME PageInv, NEW w \in Writers, NEW step \in {"incr", "commit"},
           writing[w].step \in {"bump", "incr"},
           writing' = [writing EXCEPT ![w].step = step],
           UNCHANGED <<ledger, page, reading, evictions>>,
           step = "commit" => version' = version + 1,
           step = "incr" => version' = version
    PROVE  PageInv'
<1> DEFINE r == [step |-> step, entry |-> writing[w].entry]
<1> PageTypes /\ RoomForRows /\ Fresh
    BY DEF PageInv
<1>1. /\ writing[w] # NoWork /\ w \in Busy /\ w \in Raisers /\ writing[w].entry \in Postings
    <2>1. writing[w] # NoWork
        BY DEF NoWork
    <2> QED BY <2>1, PageFacts DEF Busy, Raisers
<1>2. writing' = [writing EXCEPT ![w] = r]
    <2>1. writing[w] \in [step : {"bump", "incr", "commit"}, entry : Postings]
        BY <1>1 DEF PageTypes
    <2>2. [writing[w] EXCEPT !.step = step] = r
        BY <2>1
    <2> HIDE DEF r
    <2> QED BY <2>2
<1>3. r \in [step : {"bump", "incr", "commit"}, entry : Postings] /\ r # NoWork /\ r.step = step
    BY <1>1 DEF NoWork
<1> HIDE DEF r
<1>4. /\ Cardinality(Busy') = Cardinality(Busy) /\ Cardinality(Raisers') \in Nat
      /\ step = "incr" => Cardinality(Raisers') = Cardinality(Raisers)
      /\ step = "commit" => Cardinality(Raisers') = Cardinality(Raisers) - 1
    BY <1>1, <1>2, <1>3, WriterCounts
<1>5. /\ Cardinality(Busy) \in Nat /\ Cardinality(Raisers) \in Nat
      /\ version \in Nat /\ Len(ledger) \in Nat /\ MaxRows \in Nat
      /\ Len(ledger) + Cardinality(Busy) <= MaxRows
      /\ version + Cardinality(Raisers) <= MaxRows + 1
    BY BusyCounted, PageFacts, PagesConstants DEF RoomForRows
<1>6. version' \in 0..MaxRows + 1 /\ RoomForRows'
    <2>1. version' + Cardinality(Raisers') <= MaxRows + 1 /\ version' \in Nat
        BY <1>4, <1>5
    <2> QED BY <1>4, <1>5, <2>1 DEF RoomForRows
<1>7. PageTypes'
    BY <1>2, <1>3, <1>6 DEF PageTypes
<1>8. Fresh'
    <2>1. CASE step = "incr"
        <3>1. Overlap' => Overlap
            BY <1>2, <1>3, <2>1, WriterTurns
        <3> QED BY <2>1, <3>1, CurrentStays DEF Fresh
    <2>2. CASE step = "commit"
        <3> SUFFICES ASSUME evictions = 0
                     PROVE  /\ \A v \in Versions : v > version' => page[v] = NoPage
                            /\ \A u \in Readers : reading[u] # NoWork => reading[u].version < version'
                            /\ page[version'] = NoPage \/ version' \notin Versions
            BY <1>5, <2>2, PageFacts DEF Fresh
        <3> QED BY <1>5, <2>2, PageFacts DEF Fresh
    <2> QED BY <2>1, <2>2
<1> QED BY <1>6, <1>7, <1>8 DEF PageInv

\* A row that is committed was overlapping, unless it is a line of an order.
LEMMA RowEnds ==
    ASSUME PageInv, NEW w \in Writers, CommitRow(w) \/ Rollback(w)
    PROVE  PageInv'
<1> PageTypes /\ RoomForRows /\ Fresh
    BY DEF PageInv
<1> DEFINE e == writing[w].entry
<1>1. /\ writing' = [writing EXCEPT ![w] = NoWork] /\ writing[w].step = "commit"
      /\ ledger' \in {ledger, Append(ledger, e)}
      /\ UNCHANGED <<version, page, reading, evictions>>
    BY DEF CommitRow, Rollback
<1>2. writing[w] # NoWork /\ w \in Busy /\ w \notin Raisers /\ e \in Postings
    <2>1. writing[w] # NoWork
        BY <1>1 DEF NoWork
    <2> QED BY <1>1, <2>1, PageFacts DEF Busy, Raisers
<1>3. /\ ledger' \in Seq(Postings) /\ Len(ledger') \in {Len(ledger), Len(ledger) + 1}
      /\ Len(ledger) \in Nat
      /\ \A i \in 1..Len(ledger) : ledger'[i] = ledger[i]
      /\ Len(ledger') = Len(ledger) + 1 => ledger'[Len(ledger) + 1] = e
    <2>1. ledger \in Seq(Postings) /\ Len(ledger) \in Nat
        BY DEF PageTypes
    <2>2. CASE ledger' = ledger
        BY <2>1, <2>2
    <2>3. CASE ledger' = Append(ledger, e)
        <3> HIDE DEF e
        <3> QED BY <1>2, <2>1, <2>3
    <2> QED BY <1>1, <2>2, <2>3
<1>4. PageTypes'
    <2>1. writing' \in [Writers -> {NoWork} \cup
                           [step : {"bump", "incr", "commit"}, entry : Postings]]
        BY <1>1 DEF PageTypes
    <2>2. \A v \in Versions : page[v].rows \in Int /\ page[v].rows <= Len(ledger)
        <3>1. \A v \in Versions : page[v] = NoPage => page[v].rows = -1
            BY DEF NoPage
        <3> QED BY <3>1, PageFacts DEF PageTypes
    <2>3. \A v \in Versions : page[v].rows <= Len(ledger')
        BY <1>3, <2>2
    <2>4. \A r \in Readers : reading[r].step = "store" => reading[r].rows <= Len(ledger')
        BY <1>3, PageFacts
    <2> QED BY <1>1, <1>3, <2>1, <2>3, <2>4 DEF PageTypes
<1>5. RoomForRows'
    <2>1. /\ Cardinality(Busy') \in Nat /\ Cardinality(Raisers') \in Nat
          /\ Cardinality(Busy') = Cardinality(Busy) - 1
          /\ Cardinality(Raisers') = Cardinality(Raisers) - 0
        <3>1. NoWork.step \notin {"bump", "incr"}
            BY DEF NoWork
        <3> QED BY <1>1, <1>2, <3>1, WriterCounts
    <2>2. Cardinality(Busy) \in Nat /\ Cardinality(Raisers) \in Nat /\ version \in Nat
        BY BusyCounted, PageFacts
    <2>3. Len(ledger') + Cardinality(Busy') <= Len(ledger) + Cardinality(Busy)
        BY <1>3, <2>1, <2>2
    <2> QED BY <1>1, <1>3, <2>1, <2>2, <2>3, PagesConstants DEF RoomForRows
<1>6. ASSUME NEW k \in Nat, Current(k) PROVE Current(k)'
    <2>1. Overlap' => Overlap
        <3>1. ~(NoWork.step = "commit" /\ NoWork.entry.kind # "order")
            BY DEF NoWork
        <3> QED BY <1>1, <3>1, WriterTurns
    <2>2. e.kind = "order"
        BY <1>1, <1>6 DEF Current, Overlap
    <2>3. \A i \in (k + 1)..Len(ledger') : ledger'[i].kind = "order"
        BY <1>3, <1>6, <2>2 DEF Current
    <2> QED BY <1>6, <2>1, <2>3 DEF Current
<1>7. Fresh'
    <2> SUFFICES ASSUME evictions = 0
                 PROVE  /\ \A v \in Versions : v > version => page[v] = NoPage
                        /\ \A r \in Readers : reading[r] # NoWork => reading[r].version <= version
                        /\ \A r \in Readers :
                              reading[r].step = "store" /\ reading[r].version = version
                                 /\ ~reading[r].overlapped => Current(reading[r].rows)'
                        /\ \A v \in Versions :
                              v = version /\ page[v] # NoPage /\ ~page[v].overlapped
                                  => Current(page[v].rows)'
        BY <1>1 DEF Fresh
    <2>1. ASSUME NEW r \in Readers, reading[r].step = "store", reading[r].version = version,
                 ~reading[r].overlapped
          PROVE  Current(reading[r].rows)'
        <3>1. PICK k \in Nat : k = reading[r].rows
            BY <2>1, PageFacts
        <3>2. Current(k)'
            BY <1>6, <2>1, <3>1 DEF Fresh
        <3> QED BY <1>1, <3>1, <3>2 DEF Current
    <2>2. ASSUME NEW v \in Versions, v = version, page[v] # NoPage, ~page[v].overlapped
          PROVE  Current(page[v].rows)'
        <3>1. PICK k \in Nat : k = page[v].rows
            BY <2>2, PageFacts
        <3>2. Current(k)'
            BY <1>6, <2>2, <3>1 DEF Fresh
        <3> QED BY <1>1, <3>1, <3>2 DEF Current
    <2> QED BY <2>1, <2>2 DEF Fresh
<1> QED BY <1>4, <1>5, <1>7 DEF PageInv

\* A reader takes the version, which starts again when it is gone.
LEMMA VersionIsRead ==
    ASSUME PageInv, NEW r \in Readers, ReadVersion(r)
    PROVE  PageInv'
<1> DEFINE q == [step |-> "look", version |-> version']
<1> PageTypes /\ RoomForRows /\ Fresh
    BY DEF PageInv
<1>1. /\ reading' = [reading EXCEPT ![r] = q] /\ version' = IF version = 0 THEN 1 ELSE version
      /\ UNCHANGED <<ledger, writing, page, evictions>>
    BY DEF ReadVersion
<1>2. /\ version \in Nat /\ Len(ledger) \in Nat /\ MaxRows \in Nat /\ version \in 0..MaxRows + 1
      /\ Cardinality(Raisers) \in Nat /\ Cardinality(Busy) \in Nat
      /\ Cardinality(Raisers) <= Cardinality(Busy)
      /\ Versions = 1..(MaxRows + 1)
    BY PageFacts, BusyCounted, PagesConstants DEF PageTypes
<1>3. Busy' = Busy /\ Raisers' = Raisers
    BY <1>1 DEF Busy, Raisers
<1>4. version' \in Versions /\ version' \in 0..MaxRows + 1
    BY <1>1, <1>2
<1>5. PageTypes'
    <2>1. q \in [step : {"look"}, version : Versions] /\ q.step = "look"
        BY <1>4
    <2> HIDE DEF q
    <2>2. /\ reading' \in [Readers -> {NoWork} \cup [step : {"look"}, version : Versions]
                              \cup [step : {"store"}, version : Versions, rows : Nat,
                                    overlapped : BOOLEAN]]
          /\ \A u \in Readers : reading'[u].step = "store" => reading'[u].rows <= Len(ledger)
        BY <1>1, <2>1 DEF PageTypes
    <2> QED BY <1>1, <1>4, <2>2 DEF PageTypes
<1>6. RoomForRows'
    BY <1>1, <1>2, <1>3 DEF RoomForRows
<1>7. Fresh'
    <2>1. /\ reading'[r].step = "look" /\ reading'[r].version = version'
          /\ \A u \in Readers : u # r => reading'[u] = reading[u]
        BY <1>1 DEF PageTypes
    <2>2. Overlap' => Overlap
        BY <1>1 DEF Overlap
    <2>3. CASE version # 0
        <3>1. version' = version
            BY <1>1, <2>3
        <3> QED BY <1>1, <1>2, <2>1, <2>2, <3>1, CurrentStays DEF Fresh
    <2>4. CASE version = 0
        <3> SUFFICES ASSUME evictions = 0
                     PROVE  /\ \A v \in Versions : page[v] = NoPage
                            /\ \A u \in Readers : u # r => reading[u] = NoWork
            BY <1>1, <1>2, <2>1, <2>4 DEF Fresh, NoWork
        <3> QED BY <1>2, <2>4, PageFacts DEF Fresh
    <2> QED BY <2>3, <2>4
<1> QED BY <1>5, <1>6, <1>7 DEF PageInv

\* A reader shows the page it finds, or has one of all rows there are.
LEMMA PageIsLookedUp ==
    ASSUME PageInv, NEW r \in Readers, Look(r)
    PROVE  PageInv'
<1> DEFINE v == reading[r].version
           q == [step |-> "store", version |-> v, rows |-> Len(ledger), overlapped |-> Overlap]
<1> PageTypes /\ RoomForRows /\ Fresh
    BY DEF PageInv
<1>1. /\ reading[r].step = "look"
      /\ reading' = [reading EXCEPT ![r] = IF page[v] # NoPage THEN NoWork ELSE q]
      /\ UNCHANGED <<ledger, writing, version, page, evictions>>
    BY DEF Look
<1>2. v \in Versions /\ Len(ledger) \in Nat /\ Overlap \in BOOLEAN /\ NoWork.step = "idle"
      /\ reading[r] # NoWork
    <2>1. Overlap \in BOOLEAN
        BY DEF Overlap
    <2> QED BY <1>1, <2>1, PageFacts
<1>3. /\ q \in [step : {"store"}, version : Versions, rows : Nat, overlapped : BOOLEAN]
      /\ q.rows = Len(ledger) /\ q.overlapped = Overlap /\ q.version = v /\ q.step = "store"
    BY <1>2
<1>4. /\ reading'[r] \in {NoWork, q} /\ \A u \in Readers : u # r => reading'[u] = reading[u]
      /\ reading' \in [Readers -> {NoWork} \cup [step : {"look"}, version : Versions]
                          \cup [step : {"store"}, version : Versions, rows : Nat,
                                overlapped : BOOLEAN]]
    <2> HIDE DEF q, v
    <2> QED BY <1>1, <1>3 DEF PageTypes
<1> HIDE DEF q
<1>5. PageTypes'
    <2>1. ASSUME NEW u \in Readers, reading'[u].step = "store"
          PROVE  reading'[u].rows <= Len(ledger)
        <3>1. CASE u # r
            BY <1>4, <2>1, <3>1 DEF PageTypes
        <3>2. CASE u = r
            BY <1>2, <1>3, <1>4, <2>1, <3>2
        <3> QED BY <3>1, <3>2
    <2> QED BY <1>1, <1>4, <2>1 DEF PageTypes
<1>6. RoomForRows'
    BY <1>1 DEF RoomForRows, Busy, Raisers
<1>7. Fresh'
    <2> SUFFICES ASSUME evictions = 0
                 PROVE  Fresh'
        BY <1>1 DEF Fresh
    <2>1. Overlap' => Overlap
        BY <1>1 DEF Overlap
    <2>2. ASSUME NEW u \in Readers, reading'[u] # NoWork
          PROVE  reading'[u].version <= version
        <3>1. CASE u # r
            BY <1>4, <2>2, <3>1 DEF Fresh
        <3>2. CASE u = r
            BY <1>2, <1>3, <1>4, <2>2, <3>2 DEF Fresh
        <3> QED BY <3>1, <3>2
    <2>3. ASSUME NEW u \in Readers, reading'[u].step = "store", reading'[u].version = version,
                 ~reading'[u].overlapped
          PROVE  Current(reading'[u].rows)
        <3>1. CASE u # r
            BY <1>4, <2>3, <3>1 DEF Fresh
        <3>2. CASE u = r
            <4>1. reading'[u] = q
                BY <1>2, <1>4, <2>3, <3>2
            <4>2. ~Overlap /\ reading'[u].rows = Len(ledger)
                BY <1>3, <2>3, <4>1
            <4> QED BY <1>2, <4>2 DEF Current
        <3> QED BY <3>1, <3>2
    <2>4. \A k : Current(k) => (~Overlap' /\ \A i \in (k + 1)..Len(ledger') : ledger'[i].kind = "order")
        BY <1>1, <2>1 DEF Current
    <2> QED BY <1>1, <2>2, <2>3, <2>4 DEF Fresh, Current
<1> QED BY <1>5, <1>6, <1>7 DEF PageInv

\* A reader stores its page, however late, under the version it began with.
LEMMA PageIsStored ==
    ASSUME PageInv, NEW r \in Readers, Store(r)
    PROVE  PageInv'
<1> DEFINE v == reading[r].version
           p == [rows |-> reading[r].rows, left |-> Ttl, overlapped |-> reading[r].overlapped]
<1> PageTypes /\ RoomForRows /\ Fresh
    BY DEF PageInv
<1>1. /\ reading[r].step = "store"
      /\ page' = [page EXCEPT ![v] = p] /\ reading' = [reading EXCEPT ![r] = NoWork]
      /\ UNCHANGED <<ledger, writing, version, evictions>>
    BY DEF Store
<1>2. /\ v \in Versions /\ reading[r].rows \in 0..Len(ledger) /\ Len(ledger) \in Nat
      /\ reading[r].overlapped \in BOOLEAN /\ Ttl \in 1..Ttl /\ NoWork.step = "idle"
    BY <1>1, PageFacts, PagesConstants
<1>3. /\ p \in [rows : Nat, left : 1..Ttl, overlapped : BOOLEAN]
      /\ p.rows = reading[r].rows /\ p.overlapped = reading[r].overlapped
    BY <1>2
<1> HIDE DEF p
<1>4. /\ page'[v] = p /\ \A u \in Versions : u # v => page'[u] = page[u]
      /\ reading'[r] = NoWork /\ \A u \in Readers : u # r => reading'[u] = reading[u]
    <2> HIDE DEF v
    <2> QED BY <1>1, <1>2 DEF PageTypes
<1>5. PageTypes'
    <2>1. page' \in [Versions -> {NoPage} \cup [rows : Nat, left : 1..Ttl, overlapped : BOOLEAN]]
        <3> HIDE DEF v
        <3> QED BY <1>1, <1>3 DEF PageTypes
    <2>2. \A u \in Versions : page'[u].rows <= Len(ledger)
        BY <1>2, <1>3, <1>4 DEF PageTypes
    <2>3. reading' \in [Readers -> {NoWork} \cup [step : {"look"}, version : Versions]
                           \cup [step : {"store"}, version : Versions, rows : Nat,
                                 overlapped : BOOLEAN]]
        BY <1>1 DEF PageTypes
    <2>4. \A u \in Readers : reading'[u].step = "store" => reading'[u].rows <= Len(ledger)
        BY <1>2, <1>4 DEF PageTypes
    <2> QED BY <1>1, <2>1, <2>2, <2>3, <2>4 DEF PageTypes
<1>6. RoomForRows'
    BY <1>1 DEF RoomForRows, Busy, Raisers
<1>7. Fresh'
    <2> SUFFICES ASSUME evictions = 0
                 PROVE  Fresh'
        BY <1>1 DEF Fresh
    <2>1. Overlap' => Overlap
        BY <1>1 DEF Overlap
    <2>2. v <= version /\ version \in Nat /\ Versions = 1..(MaxRows + 1) /\ MaxRows \in Nat
        BY <1>1, <1>2, PageFacts, PagesConstants DEF Fresh
    <2>3. ASSUME NEW u \in Versions, u > version
          PROVE  page'[u] = NoPage
        BY <1>4, <2>2, <2>3 DEF Fresh
    <2>4. ASSUME NEW u \in Readers
          PROVE  /\ reading'[u] # NoWork => reading'[u].version <= version
                 /\ reading'[u].step = "store" /\ reading'[u].version = version
                       /\ ~reading'[u].overlapped => Current(reading'[u].rows)
        BY <1>2, <1>4 DEF Fresh
    <2>5. ASSUME NEW u \in Versions, u = version, page'[u] # NoPage, ~page'[u].overlapped
          PROVE  Current(page'[u].rows)
        <3>1. CASE u # v
            BY <1>4, <2>5, <3>1 DEF Fresh
        <3>2. CASE u = v
            <4>1. page'[u].rows = reading[r].rows /\ ~reading[r].overlapped
                BY <1>3, <1>4, <2>5, <3>2
            <4>2. Current(reading[r].rows)
                BY <1>1, <2>5, <3>2, <4>1 DEF Fresh
            <4> QED BY <4>1, <4>2
        <3> QED BY <3>1, <3>2
    <2>6. \A k : Current(k) => (~Overlap' /\ \A i \in (k + 1)..Len(ledger') : ledger'[i].kind = "order")
        BY <1>1, <2>1 DEF Current
    <2> QED BY <1>1, <2>3, <2>4, <2>5, <2>6 DEF Fresh, Current
<1> QED BY <1>5, <1>6, <1>7 DEF PageInv

\* Pages grow old, each by itself.
LEMMA PagesGrowOld == PageInv /\ Tick => PageInv'
<1> SUFFICES ASSUME PageInv, Tick PROVE PageInv'
    OBVIOUS
<1> PageTypes /\ RoomForRows /\ Fresh
    BY DEF PageInv
<1>1. /\ page' = [v \in Versions |-> Older(page[v])]
      /\ UNCHANGED <<ledger, writing, version, reading, evictions>>
    BY DEF Tick
<1>2. ASSUME NEW v \in Versions
      PROVE  /\ page'[v] \in {NoPage} \cup [rows : Nat, left : 1..Ttl, overlapped : BOOLEAN]
             /\ page'[v].rows <= Len(ledger)
             /\ page'[v] # NoPage =>
                   /\ page[v] # NoPage /\ page'[v].rows = page[v].rows
                   /\ page'[v].overlapped = page[v].overlapped
    <2>1. page'[v] = IF page[v].left <= 1 THEN NoPage ELSE [page[v] EXCEPT !.left = @ - 1]
        BY <1>1 DEF Older
    <2>2. CASE page[v].left <= 1
        <3>1. NoPage.rows = -1 /\ Len(ledger) \in Nat
            BY PageFacts DEF NoPage
        <3> QED BY <2>1, <2>2, <3>1
    <2>3. CASE ~(page[v].left <= 1)
        <3>1. page[v] # NoPage
            BY <2>3 DEF NoPage
        <3>2. page[v] \in [rows : Nat, left : 1..Ttl, overlapped : BOOLEAN]
            BY <3>1 DEF PageTypes
        <3>3. page[v].rows <= Len(ledger)
            BY DEF PageTypes
        <3> QED BY <2>1, <2>3, <3>1, <3>2, <3>3, PagesConstants
    <2> QED BY <2>2, <2>3
<1>3. PageTypes'
    BY <1>1, <1>2 DEF PageTypes
<1>4. RoomForRows'
    BY <1>1 DEF RoomForRows, Busy, Raisers
<1>5. Fresh'
    <2> SUFFICES ASSUME evictions = 0
                 PROVE  Fresh'
        BY <1>1 DEF Fresh
    <2>1. \A k : Current(k) => (~Overlap' /\ \A i \in (k + 1)..Len(ledger') : ledger'[i].kind = "order")
        BY <1>1 DEF Current, Overlap
    <2>2. ASSUME NEW v \in Versions, v = version, page'[v] # NoPage, ~page'[v].overlapped
          PROVE  Current(page'[v].rows)
        BY <1>2, <2>2 DEF Fresh
    <2> QED BY <1>1, <1>2, <2>1, <2>2 DEF Fresh, Current
<1> QED BY <1>3, <1>4, <1>5 DEF PageInv

\* The cache loses the version: from then on nothing is promised of what is found.
LEMMA CacheForgets == PageInv /\ Evict => PageInv'
<1> SUFFICES ASSUME PageInv, Evict PROVE PageInv'
    OBVIOUS
<1> PageTypes /\ RoomForRows
    BY DEF PageInv
<1>1. /\ page' \in {page, [v \in Versions |-> NoPage]} /\ version' = 0
      /\ evictions' = evictions + 1 /\ evictions \in Nat
      /\ UNCHANGED <<ledger, writing, reading>>
    BY DEF Evict, PageTypes
<1>2. version \in Nat /\ Len(ledger) \in Nat /\ Cardinality(Raisers) \in Nat /\ MaxRows \in Nat
    BY PageFacts, BusyCounted, PagesConstants
<1>3. PageTypes'
    <2>1. \A v \in Versions : page'[v] \in {page[v], NoPage}
        BY <1>1
    <2>2. NoPage.rows = -1
        BY DEF NoPage
    <2>3. page' \in [Versions -> {NoPage} \cup [rows : Nat, left : 1..Ttl, overlapped : BOOLEAN]]
        BY <1>1 DEF PageTypes
    <2>4. \A v \in Versions : page'[v].rows <= Len(ledger)
        BY <1>2, <2>1, <2>2 DEF PageTypes
    <2> QED BY <1>1, <1>2, <2>3, <2>4 DEF PageTypes
<1>4. RoomForRows'
    <2>1. Busy' = Busy /\ Raisers' = Raisers
        BY <1>1 DEF Busy, Raisers
    <2> QED BY <1>1, <1>2, <2>1 DEF RoomForRows
<1>5. Fresh'
    BY <1>1 DEF Fresh
<1> QED BY <1>3, <1>4, <1>5 DEF PageInv

\* Either raise adds one to the version, unless the first finds it there.
LEMMA WritersBump ==
    ASSUME PageInv, NEW w \in Writers, BumpAdd(w) \/ BumpIncr(w)
    PROVE  PageInv'
<1>1. version \in Nat
    BY PageFacts DEF PageInv
<1>2. CASE BumpAdd(w) /\ version # 0
    <2>1. /\ writing[w].step \in {"bump", "incr"} /\ version' = version
          /\ writing' = [writing EXCEPT ![w].step = "incr"]
          /\ UNCHANGED <<ledger, page, reading, evictions>>
        BY <1>2 DEF BumpAdd
    <2> QED BY <2>1, VersionIsRaised
<1>3. CASE (BumpAdd(w) /\ version = 0) \/ BumpIncr(w)
    <2>1. /\ writing[w].step \in {"bump", "incr"} /\ version' = version + 1
          /\ writing' = [writing EXCEPT ![w].step = "commit"]
          /\ UNCHANGED <<ledger, page, reading, evictions>>
        BY <1>1, <1>3 DEF BumpAdd, BumpIncr, Raised
    <2> QED BY <2>1, VersionIsRaised
<1> QED BY <1>2, <1>3

LEMMA PagesStartEmpty == PInit => PageInv
<1> SUFFICES ASSUME PInit PROVE PageInv
    OBVIOUS
<1>1. /\ ledger = <<>> /\ Len(ledger) = 0 /\ version = 0 /\ evictions = 0
      /\ writing = [w \in Writers |-> NoWork] /\ reading = [r \in Readers |-> NoWork]
      /\ page = [v \in Versions |-> NoPage]
    BY DEF PInit
<1>2. NoWork.step = "idle" /\ NoPage.rows = -1 /\ MaxRows \in Nat
    BY PagesConstants DEF NoWork, NoPage
<1>3. Busy = {} /\ Raisers = {}
    BY <1>1, <1>2 DEF Busy, Raisers
<1>4. PageTypes
    BY <1>1, <1>2 DEF PageTypes
<1>5. RoomForRows
    BY <1>1, <1>2, <1>3, BusyCounted DEF RoomForRows
<1>6. Fresh
    BY <1>1, <1>2 DEF Fresh
<1> QED BY <1>4, <1>5, <1>6 DEF PageInv

LEMMA PagesGoOn == PageInv /\ [PNext]_pvars => PageInv'
<1> SUFFICES ASSUME PageInv, [PNext]_pvars PROVE PageInv'
    OBVIOUS
<1>1. ASSUME NEW w \in Writers,
             WriterGoesOn(w) \/ Rollback(w) \/ \E e \in Postings : WriteRow(w, e)
      PROVE  PageInv'
    BY <1>1, WritersBump, RowEnds, RowIsWritten DEF WriterGoesOn
<1>2. ASSUME NEW r \in Readers, ReaderGoesOn(r) \/ ReadVersion(r)
      PROVE  PageInv'
    BY <1>2, PageIsLookedUp, PageIsStored, VersionIsRead DEF ReaderGoesOn
<1>3. CASE UNCHANGED pvars
    BY <1>3 DEF pvars, PageInv, PageTypes, RoomForRows, Fresh, Current, Overlap, Busy, Raisers
<1> QED BY <1>1, <1>2, <1>3, PagesGrowOld, CacheForgets DEF PNext

\* What is found is a page of no less than was committed, but for order lines,
\* when no commit was on its way while the page was computed.
LEMMA FoundIsFresh == PageInv => StaleOnlyByOverlap
<1> SUFFICES ASSUME PageInv, evictions = 0, version # 0, page[version] # NoPage,
                    ~page[version].overlapped
             PROVE  \A i \in (page[version].rows + 1)..Len(ledger) : ledger[i].kind = "order"
    BY DEF StaleOnlyByOverlap
<1>1. version \in Versions
    BY PageFacts, PagesConstants DEF PageInv, PageTypes
<1> QED BY <1>1 DEF PageInv, Fresh, Current

\* What the pages of stock show adds up, promises no more than is there, and is
\* stale only for the reasons that the code leaves open: with any number of
\* variants, rows, writers and readers.
THEOREM PagesAreTrue == PSpec => []PagesTrue
<1>1. PageInv => PagesTrue
    <2> SUFFICES ASSUME PageInv PROVE PagesTrue
        OBVIOUS
    <2>1. Unfinished = Cardinality(Busy)
        BY DEF Unfinished, Busy
    <2>2. PTypeOK
        BY <2>1, PageFacts DEF PTypeOK, PageInv, PageTypes, RoomForRows
    <2>3. ledger \in Seq(Postings)
        BY DEF PageInv, PageTypes
    <2> QED BY <2>2, <2>3, FoundIsFresh, StockExplained, TilesPromise DEF PagesTrue
<1> QED BY <1>1, PagesStartEmpty, PagesGoOn, PTL DEF PSpec

-----------------------------------------------------------------------------
(* Rates and pages, as they share the cache but no key *)

\* Either is at rest while the other goes on.
LEMMA CacheRuns == CacheSpec => Spec /\ PSpec
<1>1. CacheInit => Init /\ PInit
    BY DEF CacheInit
<1>2. [CacheNext]_<<vars, pvars, focus>> => [Next]_vars /\ [PNext]_pvars
    BY DEF CacheNext
<1>3. CacheSpec => CacheInit /\ [][CacheNext]_<<vars, pvars, focus>>
    BY PTL DEF CacheSpec
<1> QED BY <1>1, <1>2, <1>3, PTL DEF Spec, PSpec

\* Beside the rates, too, the pages tell what the rows say.
THEOREM CacheShowsTruth == CacheSpec => []CachePages
<1>1. PagesTrue => CachePages
    BY DEF CachePages
<1> QED BY <1>1, CacheRuns, PagesAreTrue, PTL

\* Beside the pages, too, rates are frozen and logged as they were on record.
THEOREM CacheKeepsRates == CacheSpec => [](FrozenWasOnRecord /\ EveryRateLogged)
BY CacheRuns, FrozenRates, AuditComplete, PTL
=============================================================================
