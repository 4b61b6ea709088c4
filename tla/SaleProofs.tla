------------------------------- MODULE SaleProofs -------------------------------
(***************************************************************************)
(* Proofs about sales, for any sets of sales, variants and workers, any    *)
(* order of the variants and any value of the bounds.  First SaleLedger,   *)
(* whose services are one step each; then SaleLocking, whose row locks are *)
(* what makes them so.                                                     *)
(***************************************************************************)
EXTENDS SaleLocking, SumsProofs

-----------------------------------------------------------------------------
(* The operators on carts. *)

LEMMA CartPlus ==
    ASSUME NEW f \in [Variants -> Int], NEW g \in [Variants -> Int]
    PROVE  /\ Plus(f, g) \in [Variants -> Int]
           /\ Minus(f, g) \in [Variants -> Int]
           /\ Negated(f) \in [Variants -> Int]
    BY DEF Plus, Minus, Negated

LEMMA CartsAreUnits ==
    ASSUME NEW cart \in Carts
    PROVE  /\ cart \in [Variants -> Nat]
           /\ cart \in [Variants -> Int]
    <1> MaxUnits \in Nat BY LedgerAssumption
    <1> QED BY DEF Carts

LEMMA NoUnitsIsCart == NoUnits \in [Variants -> Nat] /\ NoUnits \in [Variants -> Int]
    BY DEF NoUnits

LEMMA LeftIsUnits ==
    ASSUME NEW f \in [Variants -> Nat], NEW g \in Carts,
           \A v \in Variants : g[v] <= f[v]
    PROVE  Minus(f, g) \in [Variants -> Nat]
    <1> MaxUnits \in Nat BY LedgerAssumption
    <1> QED BY DEF Carts, Minus

LEMMA SmallArithmetic ==
    /\ \A a, b \in Nat : Least(a, b) \in Nat
    /\ \A n \in Int : AtLeastZero(n) \in Nat
    BY DEF Least, AtLeastZero

\* What a service's stock movement does to the two ledger sums.
LEMMA TakeType ==
    ASSUME TypeOK, NEW s \in Sales, NEW units \in [Variants -> Int],
           NEW hist \in BOOLEAN, Take(s, units, hist)
    PROVE  /\ onHand' \in [Variants -> Int]
           /\ sold' \in [Sales -> [Variants -> Int]]
    <1>1. CASE hist
        BY <1>1 DEF Take, ledger, TypeOK
    <1>2. CASE ~hist
        <2>1. sold[s] \in [Variants -> Int]
            BY DEF TypeOK
        <2>2. Plus(sold[s], units) \in [Variants -> Int]
            BY <2>1, CartPlus
        <2>3. Minus(onHand, units) \in [Variants -> Int]
            BY CartPlus DEF TypeOK
        <2> QED BY <1>2, <2>2, <2>3 DEF Take, TypeOK
    <1> QED BY <1>1, <1>2

LEMMA ServingRequest ==
    ASSUME TypeOK, NEW w \in Workers, NEW op \in Ops, Serving(w, op)
    PROVE  /\ req[w] \in Request
           /\ req[w].sale \in Sales
           /\ req[w].seen \in Statuses
           /\ req[w].op = op
    BY DEF TypeOK, Serving, Request

-----------------------------------------------------------------------------
(* Type correctness. *)

LEMMA TypeInit == Init => TypeOK
    BY NoUnitsIsCart DEF Init, TypeOK, Statuses

LEMMA TypeFinish ==
    ASSUME TypeOK, NEW w \in Workers, Finish(w)
    PROVE  req' \in [Workers -> Request \cup {Idle}]
    BY DEF TypeOK, Finish

LEMMA TypeCart ==
    ASSUME TypeOK, NEW w \in Workers, CartStep(w)
    PROVE  TypeOK'
<1> MaxUnits \in Nat
    BY LedgerAssumption
<1>1. ASSUME NEW cart \in [Variants -> Nat], req[w].sale \in Sales, SetCart(w, cart)
      PROVE  TypeOK'
    <2>1. lines' \in [Sales -> [Variants -> Nat]]
        BY <1>1 DEF SetCart, TypeOK
    <2> QED BY <1>1, <2>1, TypeFinish DEF SetCart, TypeOK, ledger
<1>2. ASSUME NEW v \in Variants, NEW q \in Units, ItemAdd(w, v, q)
      PROVE  TypeOK'
    <2> DEFINE s == req[w].sale
               room == AtLeastZero(Available(v) - lines[s][v])
               cart == [lines[s] EXCEPT ![v] = @ + Least(q, room)]
    <2>1. s \in Sales
        BY <1>2, ServingRequest DEF ItemAdd, Ops, Edits
    <2>2. lines[s] \in [Variants -> Nat]
        BY <2>1 DEF TypeOK
    <2>3. room \in Nat
        <3>1. Available(v) - lines[s][v] \in Int
            BY <2>2 DEF Available, TypeOK
        <3> QED BY <3>1, SmallArithmetic
    <2>4. Least(q, room) \in Nat
        <3>1. q \in Nat
            BY DEF Units
        <3> QED BY <2>3, <3>1, SmallArithmetic
    <2>5. cart \in [Variants -> Nat]
        BY <2>2, <2>4
    <2>6. SetCart(w, cart)
        BY <1>2 DEF ItemAdd
    <2> QED BY <1>1, <2>1, <2>5, <2>6
<1>3. ASSUME NEW v \in Variants, ItemRemove(w, v)
      PROVE  TypeOK'
    <2> DEFINE cart == [lines[req[w].sale] EXCEPT ![v] = 0]
    <2>1. req[w].sale \in Sales
        BY <1>3, ServingRequest DEF ItemRemove, Ops, Edits
    <2>2. cart \in [Variants -> Nat]
        BY <2>1 DEF TypeOK
    <2> QED BY <1>1, <1>3, <2>1, <2>2 DEF ItemRemove
<1>4. ASSUME NEW snap \in Carts, Restore(w, snap)
      PROVE  TypeOK'
    <2> DEFINE cart == [v \in Variants |-> Least(snap[v], AtLeastZero(Available(v)))]
    <2>1. req[w].sale \in Sales
        BY <1>4, ServingRequest DEF Restore, Ops, Edits
    <2>2. ASSUME NEW v \in Variants PROVE cart[v] \in Nat
        <3>1. Available(v) \in Int
            BY DEF Available, TypeOK
        <3>2. snap[v] \in Nat
            BY CartsAreUnits
        <3> QED BY <3>1, <3>2, SmallArithmetic
    <2>3. cart \in [Variants -> Nat]
        BY <2>2
    <2>4. SetCart(w, cart)
        BY <1>4 DEF Restore
    <2> QED BY <1>1, <2>1, <2>3, <2>4
<1> QED BY <1>2, <1>3, <1>4 DEF CartStep

LEMMA TypeService ==
    ASSUME TypeOK, NEW w \in Workers, ServiceStep(w)
    PROVE  TypeOK'
<1> DEFINE s == req[w].sale
<1>1. ASSUME NEW hist \in BOOLEAN, Confirm(w, hist)
      PROVE  TypeOK'
    <2>1. s \in Sales
        BY <1>1, ServingRequest DEF Confirm, Ops
    <2>2. lines[s] \in [Variants -> Nat] /\ lines[s] \in [Variants -> Int]
        BY <2>1 DEF TypeOK
    <2>3. onHand' \in [Variants -> Int] /\ sold' \in [Sales -> [Variants -> Int]]
        BY <1>1, <2>1, <2>2, TakeType DEF Confirm
    <2>4. /\ status' \in [Sales -> Statuses]
          /\ historical' \in [Sales -> BOOLEAN]
          /\ billed' \in [Sales -> [Variants -> Nat]]
        BY <1>1, <2>1, <2>2 DEF Confirm, TypeOK, Statuses
    <2> QED BY <1>1, <2>3, <2>4, TypeFinish DEF Confirm, TypeOK
<1>2. ASSUME Cancel(w) PROVE TypeOK'
    <2>1. s \in Sales
        BY <1>2, ServingRequest DEF Cancel, Ops
    <2>2. lines[s] \in [Variants -> Int] /\ historical[s] \in BOOLEAN
        BY <2>1 DEF TypeOK
    <2>3. Negated(lines[s]) \in [Variants -> Int]
        BY <2>2, CartPlus
    <2>4. onHand' \in [Variants -> Int] /\ sold' \in [Sales -> [Variants -> Int]]
        BY <1>2, <2>1, <2>2, <2>3, TakeType DEF Cancel
    <2>5. status' \in [Sales -> Statuses]
        BY <1>2 DEF Cancel, TypeOK, Statuses
    <2> QED BY <1>2, <2>4, <2>5, TypeFinish DEF Cancel, TypeOK
<1>3. ASSUME NEW back \in Carts, Return(w, back) PROVE TypeOK'
    <2>1. s \in Sales /\ req[w].seen \in Statuses
        BY <1>3, ServingRequest DEF Return, Ops
    <2>2. lines[s] \in [Variants -> Nat] /\ historical[s] \in BOOLEAN
        BY <2>1 DEF TypeOK
    <2>3. Negated(back) \in [Variants -> Int]
        BY CartsAreUnits, CartPlus
    <2>4. onHand' \in [Variants -> Int] /\ sold' \in [Sales -> [Variants -> Int]]
        BY <1>3, <2>1, <2>2, <2>3, TakeType DEF Return
    <2>5. Minus(lines[s], back) \in [Variants -> Nat]
        BY <1>3, <2>2, LeftIsUnits DEF Return, CanReturn
    <2>6. /\ status' \in [Sales -> Statuses]
          /\ lines' \in [Sales -> [Variants -> Nat]]
          /\ billed' \in [Sales -> [Variants -> Nat]]
        BY <1>3, <2>1, <2>5 DEF Return, TypeOK, Statuses
    <2> QED BY <1>3, <2>4, <2>6, TypeFinish DEF Return, TypeOK
<1>4. ASSUME Refuse(w) PROVE TypeOK'
    BY <1>4, TypeFinish DEF Refuse, TypeOK, rows, ledger
<1> QED BY <1>1, <1>2, <1>3, <1>4 DEF ServiceStep

LEMMA TypeHandOver ==
    ASSUME TypeOK, NEW s \in Sales, NEW cart \in Carts, HandOver(s, cart)
    PROVE  TypeOK'
<1>1. cart \in [Variants -> Nat] /\ cart \in [Variants -> Int]
    BY CartsAreUnits
<1>2. onHand' \in [Variants -> Int] /\ sold' \in [Sales -> [Variants -> Int]]
    BY <1>1, TakeType DEF HandOver
<1>3. Minus(reserved, cart) \in [Variants -> Nat]
    BY LeftIsUnits DEF HandOver, TypeOK
<1>4. /\ status' \in [Sales -> Statuses]
      /\ lines' \in [Sales -> [Variants -> Nat]]
      /\ billed' \in [Sales -> [Variants -> Nat]]
    BY <1>1 DEF HandOver, TypeOK, Statuses
<1> QED BY <1>2, <1>3, <1>4 DEF HandOver, TypeOK

LEMMA TypeStock ==
    ASSUME TypeOK, StockStep
    PROVE  TypeOK'
<1> MaxUnits \in Nat /\ MaxStock \in Nat
    BY LedgerAssumption
<1>1. ASSUME NEW v \in Variants, NEW n \in Int, MoveStock(v, n) PROVE TypeOK'
    BY <1>1 DEF MoveStock, TypeOK, rows
<1>2. ASSUME NEW v \in Variants, NEW q \in Units, Receive(v, q) PROVE TypeOK'
    BY <1>1, <1>2 DEF Receive, Units
<1>3. ASSUME NEW v \in Variants, NEW q \in Units, WriteOff(v, q) PROVE TypeOK'
    <2>1. -q \in Int BY DEF Units
    <2> QED BY <1>1, <1>3, <2>1 DEF WriteOff
<1>4. ASSUME NEW v \in Variants, NEW counted \in 0..MaxStock, Recount(v, counted)
      PROVE  TypeOK'
    <2>1. counted - onHand[v] \in Int BY DEF TypeOK
    <2> QED BY <1>1, <1>4, <2>1 DEF Recount
<1>5. ASSUME Promise PROVE TypeOK'
    <2>1. reserved' \in [Variants -> Nat]
        BY <1>5, LedgerAssumption DEF Promise
    <2> QED BY <1>5, <2>1 DEF Promise, TypeOK, rows, ledger
<1> QED BY <1>2, <1>3, <1>4, <1>5 DEF StockStep

LEMMA TypeStep == TypeOK /\ [Next]_vars => TypeOK'
<1> SUFFICES ASSUME TypeOK, [Next]_vars PROVE TypeOK'
    OBVIOUS
<1>1. ASSUME NEW w \in Workers, NEW op \in Ops, NEW s \in Sales, Load(w, op, s)
      PROVE  TypeOK'
    <2>1. [op |-> op, sale |-> s, seen |-> status[s]] \in Request
        BY DEF Request, TypeOK
    <2> QED BY <1>1, <2>1 DEF Load, TypeOK, rows, ledger
<1>2. ASSUME NEW s \in Sales, NewDraft(s) PROVE TypeOK'
    BY <1>2 DEF NewDraft, TypeOK, ledger, Statuses
<1>3. CASE UNCHANGED vars
    BY <1>3 DEF vars, rows, ledger, TypeOK
<1> QED BY <1>1, <1>2, <1>3, TypeCart, TypeService, TypeHandOver, TypeStock DEF Next

\* Every reachable state is well typed: in particular a line and a
\* reservation never go below zero, whatever the requests do.
THEOREM TypeCorrect == Spec => []TypeOK
<1>1. Init => TypeOK
    BY TypeInit
<1>2. TypeOK /\ [Next]_vars => TypeOK'
    BY TypeStep
<1> QED BY <1>1, <1>2, PTL DEF Spec

-----------------------------------------------------------------------------
(* The life of a sale, however its requests overlap. *)

\* A return was loaded by a view that saw a confirmed sale.
SeenConfirmed ==
    \A w \in Workers : Serving(w, "return") => req[w].seen = "confirmed"

\* is_historical is set by the confirmation only.
HistoricalIsClosed ==
    \A s \in Sales : historical[s] => status[s] \in {"confirmed", "cancelled"}

LifeInv == TypeOK /\ SeenConfirmed /\ HistoricalIsClosed

LEMMA SeenFinish ==
    ASSUME TypeOK, SeenConfirmed, NEW w \in Workers, Finish(w)
    PROVE  SeenConfirmed'
    BY DEF SeenConfirmed, Finish, Serving, TypeOK

LEMMA SeenKept ==
    ASSUME SeenConfirmed, UNCHANGED req
    PROVE  SeenConfirmed'
    BY DEF SeenConfirmed, Serving

LEMMA LifeInit == Init => LifeInv
    BY TypeInit DEF Init, LifeInv, SeenConfirmed, HistoricalIsClosed, Serving, Idle

LEMMA LifeStep == LifeInv /\ [Next]_vars => LifeInv'
<1> SUFFICES ASSUME LifeInv, [Next]_vars PROVE SeenConfirmed' /\ HistoricalIsClosed'
    BY TypeStep DEF LifeInv
<1> TypeOK /\ SeenConfirmed /\ HistoricalIsClosed
    BY DEF LifeInv
<1>1. ASSUME NEW w \in Workers, NEW op \in Ops, NEW s \in Sales, Load(w, op, s)
      PROVE  SeenConfirmed' /\ HistoricalIsClosed'
    <2>1. SeenConfirmed'
        BY <1>1 DEF Load, ViewAccepts, SeenConfirmed, Serving, TypeOK, Edits, Idle
    <2> QED BY <1>1, <2>1 DEF Load, rows, HistoricalIsClosed
<1>2. ASSUME NEW w \in Workers, CartStep(w)
      PROVE  SeenConfirmed' /\ HistoricalIsClosed'
    <2>1. Finish(w) /\ UNCHANGED <<status, historical>>
        BY <1>2 DEF CartStep, ItemAdd, ItemRemove, Restore, SetCart
    <2> QED BY <2>1, SeenFinish DEF HistoricalIsClosed
<1>3. ASSUME NEW w \in Workers, ServiceStep(w)
      PROVE  SeenConfirmed' /\ HistoricalIsClosed'
    <2>1. Finish(w)
        BY <1>3 DEF ServiceStep, Confirm, Cancel, Return, Refuse
    <2>2. ASSUME NEW hist \in BOOLEAN, Confirm(w, hist) PROVE HistoricalIsClosed'
        <3>1. req[w].sale \in Sales
            BY <2>2, ServingRequest DEF Confirm, Ops
        <3> QED BY <2>2, <3>1 DEF Confirm, HistoricalIsClosed, TypeOK
    <2>3. ASSUME Cancel(w) PROVE HistoricalIsClosed'
        BY <2>3 DEF Cancel, HistoricalIsClosed, TypeOK
    <2>4. ASSUME NEW back \in Carts, Return(w, back) PROVE HistoricalIsClosed'
        BY <2>4 DEF Return, HistoricalIsClosed, SeenConfirmed, TypeOK
    <2>5. ASSUME Refuse(w) PROVE HistoricalIsClosed'
        BY <2>5 DEF Refuse, HistoricalIsClosed, rows
    <2> QED BY <1>3, <2>1, <2>2, <2>3, <2>4, <2>5, SeenFinish DEF ServiceStep
<1>4. ASSUME NEW s \in Sales, NewDraft(s) PROVE SeenConfirmed' /\ HistoricalIsClosed'
    BY <1>4, SeenKept DEF NewDraft, HistoricalIsClosed, TypeOK
<1>5. ASSUME NEW s \in Sales, NEW cart \in Carts, HandOver(s, cart)
      PROVE  SeenConfirmed' /\ HistoricalIsClosed'
    BY <1>5, SeenKept DEF HandOver, HistoricalIsClosed, TypeOK
<1>6. ASSUME StockStep PROVE SeenConfirmed' /\ HistoricalIsClosed'
    <2>1. UNCHANGED <<status, historical, req>>
        BY <1>6 DEF StockStep, Receive, WriteOff, Recount, MoveStock, Promise, rows
    <2> QED BY <2>1, SeenKept DEF HistoricalIsClosed
<1>7. CASE UNCHANGED vars
    BY <1>7, SeenKept DEF vars, rows, HistoricalIsClosed
<1> QED BY <1>1, <1>2, <1>3, <1>4, <1>5, <1>6, <1>7 DEF Next

\* The two invariants hold in every reachable state.
LEMMA LifeHolds == Spec => []LifeInv
    BY LifeInit, LifeStep, PTL DEF Spec

\* sales/services.py: each service locks the sale and reads its status again,
\* so a sale is confirmed at most once, cancelled at most once, and never
\* reopened by a save of the object a view had loaded before the lock.
THEOREM StatusAdvances == Spec => StatusOnlyAdvances
<1>1. LifeInv /\ [Next]_vars => [\A s \in Sales : Later(status[s], status'[s])]_status
    <2> SUFFICES ASSUME LifeInv, [Next]_vars, NEW s \in Sales
                 PROVE  Later(status[s], status'[s])
        OBVIOUS
    <2> TypeOK /\ SeenConfirmed
        BY DEF LifeInv
    <2>1. ASSUME NEW w \in Workers, ServiceStep(w) PROVE Later(status[s], status'[s])
        <3>1. ASSUME NEW hist \in BOOLEAN, Confirm(w, hist)
              PROVE  Later(status[s], status'[s])
            BY <3>1 DEF Confirm, CanConfirm, Later, TypeOK
        <3>2. ASSUME Cancel(w) PROVE Later(status[s], status'[s])
            BY <3>2 DEF Cancel, CanCancel, Later, TypeOK
        <3>3. ASSUME NEW back \in Carts, Return(w, back)
              PROVE  Later(status[s], status'[s])
            BY <3>3 DEF Return, CanReturn, Later, SeenConfirmed, TypeOK
        <3>4. ASSUME Refuse(w) PROVE Later(status[s], status'[s])
            BY <3>4 DEF Refuse, rows, Later
        <3> QED BY <2>1, <3>1, <3>2, <3>3, <3>4 DEF ServiceStep
    <2>2. ASSUME NEW t \in Sales, NewDraft(t) PROVE Later(status[s], status'[s])
        BY <2>2 DEF NewDraft, Later, TypeOK
    <2>3. ASSUME NEW t \in Sales, NEW cart \in Carts, HandOver(t, cart)
          PROVE  Later(status[s], status'[s])
        BY <2>3 DEF HandOver, Later, TypeOK
    <2>4. CASE UNCHANGED status
        BY <2>4 DEF Later
    <2>5. ASSUME NEW w \in Workers, NEW op \in Ops, NEW t \in Sales, Load(w, op, t)
          PROVE  UNCHANGED status
        BY <2>5 DEF Load, rows
    <2>6. ASSUME NEW w \in Workers, CartStep(w) PROVE UNCHANGED status
        BY <2>6 DEF CartStep, ItemAdd, ItemRemove, Restore, SetCart
    <2>7. ASSUME StockStep PROVE UNCHANGED status
        BY <2>7 DEF StockStep, Receive, WriteOff, Recount, MoveStock, Promise, rows
    <2>8. ASSUME UNCHANGED vars PROVE UNCHANGED status
        BY <2>8 DEF vars, rows
    <2> QED BY <2>1, <2>2, <2>3, <2>4, <2>5, <2>6, <2>7, <2>8 DEF Next
<1> QED BY <1>1, LifeHolds, PTL DEF Spec, StatusOnlyAdvances

-----------------------------------------------------------------------------
(* What a sale holds out of the stock. *)

LEMMA UnitSums ==
    ASSUME NEW f \in [Variants -> Int], NEW g \in [Variants -> Int]
    PROVE  /\ Plus(NoUnits, f) = f
           /\ Plus(f, Negated(f)) = NoUnits
           /\ Plus(f, Negated(g)) = Minus(f, g)
<1>1. Plus(NoUnits, f) = f
    BY DEF Plus, NoUnits
<1>2. Plus(f, Negated(f)) = NoUnits
    BY DEF Plus, NoUnits, Negated
<1>3. Plus(f, Negated(g)) = Minus(f, g)
    BY DEF Plus, Minus, Negated
<1> QED BY <1>1, <1>2, <1>3

\* A movement of one sale leaves what the others hold alone.
LEMMA TakeSold ==
    ASSUME TypeOK, NEW s \in Sales, NEW units \in [Variants -> Int],
           NEW hist \in BOOLEAN, Take(s, units, hist)
    PROVE  /\ sold'[s] = IF hist THEN sold[s] ELSE Plus(sold[s], units)
           /\ \A t \in Sales : t # s => sold'[t] = sold[t]
    BY DEF Take, TypeOK, ledger

HeldInv == LifeInv /\ NothingHeldUnconfirmed

LEMMA HeldInit == Init => HeldInv
    BY LifeInit DEF Init, HeldInv, NothingHeldUnconfirmed

LEMMA HeldStep == HeldInv /\ [Next]_vars => HeldInv'
<1> SUFFICES ASSUME HeldInv, [Next]_vars PROVE NothingHeldUnconfirmed'
    BY LifeStep DEF HeldInv
<1> TypeOK /\ SeenConfirmed /\ HistoricalIsClosed /\ NothingHeldUnconfirmed
    BY DEF HeldInv, LifeInv
<1>1. ASSUME NEW w \in Workers, NEW hist \in BOOLEAN, Confirm(w, hist)
      PROVE  NothingHeldUnconfirmed'
    <2> DEFINE s == req[w].sale
    <2>1. s \in Sales
        BY <1>1, ServingRequest DEF Confirm, Ops
    <2>2. lines[s] \in [Variants -> Int]
        BY <2>1 DEF TypeOK
    <2>3. sold'[s] = IF hist THEN sold[s] ELSE Plus(sold[s], lines[s])
        BY <1>1, <2>1, <2>2, TakeSold DEF Confirm
    <2>4. \A t \in Sales : t # s => sold'[t] = sold[t]
        BY <1>1, <2>1, <2>2, TakeSold DEF Confirm
    <2>5. status[s] = "draft" /\ ~historical[s]
        BY <1>1, <2>1 DEF Confirm, CanConfirm, HistoricalIsClosed
    <2>6. status'[s] = "confirmed" /\ historical'[s] = hist
        BY <1>1, <2>1, <2>5 DEF Confirm, TypeOK
    <2>7. \A t \in Sales : t # s => status'[t] = status[t] /\ historical'[t] = historical[t]
        BY <1>1 DEF Confirm, TypeOK
    <2> QED BY <2>1, <2>3, <2>4, <2>5, <2>6, <2>7 DEF NothingHeldUnconfirmed
<1>2. ASSUME NEW w \in Workers, NEW units \in [Variants -> Int],
             req[w].sale \in Sales, status[req[w].sale] = "confirmed",
             Take(req[w].sale, units, historical[req[w].sale]),
             UNCHANGED historical,
             \A t \in Sales : t # req[w].sale => status'[t] = status[t],
             status'[req[w].sale] \in {"confirmed", "cancelled"}
      PROVE  NothingHeldUnconfirmed'
    <2> DEFINE s == req[w].sale
    <2>1. historical[s] \in BOOLEAN
        BY <1>2 DEF TypeOK
    <2>2. /\ historical[s] => sold'[s] = sold[s]
          /\ \A t \in Sales : t # s => sold'[t] = sold[t]
        BY <1>2, <2>1, TakeSold
    <2> QED BY <1>2, <2>2 DEF NothingHeldUnconfirmed
<1>3. ASSUME NEW w \in Workers, Cancel(w) PROVE NothingHeldUnconfirmed'
    <2>1. req[w].sale \in Sales
        BY <1>3, ServingRequest DEF Cancel, Ops
    <2>2. lines[req[w].sale] \in [Variants -> Int]
        BY <2>1 DEF TypeOK
    <2>3. Negated(lines[req[w].sale]) \in [Variants -> Int]
        BY <2>2, CartPlus
    <2> QED BY <1>2, <1>3, <2>1, <2>3 DEF Cancel, CanCancel, TypeOK
<1>4. ASSUME NEW w \in Workers, NEW back \in Carts, Return(w, back)
      PROVE  NothingHeldUnconfirmed'
    <2>1. req[w].sale \in Sales
        BY <1>4, ServingRequest DEF Return, Ops
    <2>2. Negated(back) \in [Variants -> Int]
        BY CartsAreUnits, CartPlus
    <2>3. req[w].seen = "confirmed"
        BY <1>4 DEF Return, SeenConfirmed
    <2>4. status'[req[w].sale] \in {"confirmed", "cancelled"}
        BY <1>4, <2>1, <2>3 DEF Return, TypeOK
    <2> QED BY <1>2, <1>4, <2>1, <2>2, <2>4 DEF Return, CanReturn, TypeOK
<1>5. ASSUME NEW s \in Sales, NEW cart \in Carts, HandOver(s, cart)
      PROVE  NothingHeldUnconfirmed'
    <2>1. \A t \in Sales : t # s => sold'[t] = sold[t]
        BY <1>5, CartsAreUnits, TakeSold DEF HandOver
    <2>2. ~historical[s]
        BY <1>5 DEF HandOver, HistoricalIsClosed
    <2> QED BY <1>5, <2>1, <2>2 DEF HandOver, NothingHeldUnconfirmed, TypeOK
<1>6. ASSUME NEW s \in Sales, NewDraft(s) PROVE NothingHeldUnconfirmed'
    BY <1>6 DEF NewDraft, NothingHeldUnconfirmed, TypeOK, ledger
<1>7. ASSUME UNCHANGED <<status, historical, sold>> PROVE NothingHeldUnconfirmed'
    BY <1>7 DEF NothingHeldUnconfirmed
<1>8. ASSUME NEW w \in Workers, CartStep(w) \/ Refuse(w)
      PROVE  UNCHANGED <<status, historical, sold>>
    BY <1>8 DEF CartStep, ItemAdd, ItemRemove, Restore, SetCart, Refuse, rows, ledger
<1>9. ASSUME StockStep PROVE UNCHANGED <<status, historical, sold>>
    BY <1>9 DEF StockStep, Receive, WriteOff, Recount, MoveStock, Promise,
                rows, ledger
<1>10. ASSUME NEW w \in Workers, NEW op \in Ops, NEW s \in Sales, Load(w, op, s)
       PROVE  UNCHANGED <<status, historical, sold>>
    BY <1>10 DEF Load, rows, ledger
<1>11. CASE UNCHANGED vars
    BY <1>7, <1>11 DEF vars, rows, ledger
<1> QED BY <1>1, <1>3, <1>4, <1>5, <1>6, <1>7, <1>8, <1>9, <1>10, <1>11
        DEF Next, ServiceStep

\* confirm_sale writes SALE_OUT once and only for a sale that is not
\* historical; cancel_sale and return_items restock no historical sale.  So a
\* draft and a historical sale never hold stock, even when cart edits run
\* into a confirmation.
THEOREM NothingHeld == Spec => []NothingHeldUnconfirmed
<1>1. HeldInv => NothingHeldUnconfirmed
    BY DEF HeldInv
<1> QED BY <1>1, HeldInit, HeldStep, PTL DEF Spec

-----------------------------------------------------------------------------
(* The ledger and the lines, when a cart edit is alone with its draft. *)

\* An edit in flight means a draft that no other edit and no confirmation is
\* working on.  It is what OverlappingEdits = FALSE buys.
EditsAlone ==
    \A w \in Workers :
        req[w] # Idle /\ req[w].op \in Edits =>
            /\ status[req[w].sale] = "draft"
            /\ \A u \in Workers :
                  u # w /\ req[u] # Idle /\ req[u].sale = req[w].sale
                      => req[u].op \in {"cancel", "return"}

LedgerInv == LifeInv /\ EditsAlone /\ LedgerMatchesLines /\ BilledMatchesLines

LEMMA LedgerInit == Init => LedgerInv
    BY LifeInit DEF Init, LedgerInv, EditsAlone, LedgerMatchesLines, BilledMatchesLines

\* The status of a sale under edit is not touched, so a finished request
\* leaves the other edits alone.
LEMMA EditsFinish ==
    ASSUME TypeOK, EditsAlone, NEW w \in Workers, Finish(w),
           \A s \in Sales : status[s] = "draft" /\ status'[s] # "draft"
               => req[w] # Idle /\ req[w].sale = s /\ req[w].op = "confirm"
    PROVE  EditsAlone'
<1> SUFFICES ASSUME NEW x \in Workers, req'[x] # Idle, req'[x].op \in Edits
             PROVE  /\ status'[req'[x].sale] = "draft"
                    /\ \A u \in Workers :
                          u # x /\ req'[u] # Idle /\ req'[u].sale = req'[x].sale
                              => req'[u].op \in {"cancel", "return"}
    BY DEF EditsAlone
<1>1. x # w /\ \A u \in Workers : u # w => req'[u] = req[u]
    BY DEF Finish, TypeOK
<1>2. req'[w] = Idle
    BY DEF Finish, TypeOK
<1>3. req[x].sale \in Sales
    BY <1>1 DEF TypeOK, Request, Edits, Ops
<1>4. /\ status[req[x].sale] = "draft"
      /\ \A u \in Workers :
            u # x /\ req[u] # Idle /\ req[u].sale = req[x].sale
                => req[u].op \in {"cancel", "return"}
    BY <1>1 DEF EditsAlone
<1>5. status'[req[x].sale] = "draft"
    BY <1>1, <1>3, <1>4
<1> QED BY <1>1, <1>2, <1>4, <1>5

LEMMA EditsStep ==
    ASSUME ~OverlappingEdits, LifeInv, EditsAlone, [Next]_vars
    PROVE  EditsAlone'
<1> TypeOK /\ SeenConfirmed
    BY DEF LifeInv
<1>1. ASSUME NEW w \in Workers, NEW op \in Ops, NEW s \in Sales, Load(w, op, s)
      PROVE  EditsAlone'
    <2>1. UNCHANGED status
        BY <1>1 DEF Load, rows
    <2>2. /\ req'[w] = [op |-> op, sale |-> s, seen |-> status[s]]
          /\ \A u \in Workers : u # w => req'[u] = req[u]
        BY <1>1 DEF Load, TypeOK
    <2>3. op \in Edits => status[s] = "draft" /\ ~InFlight(s, Edits \cup {"confirm"})
        BY <1>1 DEF Load, ViewAccepts, MayOverlap, Edits
    <2>4. op = "confirm" => ~InFlight(s, Edits)
        BY <1>1 DEF Load, MayOverlap
    <2>5. \A u \in Workers : req[u] # Idle => req[u].op \in Ops
        BY DEF TypeOK, Request
    <2> SUFFICES ASSUME NEW x \in Workers, req'[x] # Idle, req'[x].op \in Edits
                 PROVE  /\ status[req'[x].sale] = "draft"
                        /\ \A u \in Workers :
                              u # x /\ req'[u] # Idle /\ req'[u].sale = req'[x].sale
                                  => req'[u].op \in {"cancel", "return"}
        BY <2>1 DEF EditsAlone
    <2>6. CASE x = w
        BY <2>2, <2>3, <2>5, <2>6 DEF InFlight, Ops
    <2>7. CASE x # w
        <3>1. req[x] # Idle /\ req[x].op \in Edits /\ req'[x] = req[x]
            BY <2>2, <2>7
        <3>2. status[req[x].sale] = "draft"
            BY <3>1 DEF EditsAlone
        <3>3. s = req[x].sale => op \in {"cancel", "return"}
            BY <2>3, <2>4, <3>1 DEF InFlight, Ops
        <3> QED BY <2>2, <2>7, <3>1, <3>2, <3>3 DEF EditsAlone
    <2> QED BY <2>6, <2>7
<1>2. ASSUME NEW w \in Workers, CartStep(w) PROVE EditsAlone'
    <2>1. Finish(w) /\ UNCHANGED status
        BY <1>2 DEF CartStep, ItemAdd, ItemRemove, Restore, SetCart
    <2> QED BY <2>1, EditsFinish
<1>3. ASSUME NEW w \in Workers, ServiceStep(w) PROVE EditsAlone'
    <2>1. ASSUME NEW hist \in BOOLEAN, Confirm(w, hist) PROVE EditsAlone'
        BY <2>1, EditsFinish DEF Confirm, Serving, TypeOK
    <2>2. ASSUME Cancel(w) PROVE EditsAlone'
        BY <2>2, EditsFinish DEF Cancel, CanCancel, TypeOK
    <2>3. ASSUME NEW back \in Carts, Return(w, back) PROVE EditsAlone'
        BY <2>3, EditsFinish DEF Return, CanReturn, TypeOK
    <2>4. ASSUME Refuse(w) PROVE EditsAlone'
        BY <2>4, EditsFinish DEF Refuse, rows
    <2> QED BY <1>3, <2>1, <2>2, <2>3, <2>4 DEF ServiceStep
<1>4. ASSUME UNCHANGED req, \A s \in Sales : status[s] = "draft" => status'[s] = "draft"
      PROVE  EditsAlone'
    <2>1. \A w \in Workers : req[w] # Idle => req[w].sale \in Sales
        BY DEF TypeOK, Request
    <2> QED BY <1>4, <2>1 DEF EditsAlone
<1>5. ASSUME NEW s \in Sales, NewDraft(s) PROVE EditsAlone'
    BY <1>4, <1>5 DEF NewDraft, TypeOK
<1>6. ASSUME NEW s \in Sales, NEW cart \in Carts, HandOver(s, cart) PROVE EditsAlone'
    BY <1>4, <1>6 DEF HandOver, TypeOK
<1>7. ASSUME StockStep PROVE EditsAlone'
    <2>1. UNCHANGED <<status, req>>
        BY <1>7 DEF StockStep, Receive, WriteOff, Recount, MoveStock, Promise, rows
    <2> QED BY <1>4, <2>1
<1>8. CASE UNCHANGED vars
    BY <1>4, <1>8 DEF vars, rows
<1> QED BY <1>1, <1>2, <1>3, <1>5, <1>6, <1>7, <1>8 DEF Next

LEMMA LedgerStep ==
    ASSUME ~OverlappingEdits, LedgerInv, [Next]_vars
    PROVE  LedgerInv'
<1> SUFFICES LedgerMatchesLines' /\ BilledMatchesLines'
    BY LifeStep, EditsStep DEF LedgerInv
<1> TypeOK /\ SeenConfirmed /\ HistoricalIsClosed
    BY DEF LedgerInv, LifeInv
<1> EditsAlone /\ LedgerMatchesLines /\ BilledMatchesLines
    BY DEF LedgerInv
<1>1. ASSUME NEW w \in Workers, CartStep(w) PROVE LedgerMatchesLines' /\ BilledMatchesLines'
    <2> DEFINE s == req[w].sale
    <2>1. /\ UNCHANGED <<status, historical, billed, sold>>
          /\ \A t \in Sales : t # s => lines'[t] = lines[t]
          /\ req[w] # Idle /\ req[w].op \in Edits
        BY <1>1 DEF CartStep, ItemAdd, ItemRemove, Restore, SetCart, Serving, Edits,
                    ledger, TypeOK
    <2>2. status[s] = "draft"
        BY <2>1 DEF EditsAlone
    <2> QED BY <2>1, <2>2 DEF LedgerMatchesLines, BilledMatchesLines
<1>2. ASSUME NEW w \in Workers, NEW hist \in BOOLEAN, Confirm(w, hist)
      PROVE  LedgerMatchesLines' /\ BilledMatchesLines'
    <2> DEFINE s == req[w].sale
    <2>1. s \in Sales
        BY <1>2, ServingRequest DEF Confirm, Ops
    <2>2. lines[s] \in [Variants -> Int]
        BY <2>1 DEF TypeOK
    <2>3. /\ sold'[s] = IF hist THEN sold[s] ELSE Plus(sold[s], lines[s])
          /\ \A t \in Sales : t # s => sold'[t] = sold[t]
        BY <1>2, <2>1, <2>2, TakeSold DEF Confirm
    <2>4. status[s] = "draft" /\ ~historical[s]
        BY <1>2, <2>1 DEF Confirm, CanConfirm, HistoricalIsClosed
    <2>5. sold[s] = NoUnits
        BY <2>1, <2>4 DEF LedgerMatchesLines
    <2>6. status'[s] = "confirmed" /\ historical'[s] = hist /\ billed'[s] = lines[s]
        BY <1>2, <2>1, <2>4 DEF Confirm, TypeOK
    <2>7. /\ UNCHANGED lines
          /\ \A t \in Sales : t # s =>
                /\ status'[t] = status[t] /\ historical'[t] = historical[t]
                /\ billed'[t] = billed[t]
        BY <1>2 DEF Confirm, TypeOK
    <2>8. sold'[s] = IF hist THEN NoUnits ELSE lines[s]
        BY <2>2, <2>3, <2>5, UnitSums
    <2> QED BY <2>1, <2>3, <2>6, <2>7, <2>8 DEF LedgerMatchesLines, BilledMatchesLines
<1>3. ASSUME NEW w \in Workers, Cancel(w) PROVE LedgerMatchesLines' /\ BilledMatchesLines'
    <2> DEFINE s == req[w].sale
    <2>1. s \in Sales
        BY <1>3, ServingRequest DEF Cancel, Ops
    <2>2. lines[s] \in [Variants -> Int] /\ historical[s] \in BOOLEAN
        BY <2>1 DEF TypeOK
    <2>3. Negated(lines[s]) \in [Variants -> Int]
        BY <2>2, CartPlus
    <2>4. /\ sold'[s] = IF historical[s] THEN sold[s] ELSE Plus(sold[s], Negated(lines[s]))
          /\ \A t \in Sales : t # s => sold'[t] = sold[t]
        BY <1>3, <2>1, <2>2, <2>3, TakeSold DEF Cancel
    <2>5. sold[s] = IF historical[s] THEN NoUnits ELSE lines[s]
        BY <1>3, <2>1 DEF Cancel, CanCancel, LedgerMatchesLines
    <2>6. sold'[s] = NoUnits
        BY <2>2, <2>4, <2>5, UnitSums
    <2>7. /\ status'[s] = "cancelled" /\ UNCHANGED <<historical, lines, billed>>
          /\ \A t \in Sales : t # s => status'[t] = status[t]
        BY <1>3, <2>1 DEF Cancel, TypeOK
    <2> QED BY <2>1, <2>4, <2>6, <2>7 DEF LedgerMatchesLines, BilledMatchesLines
<1>4. ASSUME NEW w \in Workers, NEW back \in Carts, Return(w, back)
      PROVE  LedgerMatchesLines' /\ BilledMatchesLines'
    <2> DEFINE s    == req[w].sale
               left == Minus(lines[s], back)
    <2>1. s \in Sales
        BY <1>4, ServingRequest DEF Return, Ops
    <2>2. lines[s] \in [Variants -> Int] /\ historical[s] \in BOOLEAN
        BY <2>1 DEF TypeOK
    <2>3. back \in [Variants -> Int] /\ Negated(back) \in [Variants -> Int]
        BY CartsAreUnits, CartPlus
    <2>4. /\ sold'[s] = IF historical[s] THEN sold[s] ELSE Plus(sold[s], Negated(back))
          /\ \A t \in Sales : t # s => sold'[t] = sold[t]
        BY <1>4, <2>1, <2>2, <2>3, TakeSold DEF Return
    <2>5. sold[s] = IF historical[s] THEN NoUnits ELSE lines[s]
        BY <1>4, <2>1 DEF Return, CanReturn, LedgerMatchesLines
    <2>6. sold'[s] = IF historical[s] THEN NoUnits ELSE left
        BY <2>2, <2>3, <2>4, <2>5, UnitSums
    <2>7. /\ lines'[s] = left /\ billed'[s] = left
          /\ status'[s] = IF left = NoUnits THEN "cancelled" ELSE "confirmed"
          /\ UNCHANGED historical
          /\ \A t \in Sales : t # s =>
                /\ status'[t] = status[t] /\ lines'[t] = lines[t]
                /\ billed'[t] = billed[t]
        BY <1>4, <2>1 DEF Return, SeenConfirmed, TypeOK
    <2> QED BY <2>1, <2>4, <2>6, <2>7 DEF LedgerMatchesLines, BilledMatchesLines
<1>5. ASSUME NEW s \in Sales, NEW cart \in Carts, HandOver(s, cart)
      PROVE  LedgerMatchesLines' /\ BilledMatchesLines'
    <2>1. cart \in [Variants -> Int]
        BY CartsAreUnits
    <2>2. /\ sold'[s] = Plus(sold[s], cart)
          /\ \A t \in Sales : t # s => sold'[t] = sold[t]
        BY <1>5, <2>1, TakeSold DEF HandOver
    <2>3. sold[s] = NoUnits /\ ~historical[s]
        BY <1>5 DEF HandOver, LedgerMatchesLines, HistoricalIsClosed
    <2>4. sold'[s] = cart
        BY <2>1, <2>2, <2>3, UnitSums
    <2>5. /\ status'[s] = "confirmed" /\ lines'[s] = cart /\ billed'[s] = cart
          /\ UNCHANGED historical
          /\ \A t \in Sales : t # s =>
                /\ status'[t] = status[t] /\ lines'[t] = lines[t]
                /\ billed'[t] = billed[t]
        BY <1>5 DEF HandOver, TypeOK
    <2> QED BY <2>2, <2>3, <2>4, <2>5 DEF LedgerMatchesLines, BilledMatchesLines
<1>6. ASSUME NEW s \in Sales, NewDraft(s) PROVE LedgerMatchesLines' /\ BilledMatchesLines'
    BY <1>6 DEF NewDraft, LedgerMatchesLines, BilledMatchesLines, TypeOK, ledger
<1>7. ASSUME UNCHANGED <<rows, sold>> PROVE LedgerMatchesLines' /\ BilledMatchesLines'
    BY <1>7 DEF rows, LedgerMatchesLines, BilledMatchesLines
<1>8. ASSUME NEW w \in Workers, NEW op \in Ops, NEW s \in Sales, Load(w, op, s)
      PROVE  UNCHANGED <<rows, sold>>
    BY <1>8 DEF Load, ledger
<1>9. ASSUME StockStep PROVE UNCHANGED <<rows, sold>>
    BY <1>9 DEF StockStep, Receive, WriteOff, Recount, MoveStock, Promise, ledger
<1>10. ASSUME NEW w \in Workers, Refuse(w) PROVE UNCHANGED <<rows, sold>>
    BY <1>10 DEF Refuse, ledger
<1>11. CASE UNCHANGED vars
    BY <1>7, <1>11 DEF vars, ledger
<1> QED BY <1>1, <1>2, <1>3, <1>4, <1>5, <1>6, <1>7, <1>8, <1>9, <1>10, <1>11
        DEF Next, ServiceStep

\* The ledger and the sale rows agree: what confirm_sale, cancel_sale,
\* return_items and hand_over have moved for a sale is exactly what its lines
\* say, and the stored total is the total of those lines.
THEOREM LedgerMatches ==
    ASSUME ~OverlappingEdits
    PROVE  Spec => [](LedgerMatchesLines /\ BilledMatchesLines)
<1>1. LedgerInv /\ [Next]_vars => LedgerInv'
    BY LedgerStep
<1>2. LedgerInv => LedgerMatchesLines /\ BilledMatchesLines
    BY DEF LedgerInv
<1> QED BY <1>1, <1>2, LedgerInit, PTL DEF Spec

\* The stored total alone, as the pages and the statements read it.
THEOREM BilledMatches ==
    ASSUME ~OverlappingEdits
    PROVE  Spec => []BilledMatchesLines
<1>1. LedgerMatchesLines /\ BilledMatchesLines => BilledMatchesLines
    OBVIOUS
<1> QED BY <1>1, LedgerMatches, PTL

-----------------------------------------------------------------------------
(* What may change the lines of a confirmed sale. *)

LEMMA ReturnShrinks ==
    ASSUME TypeOK, SeenConfirmed, NEW w \in Workers, NEW back \in Carts,
           Return(w, back), NEW s \in Sales, NEW v \in Variants
    PROVE  /\ lines'[s][v] <= lines[s][v]
           /\ ~historical[s] /\ lines'[s][v] # lines[s][v] =>
                 onHand'[v] - onHand[v] = lines[s][v] - lines'[s][v]
<1> DEFINE t == req[w].sale
<1>1. t \in Sales
    BY ServingRequest DEF Return, Ops
<1>2. lines[t] \in [Variants -> Nat] /\ lines[s] \in [Variants -> Nat]
    BY <1>1 DEF TypeOK
<1>3. back \in [Variants -> Nat]
    BY CartsAreUnits
<1>4. CASE s # t
    <2>1. lines'[s] = lines[s]
        BY <1>4 DEF Return, TypeOK
    <2> QED BY <1>2, <2>1
<1>5. CASE s = t
    <2>1. lines'[s][v] = lines[s][v] - back[v]
        BY <1>1, <1>5 DEF Return, Minus, TypeOK
    <2>2. ~historical[s] => onHand'[v] = onHand[v] + back[v]
        <3>1. SUFFICES ASSUME ~historical[s]
                       PROVE  onHand'[v] = onHand[v] + back[v]
            OBVIOUS
        <3>2. onHand' = Minus(onHand, Negated(back))
            BY <1>5, <3>1 DEF Return, Take
        <3>3. onHand'[v] = onHand[v] - (-back[v])
            BY <3>2 DEF Minus, Negated
        <3> QED BY <1>3, <3>3 DEF TypeOK
    <2>3. back[v] \in Nat /\ lines[s][v] \in Nat /\ onHand[v] \in Int
        BY <1>2, <1>3 DEF TypeOK
    <2> QED BY <2>1, <2>2, <2>3
<1> QED BY <1>4, <1>5

\* No step but a return changes a confirmed sale's lines: the edits of carts
\* are on drafts, the services leave the lines alone, and a hand-over writes
\* the lines of a sale that did not exist.
LEMMA OthersKeepLines ==
    ASSUME LedgerInv, Next,
           \A w \in Workers, back \in Carts : ~Return(w, back),
           NEW s \in Sales, status[s] = "confirmed"
    PROVE  lines'[s] = lines[s]
<1> TypeOK /\ EditsAlone
    BY DEF LedgerInv, LifeInv
<1>1. ASSUME NEW w \in Workers, CartStep(w) PROVE lines'[s] = lines[s]
    <2>1. /\ \A t \in Sales : t # req[w].sale => lines'[t] = lines[t]
          /\ req[w] # Idle /\ req[w].op \in Edits
        BY <1>1 DEF CartStep, ItemAdd, ItemRemove, Restore, SetCart, Serving, Edits, TypeOK
    <2>2. status[req[w].sale] = "draft"
        BY <2>1 DEF EditsAlone
    <2> QED BY <2>1, <2>2
<1>2. ASSUME NEW w \in Workers, ServiceStep(w) PROVE lines'[s] = lines[s]
    <2>1. UNCHANGED lines
        BY <1>2 DEF ServiceStep, Confirm, Cancel, Refuse, rows
    <2> QED BY <2>1
<1>3. ASSUME NEW t \in Sales, NEW cart \in Carts, HandOver(t, cart)
      PROVE  lines'[s] = lines[s]
    BY <1>3 DEF HandOver, TypeOK
<1>4. ASSUME StockStep PROVE lines'[s] = lines[s]
    BY <1>4 DEF StockStep, Receive, WriteOff, Recount, MoveStock, Promise, rows
<1>5. ASSUME NEW t \in Sales, NewDraft(t) PROVE lines'[s] = lines[s]
    BY <1>5 DEF NewDraft
<1>6. ASSUME NEW w \in Workers, NEW op \in Ops, NEW t \in Sales, Load(w, op, t)
      PROVE  lines'[s] = lines[s]
    BY <1>6 DEF Load, rows
<1> QED BY <1>1, <1>2, <1>3, <1>4, <1>5, <1>6 DEF Next

\* A confirmed sale changes only by return_items, and by no more than goes
\* back to the stock in the same transaction (undo.py:11 says that nothing
\* there can touch a confirmed sale; run sales_undo shows why this needs the
\* edits to be alone).
THEOREM ConfirmedOnlyReturns ==
    ASSUME ~OverlappingEdits
    PROVE  Spec => ConfirmedLinesOnlyReturn
<1>1. LedgerInv /\ [Next]_vars =>
          [\A s \in Sales, v \in Variants :
              status[s] = "confirmed" =>
                  /\ lines'[s][v] <= lines[s][v]
                  /\ ~historical[s] /\ lines'[s][v] # lines[s][v] =>
                        onHand'[v] - onHand[v] = lines[s][v] - lines'[s][v]]_vars
    <2> SUFFICES ASSUME LedgerInv, Next, NEW s \in Sales, NEW v \in Variants,
                        status[s] = "confirmed"
                 PROVE  /\ lines'[s][v] <= lines[s][v]
                        /\ ~historical[s] /\ lines'[s][v] # lines[s][v] =>
                              onHand'[v] - onHand[v] = lines[s][v] - lines'[s][v]
        OBVIOUS
    <2> TypeOK /\ SeenConfirmed
        BY DEF LedgerInv, LifeInv
    <2>1. CASE \E w \in Workers, back \in Carts : Return(w, back)
        BY <2>1, ReturnShrinks
    <2>2. CASE \A w \in Workers, back \in Carts : ~Return(w, back)
        <3>1. lines'[s] = lines[s]
            BY <2>2, OthersKeepLines
        <3>2. lines[s][v] \in Nat
            BY DEF TypeOK
        <3> QED BY <3>1, <3>2
    <2> QED BY <2>1, <2>2
<1>2. LedgerInv /\ [Next]_vars => LedgerInv'
    BY LedgerStep
<1> QED BY <1>1, <1>2, LedgerInit, PTL DEF Spec, ConfirmedLinesOnlyReturn

-----------------------------------------------------------------------------
(* What a sale may take. *)

\* confirm_sale and hand_over take nothing that is not on hand beyond the
\* reservations of the (other) open orders: whatever the stock forms do in
\* between, and however requests overlap, no sale oversells.
THEOREM NoOversell == Spec => SalesTakeOnlyAvailable
<1>1. TypeOK /\ [Next]_vars =>
          [\A s \in Sales, v \in Variants :
              sold'[s][v] > sold[s][v] => onHand'[v] >= reserved'[v]]_vars
    <2> SUFFICES ASSUME TypeOK, Next, NEW s \in Sales, NEW v \in Variants,
                        sold'[s][v] > sold[s][v]
                 PROVE  onHand'[v] >= reserved'[v]
        OBVIOUS
    <2>1. sold[s][v] \in Int /\ ~(sold[s][v] > sold[s][v])
        BY DEF TypeOK
    <2>2. ASSUME NEW w \in Workers, NEW hist \in BOOLEAN, Confirm(w, hist)
          PROVE  onHand'[v] >= reserved'[v]
        <3> DEFINE t == req[w].sale
        <3>1. t \in Sales
            BY <2>2, ServingRequest DEF Confirm, Ops
        <3>2. lines[t] \in [Variants -> Nat]
            BY <3>1 DEF TypeOK
        <3>3. ~hist /\ s = t
            BY <2>1, <2>2, <3>1 DEF Confirm, Take, ledger, TypeOK
        <3>4. /\ sold'[s][v] = sold[s][v] + lines[t][v]
              /\ onHand'[v] = onHand[v] - lines[t][v]
              /\ reserved'[v] = reserved[v]
            BY <2>2, <3>1, <3>3 DEF Confirm, Take, Plus, Minus, TypeOK
        <3>5. lines[t][v] > 0
            BY <2>1, <3>2, <3>4
        <3>6. lines[t][v] <= onHand[v] - reserved[v]
            BY <2>2, <3>3, <3>5 DEF Confirm, CanConfirm, Covered, Available
        <3>7. onHand[v] \in Int /\ reserved[v] \in Nat /\ lines[t][v] \in Nat
            BY <3>2 DEF TypeOK
        <3> QED BY <3>4, <3>6, <3>7
    <2>3. ASSUME NEW t \in Sales, NEW units \in [Variants -> Int],
                 \A u \in Variants : units[u] <= 0,
                 NEW hist \in BOOLEAN, Take(t, units, hist)
          PROVE  FALSE
        <3>1. sold'[s][v] = sold[s][v] \/ sold'[s][v] = sold[s][v] + units[v]
            BY <2>3 DEF Take, Plus, ledger, TypeOK
        <3>2. units[v] \in Int /\ units[v] <= 0
            BY <2>3
        <3> QED BY <2>1, <3>1, <3>2
    <2>4. ASSUME NEW w \in Workers, Cancel(w) PROVE FALSE
        <3> DEFINE t == req[w].sale
        <3>1. t \in Sales
            BY <2>4, ServingRequest DEF Cancel, Ops
        <3>2. lines[t] \in [Variants -> Nat] /\ historical[t] \in BOOLEAN
            BY <3>1 DEF TypeOK
        <3>3. Negated(lines[t]) \in [Variants -> Int]
            BY <3>2, CartPlus
        <3>4. \A u \in Variants : Negated(lines[t])[u] <= 0
            BY <3>2 DEF Negated
        <3> QED BY <2>3, <2>4, <3>1, <3>2, <3>3, <3>4 DEF Cancel
    <2>5. ASSUME NEW w \in Workers, NEW back \in Carts, Return(w, back) PROVE FALSE
        <3> DEFINE t == req[w].sale
        <3>1. t \in Sales
            BY <2>5, ServingRequest DEF Return, Ops
        <3>2. back \in [Variants -> Nat] /\ historical[t] \in BOOLEAN
            BY <3>1, CartsAreUnits DEF TypeOK
        <3>3. Negated(back) \in [Variants -> Int]
            BY <3>2, CartPlus
        <3>4. \A u \in Variants : Negated(back)[u] <= 0
            BY <3>2 DEF Negated
        <3> QED BY <2>3, <2>5, <3>1, <3>2, <3>3, <3>4 DEF Return
    <2>6. ASSUME NEW t \in Sales, NEW cart \in Carts, HandOver(t, cart)
          PROVE  onHand'[v] >= reserved'[v]
        <3>1. cart \in [Variants -> Nat]
            BY CartsAreUnits
        <3>2. s = t
            BY <2>1, <2>6 DEF HandOver, Take, TypeOK
        <3>3. /\ sold'[s][v] = sold[s][v] + cart[v]
              /\ onHand'[v] = onHand[v] - cart[v]
              /\ reserved'[v] = reserved[v] - cart[v]
            BY <2>6, <3>2 DEF HandOver, Take, Plus, Minus, TypeOK
        <3>4. cart[v] > 0
            BY <2>1, <3>1, <3>3
        <3>5. cart[v] <= onHand[v] - reserved[v] + cart[v]
            BY <2>6, <3>4 DEF HandOver, Available
        <3>6. onHand[v] \in Int /\ reserved[v] \in Nat /\ cart[v] \in Nat
            BY <3>1 DEF TypeOK
        <3> QED BY <3>3, <3>5, <3>6
    <2>7. ASSUME NEW w \in Workers, NEW op \in Ops, NEW t \in Sales, Load(w, op, t)
          PROVE  UNCHANGED sold
        BY <2>7 DEF Load, ledger
    <2>8. ASSUME NEW w \in Workers, CartStep(w) \/ Refuse(w) PROVE UNCHANGED sold
        BY <2>8 DEF CartStep, ItemAdd, ItemRemove, Restore, SetCart, Refuse, ledger
    <2>9. ASSUME NEW t \in Sales, NewDraft(t) PROVE UNCHANGED sold
        BY <2>9 DEF NewDraft, ledger
    <2>10. ASSUME StockStep PROVE UNCHANGED sold
        BY <2>10 DEF StockStep, Receive, WriteOff, Recount, MoveStock, Promise, ledger
    <2> QED BY <2>1, <2>2, <2>4, <2>5, <2>6, <2>7, <2>8, <2>9, <2>10 DEF Next, ServiceStep
<1> QED BY <1>1, TypeInit, TypeStep, PTL DEF Spec, SalesTakeOnlyAvailable

-----------------------------------------------------------------------------
(* The statements of the services: what a transaction has read is true. *)

\* A transaction is that of a service, holds the row of its sale, and the sale
\* still has the status that the service found under the lock.
Owns(w) ==
    /\ req[w] \in Request /\ req[w].op \in Services
    /\ w \in saleLock[req[w].sale]
    /\ status[req[w].sale] = IF req[w].op = "confirm" THEN "draft" ELSE "confirmed"

\* What a transaction can be by each of its statements.
StepFits(w) ==
    /\ tx[w].hist => req[w].op = "confirm"
    /\ At(w, "locking") \/ At(w, "reserved") => req[w].op = "confirm" /\ ~tx[w].hist
    /\ At(w, "inserted") =>
          /\ req[w].op # "confirm" /\ tx[w].back \in Carts
          /\ req[w].op = "cancel" => tx[w].back = tx[w].items
          /\ req[w].op = "return" => tx[w].back # NoUnits
                                     /\ \A v \in Variants : tx[w].back[v] <= tx[w].items[v]

\* A confirmation that has measured what is available.
Measured(w) == At(w, "ready") /\ req[w].op = "confirm" /\ ~tx[w].hist

\* What a transaction has read is still so, or is more by now.
ReadsFit(w) ==
    /\ ~At(w, "locked") => tx[w].items = lines[req[w].sale]
    /\ At(w, "reserved") \/ Measured(w) => Needed(w) \subseteq Held(w)
    /\ At(w, "reserved") => \A v \in Needed(w) : tx[w].avail[v] <= onHand[v]
    /\ Measured(w)       => \A v \in Needed(w) : tx[w].avail[v] <= Available(v)

TxFits(w) == tx[w] # NoTx => Owns(w) /\ StepFits(w) /\ ReadsFit(w)

\* FOR UPDATE admits one.
OneHolder ==
    /\ \A s \in Sales : \A u, w \in saleLock[s] : u = w
    /\ \A v \in Variants : \A u, w \in variantLock[v] : u = w

LockInv == LTypeOK /\ LedgerInv /\ OneHolder /\ \A w \in Workers : TxFits(w)

-----------------------------------------------------------------------------
(* Transactions *)

LEMMA OpenTx ==
    ASSUME LTypeOK, NEW w \in Workers
    PROVE  /\ At(w, "none") <=> tx[w] = NoTx
           /\ tx[w] # NoTx => tx[w] \in Tx /\ tx[w].pc \in Pcs
           /\ tx[w].pc \in Pcs => tx[w] \in Tx
<1>1. tx[w] \in Tx \cup {NoTx}
    BY DEF LTypeOK
<1>2. \A t \in Tx : t.pc \in Pcs
    BY DEF Tx
<1>3. NoTx.pc = "none" /\ "none" \notin Pcs
    BY DEF NoTx, Pcs
<1> QED BY <1>1, <1>2, <1>3 DEF At

\* A transaction fits as long as nobody takes its lock, changes its sale, or takes
\* away of what it holds.
LEMMA Undisturbed ==
    ASSUME LTypeOK, NEW u \in Workers, TxFits(u),
           tx'[u] = tx[u], tx[u] # NoTx => req'[u] = req[u],
           tx[u] # NoTx =>
              LET s == req[u].sale
              IN  /\ u \in saleLock[s] => u \in saleLock'[s]
                  /\ status'[s] = status[s]
                  /\ ~At(u, "locked") => lines'[s] = lines[s],
           \A v \in Variants : u \in variantLock[v] => u \in variantLock'[v],
           onHand' \in [Variants -> Int], reserved' \in [Variants -> Int],
           \A v \in Variants : u \in variantLock[v] => onHand'[v] >= onHand[v],
           \A v \in Variants : u \in variantLock[v] => reserved'[v] <= reserved[v]
    PROVE  TxFits(u)'
<1> SUFFICES ASSUME tx[u] # NoTx PROVE Owns(u)' /\ StepFits(u)' /\ ReadsFit(u)'
    BY DEF TxFits
<1>1. tx[u] \in Tx /\ Owns(u) /\ StepFits(u) /\ ReadsFit(u) /\ req'[u] = req[u]
    BY OpenTx DEF TxFits
<1>2. Owns(u)'
    BY <1>1 DEF Owns
<1>3. StepFits(u)'
    BY <1>1 DEF StepFits, At
<1>4. /\ \A pc \in Pcs : At(u, pc)' <=> At(u, pc)
      /\ Measured(u)' <=> Measured(u)
      /\ Needed(u)' = Needed(u) /\ Held(u) \subseteq Held(u)'
    BY <1>1 DEF At, Measured, Needed, Held
<1>5. \A v \in Held(u) : v \in Variants /\ onHand'[v] >= onHand[v] /\ Available(v)' >= Available(v)
    BY DEF Held, Available, LTypeOK, TypeOK
<1>6. /\ onHand \in [Variants -> Int] /\ reserved \in [Variants -> Int]
      /\ tx[u].avail \in [Variants -> Int]
    BY <1>1 DEF LTypeOK, TypeOK, Tx
<1>7. \A v \in Variants : Available(v) \in Int /\ Available(v)' \in Int
    BY <1>6 DEF Available
<1>8. At(u, "reserved") => \A v \in Needed(u) : tx[u].avail[v] <= onHand'[v]
    BY <1>1, <1>5, <1>6 DEF ReadsFit
<1>9. Measured(u) => \A v \in Needed(u) : tx[u].avail[v] <= Available(v)'
    BY <1>1, <1>5, <1>6, <1>7 DEF ReadsFit
<1>10. ReadsFit(u)'
    BY <1>1, <1>4, <1>8, <1>9 DEF ReadsFit, Pcs
<1> QED BY <1>2, <1>3, <1>10

\* What the end of a transaction frees, nobody else loses.
LEMMA EndTxFrees ==
    ASSUME LTypeOK, NEW w \in Workers, EndTx(w)
    PROVE  /\ tx' \in [Workers -> Tx \cup {NoTx}] /\ saleLock' \in [Sales -> SUBSET Workers]
           /\ variantLock' \in [Variants -> SUBSET Workers]
           /\ productLock' \in [Products -> SUBSET Workers]
           /\ variantShare' \in [Variants -> SUBSET Workers]
           /\ tx'[w] = NoTx /\ \A u \in Workers \ {w} : tx'[u] = tx[u]
           /\ \A s \in Sales : saleLock'[s] = saleLock[s] \ {w}
           /\ \A v \in Variants : variantLock'[v] = variantLock[v] \ {w}
    BY DEF EndTx, LTypeOK

-----------------------------------------------------------------------------
(* Every statement is a step of SaleLedger or a stutter *)

LEMMA ServiceRequest ==
    ASSUME LockInv, NEW w \in Workers, tx[w] # NoTx
    PROVE  /\ req[w] # Idle /\ req[w] \in Request /\ req[w].sale \in Sales
           /\ req[w].op \in Services /\ Serving(w, req[w].op)
           /\ tx[w] \in Tx
           /\ Owns(w) /\ StepFits(w) /\ ReadsFit(w)
<1>1. Owns(w) /\ StepFits(w) /\ ReadsFit(w) /\ tx[w] \in Tx
    BY OpenTx DEF LockInv, TxFits
<1>2. req[w] \in Request /\ req[w].op \in Services
    BY <1>1 DEF Owns
<1>3. req[w] # Idle /\ req[w].sale \in Sales
    BY <1>2 DEF Request, Idle, Services
<1> QED BY <1>1, <1>2, <1>3 DEF Serving

\* A worker between the locks of a service serves one.
LEMMA InTx ==
    ASSUME LockInv, NEW w \in Workers, NEW pc \in Pcs, At(w, pc)
    PROVE  tx[w] # NoTx
    BY DEF At, NoTx, Pcs

LEMMA RefuseIsStep ==
    ASSUME LockInv, NEW w \in Workers, NEW op \in Services, Serving(w, op),
           Finish(w), UNCHANGED <<rows, ledger, reserved>>
    PROVE  Next
<1>1. Refuse(w)
    BY DEF Refuse, Services
<1> QED BY <1>1 DEF ServiceStep, Next

LEMMA ConfirmIsStep ==
    ASSUME LockInv, NEW w \in Workers, CommitConfirm(w)
    PROVE  Next
<1> DEFINE s == req[w].sale
<1>1. At(w, "ready") /\ tx[w] # NoTx
    BY InTx DEF CommitConfirm, Pcs
<1>2. req[w].op = "confirm" /\ s \in Sales /\ tx[w].hist \in BOOLEAN
    BY <1>1, ServiceRequest DEF CommitConfirm, Serving, Tx
<1>3. tx[w].items = lines[s] /\ status[s] = "draft"
    BY <1>1, <1>2, ServiceRequest DEF ReadsFit, Owns, At
<1>4. tx[w].hist \/ Covered(lines[s])
    <2> SUFFICES ASSUME ~tx[w].hist, NEW v \in Variants, lines[s][v] > 0
                 PROVE  lines[s][v] <= Available(v)
        BY DEF Covered
    <2>1. Measured(w) /\ v \in Needed(w)
        BY <1>1, <1>2, <1>3 DEF Measured, Needed
    <2>2. tx[w].items[v] <= tx[w].avail[v] /\ tx[w].avail[v] <= Available(v)
        BY <1>1, <2>1, ServiceRequest DEF CommitConfirm, ReadsFit
    <2>3. /\ tx[w].items[v] \in Nat /\ tx[w].avail[v] \in Int
          /\ onHand[v] \in Int /\ reserved[v] \in Nat
        BY <1>1, ServiceRequest DEF Tx, LockInv, LTypeOK, TypeOK
    <2> QED BY <1>3, <2>2, <2>3 DEF Available
<1>5. CanConfirm(s, tx[w].hist)
    BY <1>3, <1>4 DEF CanConfirm, CommitConfirm
<1>6. Confirm(w, tx[w].hist)
    BY <1>3, <1>5 DEF Confirm, CommitConfirm
<1> QED BY <1>2, <1>6 DEF ServiceStep, Next

LEMMA CancelIsStep ==
    ASSUME LockInv, NEW w \in Workers, CommitCancel(w)
    PROVE  Next
<1>1. At(w, "inserted") /\ tx[w] # NoTx
    BY InTx DEF CommitCancel, Pcs
<1>2. req[w].op = "cancel"
    BY DEF CommitCancel, Serving
<1>3. tx[w].back = lines[req[w].sale] /\ status[req[w].sale] = "confirmed"
    BY <1>1, <1>2, ServiceRequest DEF StepFits, ReadsFit, Owns, At
<1>4. Cancel(w)
    BY <1>3 DEF Cancel, CommitCancel, CanCancel
<1> QED BY <1>4 DEF ServiceStep, Next

LEMMA ReturnIsStep ==
    ASSUME LockInv, NEW w \in Workers, CommitReturn(w)
    PROVE  /\ tx[w].back \in Carts /\ Return(w, tx[w].back)
           /\ Next
<1>1. At(w, "inserted") /\ tx[w] # NoTx
    BY InTx DEF CommitReturn, Pcs
<1>2. req[w].op = "return"
    BY DEF CommitReturn, Serving
<1>3. /\ tx[w].items = lines[req[w].sale] /\ status[req[w].sale] = "confirmed"
      /\ tx[w].back \in Carts /\ tx[w].back # NoUnits
      /\ \A v \in Variants : tx[w].back[v] <= tx[w].items[v]
    BY <1>1, <1>2, ServiceRequest DEF StepFits, ReadsFit, Owns, At
<1>4. Return(w, tx[w].back)
    BY <1>3 DEF Return, CommitReturn, CanReturn
<1> QED BY <1>3, <1>4 DEF ServiceStep, Next

LEMMA AbortIsStep ==
    ASSUME LockInv, NEW w \in Workers, Abort(w)
    PROVE  Next
<1>1. PICK u \in Workers : WaitsFor(w, u)
    BY DEF Abort, Ring
<1>2. CASE At(w, "none") /\ \E op \in Services : Serving(w, op)
    BY <1>2, RefuseIsStep DEF Abort
<1>3. CASE At(w, "locking") \/ At(w, "inserted")
    <2>1. tx[w] # NoTx
        BY <1>3, InTx DEF Pcs
    <2> QED BY <2>1, ServiceRequest, RefuseIsStep DEF Abort
<1> QED BY <1>1, <1>2, <1>3 DEF WaitsFor

LEMMA StatementIsStep ==
    ASSUME LockInv, NEW w \in Workers, Statement(w)
    PROVE  [Next]_vars
<1>1. ASSUME NEW hist \in BOOLEAN, LockSale(w, hist), req' # req PROVE Next
    <2>1. req[w].op \in Services /\ Serving(w, req[w].op)
        BY <1>1 DEF LockSale, Serving
    <2>2. Finish(w) /\ UNCHANGED <<rows, ledger, reserved>>
        BY <1>1 DEF LockSale, vars
    <2> QED BY <2>1, <2>2, RefuseIsStep
<1>2. ASSUME NEW hist \in BOOLEAN, LockSale(w, hist), req' = req PROVE UNCHANGED vars
    BY <1>2 DEF LockSale, vars
<1>3. CASE RollBack(w)
    <2>1. \E op \in Services : Serving(w, op)
        BY <1>3 DEF RollBack, Services
    <2> QED BY <1>3, <2>1, RefuseIsStep DEF RollBack
<1>4. ASSUME NEW v \in Variants, LockVariant(w, v) \/ LockProduct(w, v) \/ ShareVariant(w, v)
      PROVE  UNCHANGED vars
    BY <1>4 DEF LockVariant, LockProduct, ShareVariant
<1>5. CASE ReadItems(w) \/ ReadStock(w) \/ ReadReserved(w) \/ \E back \in Carts : GiveBack(w, back)
    BY <1>5 DEF ReadItems, ReadStock, ReadReserved, GiveBack
<1> QED BY <1>1, <1>2, <1>3, <1>4, <1>5, ConfirmIsStep, CancelIsStep, ReturnIsStep, AbortIsStep
        DEF Statement, Commit

LEMMA OneStatementIsStep ==
    ASSUME OneStatement
    PROVE  Next
<1>1. CASE Promise
    BY <1>1 DEF StockStep, Next
<1>2. ASSUME NEW v \in Variants, NEW q \in Units, Receive(v, q) \/ WriteOff(v, q)
      PROVE  Next
    BY <1>2 DEF StockStep, Next
<1>3. ASSUME NEW v \in Variants, NEW counted \in 0..MaxStock, Recount(v, counted)
      PROVE  Next
    BY <1>3 DEF StockStep, Next
<1> QED BY <1>1, <1>2, <1>3 DEF OneStatement, Next

-----------------------------------------------------------------------------
(* The invariant is kept: statements that read or lock *)

LEMMA RowsKept ==
    ASSUME ~OverlappingEdits, LockInv, [Next]_vars
    PROVE  LedgerInv' /\ TypeOK'
    BY LedgerStep DEF LockInv, LedgerInv, LifeInv

LEMMA Quiet ==
    ASSUME ~OverlappingEdits, LockInv, NEW w \in Workers, UNCHANGED vars,
           tx' \in [Workers -> Tx \cup {NoTx}],
           saleLock' \in [Sales -> SUBSET Workers],
           variantLock' \in [Variants -> SUBSET Workers],
           productLock' \in [Products -> SUBSET Workers],
           variantShare' \in [Variants -> SUBSET Workers],
           \A u \in Workers \ {w} : tx'[u] = tx[u],
           \A s \in Sales : saleLock[s] \subseteq saleLock'[s],
           \A v \in Variants : variantLock[v] \subseteq variantLock'[v],
           OneHolder', TxFits(w)'
    PROVE  LockInv'
<1>1. LTypeOK' /\ LedgerInv'
    BY RowsKept DEF LTypeOK
<1>2. UNCHANGED <<req, status, lines, onHand, reserved>>
    BY DEF vars, rows, ledger
<1>3. onHand \in [Variants -> Int] /\ reserved \in [Variants -> Nat]
    BY DEF LockInv, LTypeOK, TypeOK
<1>4. ASSUME NEW u \in Workers \ {w} PROVE TxFits(u)'
    <2>1. LTypeOK /\ TxFits(u)
        BY DEF LockInv
    <2>2. tx[u] # NoTx => req[u].sale \in Sales
        BY ServiceRequest
    <2>3. \A v \in Variants : onHand'[v] >= onHand[v] /\ reserved'[v] <= reserved[v]
        BY <1>2, <1>3
    <2>4. onHand' \in [Variants -> Int] /\ reserved' \in [Variants -> Int]
        BY <1>2, <1>3
    <2> QED BY <1>2, <2>1, <2>2, <2>3, <2>4, Undisturbed
<1> QED BY <1>1, <1>4 DEF LockInv

LEMMA LockSaleKeeps ==
    ASSUME ~OverlappingEdits, LockInv, NEW w \in Workers, NEW hist \in BOOLEAN,
           LockSale(w, hist), req' = req
    PROVE  LockInv'
<1> DEFINE s == req[w].sale
<1> LTypeOK /\ TypeOK /\ OneHolder
    BY DEF LockInv, LTypeOK
<1>1. req[w] \in Request /\ req[w] # Idle /\ s \in Sales /\ req[w].op \in Services
    BY DEF LockSale, TypeOK, Request
<1>2. ~Finish(w)
    BY <1>1 DEF Finish, TypeOK
<1>3. /\ UNCHANGED <<vars, variantLock, productLock, variantShare>>
      /\ saleLock' = [saleLock EXCEPT ![s] = @ \cup {w}] /\ saleLock[s] = {}
      /\ tx' = [tx EXCEPT ![w] = [pc |-> "locked", hist |-> hist, items |-> NoUnits,
                                  avail |-> NoUnits, back |-> NoUnits]]
      /\ status[s] = (IF req[w].op = "confirm" THEN "draft" ELSE "confirmed")
      /\ hist => req[w].op = "confirm"
    BY <1>2 DEF LockSale, Free
<1>4. [pc |-> "locked", hist |-> hist, items |-> NoUnits, avail |-> NoUnits,
       back |-> NoUnits] \in Tx
    BY NoUnitsIsCart DEF Tx, Pcs
<1>5. /\ tx' \in [Workers -> Tx \cup {NoTx}] /\ saleLock' \in [Sales -> SUBSET Workers]
      /\ \A u \in Workers \ {w} : tx'[u] = tx[u]
      /\ tx'[w].pc = "locked" /\ tx'[w].hist = hist
      /\ \A t \in Sales \ {s} : saleLock'[t] = saleLock[t]
      /\ saleLock'[s] = {w}
    BY <1>1, <1>3, <1>4 DEF LTypeOK
<1>6. OneHolder'
    BY <1>3, <1>5 DEF OneHolder
<1>7. UNCHANGED <<req, status>>
    BY <1>3 DEF vars, rows
<1>8. TxFits(w)'
    BY <1>1, <1>3, <1>5, <1>7 DEF TxFits, Owns, StepFits, ReadsFit, At, Measured
<1> HIDE DEF s
<1> QED BY <1>3, <1>5, <1>6, <1>8, Quiet DEF LTypeOK

\* The statements of an open transaction that change only the transaction.
LEMMA InsideKeeps ==
    ASSUME ~OverlappingEdits, LockInv, NEW w \in Workers, UNCHANGED <<vars, locks>>,
           NEW t \in Tx, tx' = [tx EXCEPT ![w] = t], TxFits(w)'
    PROVE  LockInv'
<1>1. tx' \in [Workers -> Tx \cup {NoTx}] /\ \A u \in Workers \ {w} : tx'[u] = tx[u]
    BY DEF LockInv, LTypeOK
<1>2. UNCHANGED <<saleLock, variantLock, productLock, variantShare>>
    BY DEF locks
<1>3. OneHolder'
    BY <1>2 DEF LockInv, OneHolder
<1> QED BY <1>1, <1>2, <1>3, Quiet DEF LockInv, LTypeOK

LEMMA ReadItemsKeeps ==
    ASSUME ~OverlappingEdits, LockInv, NEW w \in Workers, ReadItems(w)
    PROVE  LockInv'
<1> DEFINE next == IF req[w].op = "confirm" /\ ~tx[w].hist THEN "locking" ELSE "ready"
           t    == [tx[w] EXCEPT !.items = lines[req[w].sale], !.pc = next]
<1>1. tx[w] # NoTx
    BY InTx DEF ReadItems, Pcs
<1>2. /\ req[w].sale \in Sales /\ tx[w] \in Tx /\ Owns(w) /\ StepFits(w)
    BY <1>1, ServiceRequest
<1>3. lines[req[w].sale] \in [Variants -> Nat]
    BY <1>2 DEF LockInv, LTypeOK, TypeOK
<1>4. t \in Tx /\ t.pc = next /\ t.items = lines[req[w].sale] /\ t.hist = tx[w].hist
    BY <1>2, <1>3 DEF Tx, Pcs
<1>5. tx' = [tx EXCEPT ![w] = t] /\ UNCHANGED <<vars, locks>>
    BY DEF ReadItems, LockInv, LTypeOK
<1>6. tx'[w] = t
    BY <1>5 DEF LockInv, LTypeOK
<1>7. UNCHANGED <<req, status, lines, saleLock>>
    BY <1>5 DEF vars, rows, locks
<1> HIDE DEF t
<1>8. Owns(w)'
    BY <1>2, <1>7 DEF Owns
<1>9. StepFits(w)'
    BY <1>2, <1>4, <1>6, <1>7 DEF StepFits, At
<1>10. ReadsFit(w)'
    BY <1>4, <1>6, <1>7 DEF ReadsFit, Measured, At
<1>11. TxFits(w)'
    BY <1>8, <1>9, <1>10 DEF TxFits
<1> QED BY <1>4, <1>5, <1>11, InsideKeeps

LEMMA ReadStockKeeps ==
    ASSUME ~OverlappingEdits, LockInv, NEW w \in Workers, ReadStock(w)
    PROVE  LockInv'
<1> DEFINE t == [tx[w] EXCEPT !.avail = onHand, !.pc = "reserved"]
<1>1. tx[w] # NoTx
    BY InTx DEF ReadStock, Pcs
<1>2. tx[w] \in Tx /\ Owns(w) /\ StepFits(w) /\ ReadsFit(w)
    BY <1>1, ServiceRequest
<1>3. onHand \in [Variants -> Int]
    BY DEF LockInv, LTypeOK, TypeOK
<1>4. t \in Tx /\ t.pc = "reserved" /\ t.items = tx[w].items /\ t.hist = tx[w].hist
      /\ t.avail = onHand
    BY <1>2, <1>3 DEF Tx, Pcs
<1>5. tx' = [tx EXCEPT ![w] = t] /\ UNCHANGED <<vars, locks>>
    BY DEF ReadStock, LockInv, LTypeOK
<1>6. tx'[w] = t
    BY <1>5 DEF LockInv, LTypeOK
<1>7. UNCHANGED <<req, status, lines, onHand, saleLock, variantLock>>
    BY <1>5 DEF vars, rows, ledger, locks
<1> HIDE DEF t
<1>8. Owns(w)'
    BY <1>2, <1>7 DEF Owns
<1>9. StepFits(w)'
    BY <1>2, <1>4, <1>6, <1>7 DEF StepFits, At, ReadStock
<1>10. Needed(w)' = Needed(w) /\ Held(w)' = Held(w) /\ Needed(w) \subseteq Held(w)
    BY <1>4, <1>6, <1>7 DEF Needed, Held, ReadStock
<1>11. \A v \in Needed(w) : onHand[v] <= onHand[v]
    BY <1>3 DEF Needed
<1>12. ReadsFit(w)'
    BY <1>2, <1>4, <1>6, <1>7, <1>10, <1>11 DEF ReadsFit, Measured, At, ReadStock
<1>13. TxFits(w)'
    BY <1>8, <1>9, <1>12 DEF TxFits
<1> QED BY <1>4, <1>5, <1>13, InsideKeeps

LEMMA ReadReservedKeeps ==
    ASSUME ~OverlappingEdits, LockInv, NEW w \in Workers, ReadReserved(w)
    PROVE  LockInv'
<1> DEFINE t == [tx[w] EXCEPT !.avail = Minus(tx[w].avail, reserved), !.pc = "ready"]
<1>1. tx[w] # NoTx
    BY InTx DEF ReadReserved, Pcs
<1>2. tx[w] \in Tx /\ Owns(w) /\ StepFits(w) /\ ReadsFit(w)
    BY <1>1, ServiceRequest
<1>3. onHand \in [Variants -> Int] /\ reserved \in [Variants -> Nat]
      /\ tx[w].avail \in [Variants -> Int]
    BY <1>2 DEF LockInv, LTypeOK, TypeOK, Tx
<1>4. Minus(tx[w].avail, reserved) \in [Variants -> Int]
    BY <1>3 DEF Minus
<1>5. t \in Tx /\ t.pc = "ready" /\ t.items = tx[w].items /\ t.hist = tx[w].hist
      /\ t.avail = Minus(tx[w].avail, reserved)
    BY <1>2, <1>4 DEF Tx, Pcs
<1>6. tx' = [tx EXCEPT ![w] = t] /\ UNCHANGED <<vars, locks>>
    BY DEF ReadReserved, LockInv, LTypeOK
<1>7. tx'[w] = t
    BY <1>6 DEF LockInv, LTypeOK
<1>8. UNCHANGED <<req, status, lines, onHand, reserved, saleLock, variantLock>>
    BY <1>6 DEF vars, rows, ledger, locks
<1> HIDE DEF t
<1>9. Owns(w)'
    BY <1>2, <1>8 DEF Owns
<1>10. StepFits(w)'
    BY <1>2, <1>5, <1>7, <1>8 DEF StepFits, At, ReadReserved
<1>11. Needed(w)' = Needed(w) /\ Held(w)' = Held(w)
    BY <1>5, <1>7, <1>8 DEF Needed, Held
<1>12. /\ Needed(w) \subseteq Held(w)
       /\ \A v \in Needed(w) : tx[w].avail[v] <= onHand[v]
    BY <1>2 DEF ReadsFit, ReadReserved
<1>13. \A v \in Needed(w) : t.avail[v] <= Available(v)
    BY <1>3, <1>5, <1>12 DEF Needed, Minus, Available
<1>14. \A v \in Needed(w) : t.avail[v] <= Available(v)'
    BY <1>8, <1>13 DEF Available
<1>15. ReadsFit(w)'
    BY <1>2, <1>5, <1>7, <1>8, <1>11, <1>12, <1>14 DEF ReadsFit, Measured, At, ReadReserved
<1>16. TxFits(w)'
    BY <1>9, <1>10, <1>15 DEF TxFits
<1> QED BY <1>5, <1>6, <1>16, InsideKeeps

LEMMA GiveBackKeeps ==
    ASSUME ~OverlappingEdits, LockInv, NEW w \in Workers, NEW back \in Carts, GiveBack(w, back)
    PROVE  LockInv'
<1> DEFINE t == [tx[w] EXCEPT !.back = back, !.pc = "inserted"]
<1>1. tx[w] # NoTx
    BY InTx DEF GiveBack, Pcs
<1>2. tx[w] \in Tx /\ Owns(w) /\ StepFits(w) /\ ReadsFit(w)
    BY <1>1, ServiceRequest
<1>3. back \in [Variants -> Nat]
    BY CartsAreUnits
<1>4. t \in Tx /\ t.pc = "inserted" /\ t.items = tx[w].items /\ t.hist = tx[w].hist
      /\ t.back = back
    BY <1>2, <1>3 DEF Tx, Pcs
<1>5. tx' = [tx EXCEPT ![w] = t] /\ UNCHANGED <<vars, locks>>
    BY DEF GiveBack, LockInv, LTypeOK
<1>6. tx'[w] = t
    BY <1>5 DEF LockInv, LTypeOK
<1>7. UNCHANGED <<req, status, lines, saleLock>>
    BY <1>5 DEF vars, rows, locks
<1> HIDE DEF t
<1>8. Owns(w)'
    BY <1>2, <1>7 DEF Owns
<1>9. \/ req[w].op = "cancel" /\ back = tx[w].items
      \/ /\ req[w].op = "return" /\ back # NoUnits
         /\ \A v \in Variants : back[v] <= tx[w].items[v]
    BY DEF GiveBack, Serving
<1>10. StepFits(w)'
    BY <1>2, <1>4, <1>6, <1>7, <1>9 DEF StepFits, At
<1>11. tx[w].items = lines[req[w].sale]
    BY <1>2 DEF ReadsFit, GiveBack, At
<1>12. ReadsFit(w)'
    BY <1>4, <1>6, <1>7, <1>11 DEF ReadsFit, Measured, At
<1>13. TxFits(w)'
    BY <1>8, <1>10, <1>12 DEF TxFits
<1> QED BY <1>4, <1>5, <1>13, InsideKeeps

LEMMA LockRowKeeps ==
    ASSUME ~OverlappingEdits, LockInv, NEW w \in Workers, NEW v \in Variants,
           LockVariant(w, v) \/ LockProduct(w, v) \/ ShareVariant(w, v)
    PROVE  LockInv'
<1> LTypeOK /\ OneHolder /\ TxFits(w)
    BY DEF LockInv
<1>1. UNCHANGED <<vars, tx, saleLock>>
    BY DEF LockVariant, LockProduct, ShareVariant
<1>2. productLock' \in [Products -> SUBSET Workers] /\ variantShare' \in [Variants -> SUBSET Workers]
    BY DEF LockVariant, LockProduct, ShareVariant, LTypeOK
<1>3. /\ variantLock' \in [Variants -> SUBSET Workers]
      /\ \A u \in Variants : variantLock[u] \subseteq variantLock'[u]
      /\ \A u \in Variants : \A x, y \in variantLock'[u] : x = y
    <2>1. CASE UNCHANGED variantLock
        BY <2>1 DEF LTypeOK, OneHolder
    <2>2. CASE LockVariant(w, v)
        <3>1. variantLock[v] = {} /\ variantLock' = [variantLock EXCEPT ![v] = @ \cup {w}]
            BY <2>2 DEF LockVariant, Free
        <3> QED BY <3>1 DEF LTypeOK, OneHolder
    <2> QED BY <2>1, <2>2 DEF LockProduct, ShareVariant
<1>4. OneHolder'
    BY <1>1, <1>3 DEF OneHolder
<1>5. onHand' = onHand /\ reserved' = reserved /\ status' = status /\ lines' = lines
      /\ req' = req
    BY <1>1 DEF vars, rows, ledger
<1>6. onHand \in [Variants -> Int] /\ reserved \in [Variants -> Nat]
    BY DEF LTypeOK, TypeOK
<1>7. \A u \in Variants : onHand'[u] >= onHand[u] /\ reserved'[u] <= reserved[u]
    BY <1>5, <1>6
<1>8. onHand' \in [Variants -> Int] /\ reserved' \in [Variants -> Int]
    BY <1>5, <1>6
<1>9. TxFits(w)'
    BY <1>1, <1>3, <1>5, <1>7, <1>8, Undisturbed
<1> QED BY <1>1, <1>2, <1>3, <1>4, <1>9, Quiet DEF LTypeOK

-----------------------------------------------------------------------------
(* The invariant is kept: commits and rollbacks *)

\* The end of a transaction, when it leaves the sales, the stock and the
\* reservations that others have locked to them.
LEMMA EndKeeps ==
    ASSUME ~OverlappingEdits, LockInv, NEW w \in Workers, [Next]_vars, EndTx(w), Finish(w),
           UNCHANGED reserved,
           \A u \in Workers \ {w} :
              tx[u] # NoTx => /\ status'[req[u].sale] = status[req[u].sale]
                              /\ lines'[req[u].sale] = lines[req[u].sale],
           \A u \in Workers \ {w} : \A v \in Variants :
              u \in variantLock[v] => onHand'[v] >= onHand[v]
    PROVE  LockInv'
<1> LTypeOK
    BY DEF LockInv
<1>1. LedgerInv' /\ TypeOK'
    BY RowsKept
<1>2. LTypeOK'
    BY <1>1, EndTxFrees DEF LTypeOK
<1>3. OneHolder'
    BY EndTxFrees DEF OneHolder, LockInv
<1>4. TxFits(w)'
    BY EndTxFrees DEF TxFits
<1>5. reserved \in [Variants -> Nat] /\ onHand' \in [Variants -> Int]
    BY <1>1 DEF LTypeOK, TypeOK
<1>6. ASSUME NEW u \in Workers \ {w} PROVE TxFits(u)'
    <2>1. TxFits(u) /\ tx'[u] = tx[u]
        BY EndTxFrees DEF LockInv
    <2>2. req'[u] = req[u]
        BY DEF Finish, LTypeOK, TypeOK
    <2>3. tx[u] # NoTx => req[u].sale \in Sales
        BY ServiceRequest
    <2>4. \A s \in Sales : u \in saleLock[s] => u \in saleLock'[s]
        BY EndTxFrees
    <2>5. \A v \in Variants : u \in variantLock[v] => u \in variantLock'[v]
        BY EndTxFrees
    <2>6. reserved' \in [Variants -> Int] /\ \A v \in Variants : reserved'[v] <= reserved[v]
        BY <1>5
    <2> QED BY <1>5, <2>1, <2>2, <2>3, <2>4, <2>5, <2>6, Undisturbed
<1> QED BY <1>1, <1>2, <1>3, <1>4, <1>6 DEF LockInv

\* A locked sale is one worker's.
LEMMA OtherSale ==
    ASSUME LockInv, NEW u \in Workers, NEW w \in Workers, u # w, tx[u] # NoTx, tx[w] # NoTx
    PROVE  req[u].sale # req[w].sale
<1>1. u \in saleLock[req[u].sale] /\ w \in saleLock[req[w].sale] /\ req[u].sale \in Sales
    BY ServiceRequest DEF Owns
<1> QED BY <1>1 DEF LockInv, OneHolder

LEMMA ConfirmKeeps ==
    ASSUME ~OverlappingEdits, LockInv, NEW w \in Workers, CommitConfirm(w)
    PROVE  LockInv'
<1> DEFINE s == req[w].sale
<1>1. At(w, "ready") /\ tx[w] # NoTx
    BY InTx DEF CommitConfirm, Pcs
<1>2. /\ s \in Sales /\ tx[w] \in Tx /\ ReadsFit(w) /\ req[w].op = "confirm"
    BY <1>1, ServiceRequest DEF CommitConfirm, Serving
<1>3. \A u \in Workers \ {w} :
          tx[u] # NoTx => /\ status'[req[u].sale] = status[req[u].sale]
                          /\ lines'[req[u].sale] = lines[req[u].sale]
    BY <1>1, OtherSale, ServiceRequest DEF CommitConfirm, LockInv, LTypeOK, TypeOK
<1>4. ASSUME NEW u \in Workers \ {w}, NEW v \in Variants, u \in variantLock[v]
      PROVE  onHand'[v] >= onHand[v]
    <2>1. onHand[v] \in Int /\ tx[w].items[v] \in Nat
        BY <1>2 DEF LockInv, LTypeOK, TypeOK, Tx
    <2>2. CASE tx[w].hist
        BY <2>1, <2>2 DEF CommitConfirm, Take, ledger
    <2>3. CASE ~tx[w].hist
        <3>1. w \notin variantLock[v]
            BY <1>4 DEF LockInv, OneHolder
        <3>2. v \notin Needed(w)
            BY <1>1, <1>2, <2>3, <3>1 DEF ReadsFit, Measured, Held
        <3>3. tx[w].items[v] = 0
            BY <2>1, <3>2 DEF Needed
        <3>4. onHand'[v] = onHand[v] - tx[w].items[v]
            BY <2>3 DEF CommitConfirm, Take, Minus
        <3> QED BY <2>1, <3>3, <3>4
    <2> QED BY <2>2, <2>3
<1>5. Finish(w) /\ EndTx(w) /\ UNCHANGED reserved
    BY DEF CommitConfirm
<1> QED BY <1>3, <1>4, <1>5, ConfirmIsStep, EndKeeps

\* Units that come back take nothing from anybody.
LEMMA GivingBack ==
    ASSUME LockInv, NEW w \in Workers, tx[w] \in Tx, NEW s \in Sales,
           Take(s, Negated(tx[w].back), historical[s])
    PROVE  \A v \in Variants : onHand'[v] >= onHand[v]
<1> SUFFICES ASSUME NEW v \in Variants PROVE onHand'[v] >= onHand[v]
    OBVIOUS
<1>1. onHand[v] \in Int /\ tx[w].back[v] \in Nat
    BY DEF LockInv, LTypeOK, TypeOK, Tx
<1>2. CASE historical[s]
    BY <1>1, <1>2 DEF Take, ledger
<1>3. CASE ~historical[s]
    <2>1. onHand'[v] = onHand[v] - (-tx[w].back[v])
        BY <1>3 DEF Take, Minus, Negated
    <2> QED BY <1>1, <2>1
<1> QED BY <1>2, <1>3

LEMMA BackKeeps ==
    ASSUME ~OverlappingEdits, LockInv, NEW w \in Workers, CommitCancel(w) \/ CommitReturn(w)
    PROVE  LockInv'
<1> DEFINE s == req[w].sale
<1>1. tx[w] # NoTx
    BY InTx DEF CommitCancel, CommitReturn, Pcs
<1>2. s \in Sales /\ tx[w] \in Tx
    BY <1>1, ServiceRequest
<1>3. \A u \in Workers \ {w} :
          tx[u] # NoTx => /\ status'[req[u].sale] = status[req[u].sale]
                          /\ lines'[req[u].sale] = lines[req[u].sale]
    BY <1>1, OtherSale, ServiceRequest DEF CommitCancel, CommitReturn, LockInv, LTypeOK, TypeOK
<1>4. \A v \in Variants : onHand'[v] >= onHand[v]
    BY <1>2, GivingBack DEF CommitCancel, CommitReturn
<1>5. Finish(w) /\ EndTx(w) /\ UNCHANGED reserved
    BY DEF CommitCancel, CommitReturn
<1> QED BY <1>3, <1>4, <1>5, CancelIsStep, ReturnIsStep, EndKeeps

LEMMA RollBackKeeps ==
    ASSUME ~OverlappingEdits, LockInv, NEW w \in Workers, RollBack(w) \/ Abort(w)
    PROVE  LockInv'
<1>1. Finish(w) /\ EndTx(w) /\ UNCHANGED <<rows, ledger, reserved>>
    BY DEF RollBack, Abort
<1>2. [Next]_vars
    BY StatementIsStep DEF Statement, Commit
<1>3. \A v \in Variants : onHand'[v] >= onHand[v]
    BY <1>1 DEF ledger, LockInv, LTypeOK, TypeOK
<1> QED BY <1>1, <1>2, <1>3, EndKeeps DEF rows

-----------------------------------------------------------------------------
(* The invariant is kept: what is one statement *)

LEMMA OutsideKeeps ==
    ASSUME ~OverlappingEdits, LockInv, [Next]_vars, UNCHANGED <<tx, locks>>,
           \A u \in Workers :
              tx[u] # NoTx => /\ req'[u] = req[u]
                              /\ status'[req[u].sale] = status[req[u].sale]
                              /\ lines'[req[u].sale] = lines[req[u].sale],
           \A v \in Variants : variantLock[v] # {} => /\ onHand'[v] >= onHand[v]
                                                      /\ reserved'[v] <= reserved[v]
    PROVE  LockInv'
<1>1. LedgerInv' /\ TypeOK'
    BY RowsKept
<1>2. LTypeOK' /\ OneHolder'
    BY <1>1 DEF LockInv, LTypeOK, OneHolder, locks
<1>3. reserved' \in [Variants -> Int] /\ onHand' \in [Variants -> Int]
    BY <1>1 DEF TypeOK
<1>4. ASSUME NEW u \in Workers PROVE TxFits(u)'
    <2>1. LTypeOK /\ TxFits(u) /\ tx'[u] = tx[u] /\ saleLock' = saleLock /\ variantLock' = variantLock
        BY DEF LockInv, locks
    <2> QED BY <1>3, <2>1, Undisturbed
<1> QED BY <1>1, <1>2, <1>4 DEF LockInv

\* A cart edit is not a service, and while it is alone with its draft no service
\* has the draft locked.
LEMMA EditIsOutside ==
    ASSUME LockInv, NEW w \in Workers, req[w] # Idle, req[w].op \in Edits, Finish(w),
           NEW u \in Workers, tx[u] # NoTx
    PROVE  req'[u] = req[u] /\ req[u].sale # req[w].sale
<1>1. /\ req[u] # Idle /\ req[u].op \in Services /\ Owns(u)
    BY ServiceRequest
<1>2. u # w
    BY <1>1 DEF Edits, Services
<1>3. req'[u] = req[u]
    BY <1>2 DEF Finish, LockInv, LTypeOK, TypeOK
<1>4. ASSUME req[u].sale = req[w].sale PROVE FALSE
    <2>1. status[req[w].sale] = "draft" /\ req[u].op \in {"cancel", "return"}
        BY <1>1, <1>2, <1>4 DEF LockInv, LedgerInv, EditsAlone
    <2>2. status[req[u].sale] = "confirmed"
        BY <1>1, <2>1 DEF Owns
    <2> QED BY <1>4, <2>1, <2>2
<1> QED BY <1>3, <1>4

LEMMA OneStatementKeeps ==
    ASSUME ~OverlappingEdits, LockInv, OneStatement, UNCHANGED <<tx, locks>>
    PROVE  LockInv'
<1> TypeOK
    BY DEF LockInv, LTypeOK
<1>1. /\ onHand \in [Variants -> Int] /\ reserved \in [Variants -> Nat]
      /\ MaxUnits \in Nat /\ MaxStock \in Nat
    BY LedgerAssumption DEF TypeOK
<1>2. [Next]_vars
    BY OneStatementIsStep
<1>3. ASSUME NEW w \in Workers, NEW op \in Ops, NEW s \in Sales, Load(w, op, s)
      PROVE  LockInv'
    <2>1. tx[w] = NoTx
        BY <1>3, ServiceRequest DEF Load
    <2>2. \A u \in Workers : tx[u] # NoTx => req'[u] = req[u]
        BY <1>3, <2>1 DEF Load, TypeOK
    <2>3. UNCHANGED <<status, lines, onHand, reserved>>
        BY <1>3 DEF Load, rows, ledger
    <2> QED BY <1>1, <1>2, <2>2, <2>3, OutsideKeeps
<1>4. ASSUME NEW w \in Workers, CartStep(w) PROVE LockInv'
    <2>1. /\ req[w] # Idle /\ req[w].op \in Edits
          /\ \E cart : SetCart(w, cart)
        BY <1>4 DEF CartStep, ItemAdd, ItemRemove, Restore, Serving, Edits
    <2>2. /\ Finish(w) /\ UNCHANGED <<status, onHand, reserved>>
          /\ \A s \in Sales : s # req[w].sale => lines'[s] = lines[s]
        BY <2>1 DEF SetCart, ledger, TypeOK
    <2>3. \A u \in Workers :
              tx[u] # NoTx => req'[u] = req[u] /\ lines'[req[u].sale] = lines[req[u].sale]
        BY <2>1, <2>2, EditIsOutside, ServiceRequest
    <2> QED BY <1>1, <1>2, <2>2, <2>3, OutsideKeeps
<1>5. ASSUME NEW s \in Sales, NewDraft(s) PROVE LockInv'
    <2>1. UNCHANGED <<req, lines, onHand, reserved>>
        BY <1>5 DEF NewDraft, ledger
    <2>2. \A u \in Workers : tx[u] # NoTx => req[u].sale \in Sales /\ req[u].sale # s
        BY <1>5, ServiceRequest DEF NewDraft, Owns
    <2>3. \A u \in Workers : tx[u] # NoTx => status'[req[u].sale] = status[req[u].sale]
        BY <1>5, <2>2 DEF NewDraft, TypeOK
    <2> QED BY <1>1, <1>2, <2>1, <2>3, OutsideKeeps
<1>6. ASSUME NEW v \in Variants, variantLock[v] = {}, NEW n \in Int, MoveStock(v, n)
      PROVE  LockInv'
    <2>1. UNCHANGED <<req, status, lines, reserved>>
        BY <1>6 DEF MoveStock, rows
    <2>2. \A u \in Variants : variantLock[u] # {} => onHand'[u] >= onHand[u]
        BY <1>1, <1>6 DEF MoveStock
    <2> QED BY <1>1, <1>2, <2>1, <2>2, OutsideKeeps
<1>7. ASSUME NEW v \in Variants, NEW q \in Units,
             ForeignKeyFree(v) /\ (Receive(v, q) \/ WriteOff(v, q))
      PROVE  LockInv'
    <2>1. variantLock[v] = {} /\ q \in Int /\ -q \in Int
        BY <1>1, <1>7 DEF ForeignKeyFree, Units
    <2>2. MoveStock(v, q) \/ MoveStock(v, -q)
        BY <1>7 DEF Receive, WriteOff
    <2> QED BY <1>6, <2>1, <2>2
<1>8. ASSUME NEW v \in Variants, NEW counted \in 0..MaxStock,
             variantLock[v] \cup variantShare[v] = {} /\ Recount(v, counted)
      PROVE  LockInv'
    <2>1. variantLock[v] = {} /\ counted - onHand[v] \in Int
        BY <1>1, <1>8
    <2>2. MoveStock(v, counted - onHand[v])
        BY <1>8 DEF Recount
    <2> QED BY <1>6, <2>1, <2>2
<1>9. ASSUME Promise, \A v \in Variants : reserved'[v] > reserved[v] => ForeignKeyFree(v)
      PROVE  LockInv'
    <2>1. UNCHANGED <<req, status, lines, onHand>>
        BY <1>9 DEF Promise, rows, ledger
    <2>2. \A v \in Variants : reserved'[v] \in Int
        BY LedgerAssumption, <1>9 DEF Promise
    <2>3. \A v \in Variants : variantLock[v] # {} => reserved'[v] <= reserved[v]
        BY <1>1, <1>9, <2>2 DEF ForeignKeyFree
    <2> QED BY <1>1, <1>2, <2>1, <2>3, OutsideKeeps
<1> QED BY <1>3, <1>4, <1>5, <1>7, <1>8, <1>9 DEF OneStatement

\* A service that finds the sale in another status gives up at once.
LEMMA GivesUpKeeps ==
    ASSUME ~OverlappingEdits, LockInv, NEW w \in Workers, NEW hist \in BOOLEAN,
           LockSale(w, hist), req' # req
    PROVE  LockInv'
<1>1. UNCHANGED <<rows, ledger, reserved, tx, locks>> /\ Finish(w) /\ At(w, "none")
    BY DEF LockSale, vars
<1>2. tx[w] = NoTx
    BY <1>1, OpenTx DEF LockInv
<1>3. \A u \in Workers : tx[u] # NoTx => req'[u] = req[u]
    BY <1>1, <1>2 DEF Finish, LockInv, LTypeOK, TypeOK
<1>4. [Next]_vars
    BY StatementIsStep DEF Statement
<1>5. UNCHANGED <<status, lines, onHand>>
    BY <1>1 DEF rows, ledger
<1>6. \A v \in Variants : onHand'[v] >= onHand[v] /\ reserved'[v] <= reserved[v]
    BY <1>1, <1>5 DEF LockInv, LTypeOK, TypeOK
<1> QED BY <1>1, <1>3, <1>4, <1>5, <1>6, OutsideKeeps

-----------------------------------------------------------------------------
(* The theorems *)

LEMMA LockInit == LInit => LockInv
<1> SUFFICES ASSUME LInit PROVE LockInv
    OBVIOUS
<1>1. LedgerInv /\ TypeOK
    BY LedgerInit, TypeInit DEF LInit
<1>2. LTypeOK /\ OneHolder /\ \A w \in Workers : TxFits(w)
    BY <1>1 DEF LInit, LTypeOK, OneHolder, TxFits
<1> QED BY <1>1, <1>2 DEF LockInv

LEMMA LockStep ==
    ASSUME ~OverlappingEdits, LockInv, [LNext]_lvars
    PROVE  LockInv' /\ [Next]_vars
<1>1. CASE UNCHANGED lvars
    <2>1. UNCHANGED <<vars, tx, locks>>
        BY <1>1 DEF lvars
    <2>2. UNCHANGED <<req, status, lines, onHand, reserved>>
        BY <2>1 DEF vars, rows, ledger
    <2>3. \A v \in Variants : onHand'[v] >= onHand[v] /\ reserved'[v] <= reserved[v]
        BY <2>2 DEF LockInv, LTypeOK, TypeOK
    <2> QED BY <2>1, <2>2, <2>3, OutsideKeeps
<1>2. ASSUME NEW w \in Workers, Statement(w) PROVE LockInv' /\ [Next]_vars
    <2>1. [Next]_vars
        BY <1>2, StatementIsStep
    <2>2. LockInv'
        BY <1>2, LockSaleKeeps, GivesUpKeeps, ReadItemsKeeps, ReadStockKeeps, ReadReservedKeeps,
           GiveBackKeeps, LockRowKeeps, ConfirmKeeps, BackKeeps, RollBackKeeps
           DEF Statement, Commit
    <2> QED BY <2>1, <2>2
<1>3. CASE OneStatement /\ UNCHANGED <<tx, locks>>
    BY <1>3, OneStatementIsStep, OneStatementKeeps
<1> QED BY <1>1, <1>2, <1>3 DEF LNext

\* What a service has read under its locks is still so when it commits, and what
\* is locked is locked by one: for any number of workers, sales and variants, as
\* long as a cart edit is alone with its draft.
THEOREM ReadsHold ==
    ASSUME ~OverlappingEdits
    PROVE  LSpec => []LocksHold
<1>1. LockInv => LocksHold
    <2> SUFFICES ASSUME LockInv PROVE ReadsStayTrue
        BY DEF LocksHold, LockInv
    <2> SUFFICES ASSUME NEW w \in Workers, At(w, "ready") \/ At(w, "inserted")
                 PROVE  /\ tx[w].items = lines[req[w].sale]
                        /\ At(w, "ready") /\ Serving(w, "confirm") /\ ~tx[w].hist =>
                              \A v \in Needed(w) : tx[w].avail[v] <= Available(v)
        BY DEF ReadsStayTrue
    <2>1. tx[w] # NoTx
        BY InTx DEF Pcs
    <2>2. ReadsFit(w)
        BY <2>1, ServiceRequest
    <2> QED BY <2>2 DEF ReadsFit, Measured, At, Serving
<1>2. LockInv /\ [LNext]_lvars => LockInv'
    BY LockStep
<1> QED BY <1>1, <1>2, LockInit, PTL DEF LSpec

\* Refinement: under the row locks every behaviour at the level of statements is
\* a behaviour of SaleLedger, in which a service is one step.
THEOREM ServicesAtomic ==
    ASSUME ~OverlappingEdits
    PROVE  LSpec => ServicesAreAtomic
<1>1. LInit => Init
    BY DEF LInit
<1>2. LockInv /\ [LNext]_lvars => LockInv' /\ [Next]_vars
    BY LockStep
<1> QED BY <1>1, <1>2, LockInit, PTL DEF LSpec, ServicesAreAtomic

\* So what was proved of one-step services holds of their statements: the ledger
\* matches the lines, and no sale takes what is not there or is promised.
THEOREM StatementsKeepLedger ==
    ASSUME ~OverlappingEdits
    PROVE  LSpec => []LedgerMatchesLines /\ SalesTakeOnlyAvailable
<1>1. LSpec => Spec
    BY ServicesAtomic DEF ServicesAreAtomic, Spec
<1>2. Spec => [](LedgerMatchesLines /\ BilledMatchesLines)
    BY LedgerMatches
<1> QED BY <1>1, <1>2, NoOversell, PTL

-----------------------------------------------------------------------------
(* Confirmations do not deadlock *)

\* The record of a transaction has these fields and no others.
Fields(t) ==
    t = [pc |-> t.pc, hist |-> t.hist, items |-> t.items, avail |-> t.avail, back |-> t.back]
Whole(w) == Fields(tx[w])

LEMMA FieldsKept ==
    ASSUME NEW t, Fields(t), NEW n
    PROVE  /\ Fields([t EXCEPT !.pc = n]) /\ [t EXCEPT !.pc = n].pc = n
           /\ Fields([t EXCEPT !.items = n]) /\ [t EXCEPT !.items = n].pc = t.pc
           /\ Fields([t EXCEPT !.avail = n]) /\ [t EXCEPT !.avail = n].pc = t.pc
           /\ Fields([t EXCEPT !.back = n]) /\ [t EXCEPT !.back = n].pc = t.pc
    BY DEF Fields

\* A worker takes the rows of its variants in their order, each with its product
\* before the next, and keeps nothing when its transaction ends.
InOrder(w) ==
    /\ tx[w] = NoTx \/ (tx[w].pc \in Pcs /\ Whole(w))
    /\ tx[w] # NoTx => req[w] # Idle /\ req[w].op \in Services
    /\ At(w, "inserted") => req[w].op # "confirm"
    /\ At(w, "locking") =>
          /\ Held(w) \subseteq Needed(w)
          /\ \A v \in Held(w) : \A u \in Needed(w) \ Held(w) : Rank[v] <= Rank[u]
          /\ \A v \in HalfHeld(w) : \A u \in Held(w) : Rank[u] <= Rank[v]
    /\ At(w, "none") \/ At(w, "locked") => Held(w) = {}
    /\ \A p \in Products : w \in productLock[p] => \E v \in Held(w) : ProductOf[v] = p
    /\ \A v \in Variants : w \in variantShare[v] => At(w, "inserted")

LockTypes ==
    /\ tx  = [w \in Workers |-> tx[w]]
    /\ req = [w \in Workers |-> req[w]]
    /\ variantLock  \in [Variants -> SUBSET Workers]
    /\ productLock  \in [Products -> SUBSET Workers]
    /\ variantShare \in [Variants -> SUBSET Workers]

OneOfAVariant == \A v \in Variants : \A u, w \in variantLock[v] : u = w

OrderedInv == LockTypes /\ OneOfAVariant /\ \A w \in Workers : InOrder(w)

LEMMA PcOfTx ==
    ASSUME NEW w, InOrder(w)
    PROVE  /\ At(w, "none") <=> tx[w] = NoTx
           /\ \A pc \in Pcs : At(w, pc) => tx[w] # NoTx /\ Whole(w)
    BY DEF InOrder, At, NoTx, Pcs

\* A worker that a step does not concern.
LEMMA OrderUndisturbed ==
    ASSUME NEW u \in Workers, InOrder(u), tx'[u] = tx[u], tx[u] # NoTx => req'[u] = req[u],
           \A v \in Variants : u \in variantLock'[v] <=> u \in variantLock[v],
           \A p \in Products : u \in productLock'[p] <=> u \in productLock[p],
           \A v \in Variants : u \in variantShare'[v] <=> u \in variantShare[v]
    PROVE  InOrder(u)'
<1>1. /\ \A pc : At(u, pc)' <=> At(u, pc)
      /\ Needed(u)' = Needed(u) /\ Held(u)' = Held(u)
      /\ Whole(u)' <=> Whole(u)
    BY DEF At, Needed, Held, Whole
<1>2. HalfHeld(u)' = HalfHeld(u)
    BY <1>1 DEF HalfHeld, Held, Products
<1>3. At(u, "inserted") => tx[u] # NoTx
    BY DEF At, NoTx
<1> QED BY <1>1, <1>2, <1>3 DEF InOrder

\* Only what a worker does itself changes its part.
LEMMA OthersUndisturbed ==
    ASSUME OrderedInv, NEW w \in Workers, LockTypes', OneOfAVariant', InOrder(w)',
           \A u \in Workers \ {w} :
              /\ tx'[u] = tx[u] /\ req'[u] = req[u]
              /\ \A v \in Variants : u \in variantLock'[v] <=> u \in variantLock[v]
              /\ \A p \in Products : u \in productLock'[p] <=> u \in productLock[p]
              /\ \A v \in Variants : u \in variantShare'[v] <=> u \in variantShare[v]
    PROVE  OrderedInv'
<1>1. ASSUME NEW u \in Workers \ {w} PROVE InOrder(u)'
    BY OrderUndisturbed DEF OrderedInv
<1> QED BY <1>1 DEF OrderedInv

\* The transaction goes on to its next statement and takes no row.
LEMMA OrderGoesOn ==
    ASSUME OrderedInv, NEW w \in Workers, NEW t,
           tx' = [tx EXCEPT ![w] = t], UNCHANGED <<req, variantLock, productLock, variantShare>>,
           t.pc \in Pcs,
           Fields(t), req[w] # Idle, req[w].op \in Services,
           t.pc = "inserted" => req[w].op # "confirm",
           t.pc \in {"locked", "locking"} => At(w, "none") \/ At(w, "locked"),
           ~At(w, "inserted")
    PROVE  OrderedInv'
<1>1. LockTypes /\ InOrder(w)
    BY DEF OrderedInv
<1>2. tx'[w] = t /\ \A u \in Workers \ {w} : tx'[u] = tx[u]
    BY <1>1 DEF LockTypes
<1>3. LockTypes' /\ OneOfAVariant'
    BY DEF OrderedInv, LockTypes, OneOfAVariant
<1>4. Held(w)' = Held(w) /\ HalfHeld(w)' = HalfHeld(w) /\ HalfHeld(w) \subseteq Held(w)
    BY DEF Held, HalfHeld
<1>5. \A pc : At(w, pc)' <=> t.pc = pc
    BY <1>2 DEF At
<1>6. t.pc \in {"locked", "locking"} => Held(w) = {}
    BY <1>1 DEF InOrder
<1>7. Whole(w)'
    BY <1>2 DEF Whole
<1>8. InOrder(w)'
    BY <1>1, <1>2, <1>4, <1>5, <1>6, <1>7 DEF InOrder, Pcs
<1> QED BY <1>2, <1>3, <1>8, OthersUndisturbed

LEMMA OrderStatement ==
    ASSUME OrderedInv, NEW w \in Workers,
           (\E hist \in BOOLEAN : LockSale(w, hist)) \/ ReadItems(w) \/ ReadStock(w)
              \/ ReadReserved(w) \/ (\E back \in Carts : GiveBack(w, back))
    PROVE  OrderedInv'
<1>1. LockTypes /\ InOrder(w)
    BY DEF OrderedInv
<1>2. ASSUME NEW hist \in BOOLEAN, LockSale(w, hist) PROVE OrderedInv'
    <2>1. At(w, "none") /\ req[w] # Idle /\ req[w].op \in Services
        BY <1>2 DEF LockSale
    <2>2. CASE UNCHANGED <<vars, variantLock, productLock, variantShare>>
        <3>1. tx' = [tx EXCEPT ![w] = [pc |-> "locked", hist |-> hist, items |-> NoUnits,
                                       avail |-> NoUnits, back |-> NoUnits]]
                \/ UNCHANGED tx
            BY <1>2 DEF LockSale
        <3>2. CASE UNCHANGED tx
            BY <2>2, <3>2, <1>1, OthersUndisturbed, OrderUndisturbed
               DEF OrderedInv, LockTypes, OneOfAVariant, vars
        <3>3. CASE ~UNCHANGED tx
            <4> DEFINE t == [pc |-> "locked", hist |-> hist, items |-> NoUnits,
                             avail |-> NoUnits, back |-> NoUnits]
            <4>1. tx' = [tx EXCEPT ![w] = t] /\ t.pc = "locked" /\ Fields(t)
                BY <3>1, <3>3 DEF Fields
            <4> HIDE DEF t
            <4>2. t.pc \in Pcs /\ ~At(w, "inserted") /\ t.pc # "inserted"
                BY <2>1, <4>1 DEF Pcs, At
            <4> QED BY <2>1, <2>2, <4>1, <4>2, OrderGoesOn DEF vars
        <3> QED BY <3>2, <3>3
    <2>3. CASE Finish(w) /\ UNCHANGED <<tx, locks>>
        <3>1. tx[w] = NoTx /\ \A u \in Workers \ {w} : req'[u] = req[u]
            BY <1>1, <2>1, <2>3, PcOfTx DEF Finish, LockTypes
        <3>2. LockTypes' /\ OneOfAVariant'
            BY <2>3 DEF OrderedInv, LockTypes, OneOfAVariant, Finish, locks
        <3>3. ASSUME NEW u \in Workers PROVE InOrder(u)'
            BY <2>3, <3>1, OrderUndisturbed DEF locks, OrderedInv
        <3> QED BY <3>2, <3>3 DEF OrderedInv
    <2> QED BY <1>2, <2>2, <2>3 DEF LockSale
<1>3. ASSUME NEW pc \in Pcs, At(w, pc), NEW t, tx' = [tx EXCEPT ![w] = t], Fields(t),
             t.pc \in Pcs, UNCHANGED <<vars, locks>>,
             t.pc = "inserted" => req[w].op # "confirm",
             t.pc \in {"locked", "locking"} => pc = "locked",
             pc # "inserted"
      PROVE  OrderedInv'
    <2>1. req[w] # Idle /\ req[w].op \in Services
        BY <1>1, <1>3, PcOfTx DEF InOrder
    <2>2. ~At(w, "inserted") /\ (t.pc \in {"locked", "locking"} => At(w, "locked"))
        BY <1>3 DEF At
    <2> QED BY <1>3, <2>1, <2>2, OrderGoesOn DEF vars, locks
<1>4. ASSUME NEW pc \in Pcs, At(w, pc) PROVE Fields(tx[w])
    BY <1>1, <1>4, PcOfTx DEF Whole
<1>5. CASE ReadItems(w)
    <2>1. At(w, "locked") /\ UNCHANGED <<vars, locks>> /\ Fields(tx[w])
        BY <1>4, <1>5 DEF ReadItems, Pcs
    <2>2. \E cart : \E next \in {"locking", "ready"} :
              tx' = [tx EXCEPT ![w].items = cart, ![w].pc = next]
        <3> DEFINE next == IF req[w].op = "confirm" /\ ~tx[w].hist THEN "locking" ELSE "ready"
        <3>1. tx' = [tx EXCEPT ![w].items = lines[req[w].sale], ![w].pc = next]
            BY <1>5 DEF ReadItems
        <3>2. next \in {"locking", "ready"}
            OBVIOUS
        <3> HIDE DEF next
        <3> QED BY <3>1, <3>2
    <2>3. PICK cart : \E next \in {"locking", "ready"} :
              tx' = [tx EXCEPT ![w].items = cart, ![w].pc = next]
        BY <2>2
    <2>4. PICK next \in {"locking", "ready"} :
              tx' = [tx EXCEPT ![w].items = cart, ![w].pc = next]
        BY <2>3
    <2>5. PICK q : q = [tx[w] EXCEPT !.items = cart]
        OBVIOUS
    <2>6. PICK t : t = [q EXCEPT !.pc = next]
        OBVIOUS
    <2>7. tx' = [tx EXCEPT ![w] = t]
        BY <1>1, <2>4, <2>5, <2>6 DEF LockTypes
    <2>8. Fields(t) /\ t.pc = next
        <3>1. Fields(q)
            BY <2>1, <2>5, FieldsKept
        <3> QED BY <3>1, <2>6, FieldsKept
    <2> QED BY <1>3, <2>1, <2>7, <2>8 DEF Pcs
<1>6. ASSUME NEW pc \in Pcs, At(w, pc), NEW t, NEW next \in {"reserved", "ready", "inserted"},
             tx' = [tx EXCEPT ![w] = [t EXCEPT !.pc = next]], UNCHANGED <<vars, locks>>,
             Fields(tx[w]) => Fields(t),
             next = "inserted" => req[w].op # "confirm", pc # "inserted"
      PROVE  OrderedInv'
    <2>1. PICK q : q = [t EXCEPT !.pc = next]
        OBVIOUS
    <2>2. Fields(q) /\ q.pc = next
        BY <1>4, <1>6, <2>1, FieldsKept
    <2> QED BY <1>3, <1>6, <2>1, <2>2 DEF Pcs
<1>7. CASE ReadStock(w)
    <2>1. At(w, "locking") /\ UNCHANGED <<vars, locks>>
          /\ tx' = [tx EXCEPT ![w].avail = onHand, ![w].pc = "reserved"]
        BY <1>7 DEF ReadStock
    <2>2. PICK t : t = [tx[w] EXCEPT !.avail = onHand]
        OBVIOUS
    <2>3. tx' = [tx EXCEPT ![w] = [t EXCEPT !.pc = "reserved"]]
        BY <1>1, <2>1, <2>2 DEF LockTypes
    <2> QED BY <1>6, <2>1, <2>2, <2>3, FieldsKept DEF Pcs
<1>8. CASE ReadReserved(w)
    <2>1. At(w, "reserved") /\ UNCHANGED <<vars, locks>>
          /\ tx' = [tx EXCEPT ![w].avail = Minus(@, reserved), ![w].pc = "ready"]
        BY <1>8 DEF ReadReserved
    <2>2. PICK t : t = [tx[w] EXCEPT !.avail = Minus(@, reserved)]
        OBVIOUS
    <2>3. tx' = [tx EXCEPT ![w] = [t EXCEPT !.pc = "ready"]]
        BY <1>1, <2>1, <2>2 DEF LockTypes
    <2>4. Fields(tx[w]) => Fields(t)
        <3>1. PICK n : t = [tx[w] EXCEPT !.avail = n]
            BY <2>2
        <3> QED BY <3>1, FieldsKept
    <2> QED BY <1>6, <2>1, <2>3, <2>4 DEF Pcs
<1>9. ASSUME NEW back \in Carts, GiveBack(w, back) PROVE OrderedInv'
    <2>1. At(w, "ready") /\ UNCHANGED <<vars, locks>> /\ req[w].op # "confirm"
          /\ tx' = [tx EXCEPT ![w].back = back, ![w].pc = "inserted"]
        BY <1>9 DEF GiveBack, Serving
    <2>2. PICK t : t = [tx[w] EXCEPT !.back = back]
        OBVIOUS
    <2>3. tx' = [tx EXCEPT ![w] = [t EXCEPT !.pc = "inserted"]]
        BY <1>1, <2>1, <2>2 DEF LockTypes
    <2> QED BY <1>6, <2>1, <2>2, <2>3, FieldsKept DEF Pcs
<1> QED BY <1>2, <1>5, <1>7, <1>8, <1>9

LEMMA OrderLock ==
    ASSUME OrderedInv, NEW w \in Workers, NEW v \in Variants,
           LockVariant(w, v) \/ LockProduct(w, v) \/ ShareVariant(w, v)
    PROVE  OrderedInv'
<1>1. LockTypes /\ InOrder(w) /\ OneOfAVariant
    BY DEF OrderedInv
<1>2. UNCHANGED <<tx, req>>
    BY DEF LockVariant, LockProduct, ShareVariant, vars
<1>3. /\ \A pc : At(w, pc)' <=> At(w, pc)
      /\ Needed(w)' = Needed(w) /\ (Whole(w)' <=> Whole(w))
      /\ \A a, b : At(w, a) /\ At(w, b) => a = b
    BY <1>2 DEF At, Needed, Whole
<1>4. CASE LockVariant(w, v)
    <2>1. /\ At(w, "locking") /\ HalfHeld(w) = {} /\ v \in Needed(w) \ Held(w)
          /\ \A u \in Needed(w) \ Held(w) : Rank[v] <= Rank[u]
          /\ variantLock[v] = {} /\ variantShare[v] = {}
          /\ variantLock' = [variantLock EXCEPT ![v] = @ \cup {w}]
          /\ UNCHANGED <<productLock, variantShare>>
        BY <1>4 DEF LockVariant, NextToLock, Free
    <2>2. /\ variantLock'[v] = {w} /\ \A u \in Variants \ {v} : variantLock'[u] = variantLock[u]
          /\ variantLock' \in [Variants -> SUBSET Workers]
        BY <1>1, <2>1 DEF LockTypes
    <2>3. Held(w)' = Held(w) \cup {v} /\ v \notin Held(w)
        BY <2>1, <2>2 DEF Held
    <2>4. HalfHeld(w)' \subseteq {v}
        BY <2>1, <2>3 DEF HalfHeld
    <2>5. Rank[v] \in Nat
        BY RankAssumption
    <2>6. InOrder(w)'
        <3>1. At(w, "locking") => ~At(w, "inserted") /\ ~At(w, "none") /\ ~At(w, "locked")
            BY DEF At
        <3> QED BY <1>1, <1>2, <1>3, <2>1, <2>3, <2>4, <2>5, <3>1 DEF InOrder
    <2>7. LockTypes' /\ OneOfAVariant'
        BY <1>1, <1>2, <2>1, <2>2 DEF LockTypes, OneOfAVariant
    <2> QED BY <1>2, <2>1, <2>2, <2>6, <2>7, OthersUndisturbed
<1>5. CASE LockProduct(w, v)
    <2> DEFINE p == ProductOf[v]
    <2>1. /\ At(w, "locking") /\ v \in HalfHeld(w) /\ productLock[p] = {}
          /\ productLock' = [productLock EXCEPT ![p] = @ \cup {w}]
          /\ UNCHANGED <<variantLock, variantShare>> /\ v \in Held(w) /\ p \in Products
        BY <1>5 DEF LockProduct, Free, HalfHeld, Products
    <2>2. /\ productLock'[p] = {w} /\ \A q \in Products \ {p} : productLock'[q] = productLock[q]
          /\ productLock' \in [Products -> SUBSET Workers]
        <3> HIDE DEF p
        <3> QED BY <1>1, <2>1 DEF LockTypes
    <2>3. Held(w)' = Held(w)
        BY <2>1 DEF Held
    <2>4. HalfHeld(w)' \subseteq HalfHeld(w)
        <3>1. ASSUME NEW u \in Held(w), w \in productLock[ProductOf[u]]
              PROVE  w \in productLock'[ProductOf[u]]
            BY <2>1, <2>2, <3>1 DEF Held, Products
        <3> QED BY <2>3, <3>1 DEF HalfHeld
    <2>5. InOrder(w)'
        <3>1. At(w, "locking") => ~At(w, "inserted") /\ ~At(w, "none") /\ ~At(w, "locked")
            BY DEF At
        <3>2. \A q \in Products : w \in productLock'[q] => \E u \in Held(w) : ProductOf[u] = q
            BY <1>1, <2>1, <2>2 DEF InOrder
        <3> QED BY <1>1, <1>2, <1>3, <2>1, <2>3, <2>4, <3>1, <3>2 DEF InOrder
    <2>6. LockTypes' /\ OneOfAVariant'
        BY <1>1, <1>2, <2>1, <2>2 DEF LockTypes, OneOfAVariant
    <2> QED BY <1>2, <2>1, <2>2, <2>5, <2>6, OthersUndisturbed
<1>6. CASE ShareVariant(w, v)
    <2>1. /\ At(w, "inserted") /\ variantShare' = [variantShare EXCEPT ![v] = @ \cup {w}]
          /\ UNCHANGED <<variantLock, productLock>>
        BY <1>6 DEF ShareVariant
    <2>2. Held(w)' = Held(w) /\ HalfHeld(w)' = HalfHeld(w)
        BY <2>1 DEF Held, HalfHeld
    <2>3. InOrder(w)'
        BY <1>1, <1>2, <1>3, <2>1, <2>2 DEF InOrder
    <2>4. LockTypes' /\ OneOfAVariant'
        BY <1>1, <1>2, <2>1 DEF LockTypes, OneOfAVariant
    <2>5. \A u \in Workers \ {w} : \A x \in Variants :
              u \in variantShare'[x] <=> u \in variantShare[x]
        BY <1>1, <2>1 DEF LockTypes
    <2> QED BY <1>2, <2>1, <2>3, <2>4, <2>5, OthersUndisturbed
<1> QED BY <1>4, <1>5, <1>6

LEMMA OrderEnd ==
    ASSUME OrderedInv, NEW w \in Workers, Commit(w)
    PROVE  OrderedInv'
<1>1. LockTypes /\ OneOfAVariant
    BY DEF OrderedInv
<1>2. Finish(w) /\ EndTx(w)
    BY DEF Commit, CommitConfirm, CommitCancel, CommitReturn, RollBack, Abort
<1>3. /\ tx' = [tx EXCEPT ![w] = NoTx] /\ req' = [req EXCEPT ![w] = Idle]
      /\ variantLock'  = [v \in Variants |-> variantLock[v] \ {w}]
      /\ productLock'  = [p \in Products |-> productLock[p] \ {w}]
      /\ variantShare' = [v \in Variants |-> variantShare[v] \ {w}]
    BY <1>2 DEF EndTx, Finish
<1>4. LockTypes' /\ OneOfAVariant'
    BY <1>1, <1>3 DEF LockTypes, OneOfAVariant
<1>5. InOrder(w)'
    <2>1. tx'[w] = NoTx
        BY <1>1, <1>3 DEF LockTypes
    <2>2. ~At(w, "inserted")' /\ ~At(w, "locking")'
        BY <2>1 DEF At, NoTx
    <2>3. Held(w)' = {}
        BY <1>3 DEF Held
    <2> QED BY <1>3, <2>1, <2>2, <2>3 DEF InOrder
<1>6. \A u \in Workers \ {w} : tx'[u] = tx[u] /\ req'[u] = req[u]
    BY <1>1, <1>3 DEF LockTypes
<1> QED BY <1>3, <1>4, <1>5, <1>6, OthersUndisturbed

\* What is one statement begins no transaction and ends none.
LEMMA OrderOutside ==
    ASSUME OrderedInv, (OneStatement /\ UNCHANGED <<tx, locks>>) \/ UNCHANGED lvars
    PROVE  OrderedInv'
<1>1. LockTypes /\ OneOfAVariant /\ UNCHANGED <<tx, variantLock, productLock, variantShare>>
    BY DEF OrderedInv, locks, lvars
<1>2. /\ req' = [w \in Workers |-> req'[w]]
      /\ \A u \in Workers : tx[u] # NoTx => req'[u] = req[u]
    <2>1. CASE UNCHANGED req
        BY <1>1, <2>1 DEF LockTypes
    <2>2. ASSUME NEW w \in Workers, tx[w] = NoTx, NEW r, req' = [req EXCEPT ![w] = r]
          PROVE  /\ req' = [u \in Workers |-> req'[u]]
                 /\ \A u \in Workers : tx[u] # NoTx => req'[u] = req[u]
        BY <1>1, <2>2 DEF LockTypes
    <2>3. ASSUME NEW w \in Workers, NEW op \in Ops, NEW s \in Sales, Load(w, op, s)
          PROVE  tx[w] = NoTx /\ \E r : req' = [req EXCEPT ![w] = r]
        BY <2>3 DEF Load, OrderedInv, InOrder
    <2>4. ASSUME NEW w \in Workers, CartStep(w)
          PROVE  tx[w] = NoTx /\ \E r : req' = [req EXCEPT ![w] = r]
        <3>1. req[w].op \in Edits /\ Finish(w)
            BY <2>4 DEF CartStep, ItemAdd, ItemRemove, Restore, Serving, SetCart, Edits
        <3>2. tx[w] = NoTx
            BY <3>1 DEF OrderedInv, InOrder, Edits, Services
        <3> QED BY <3>1, <3>2 DEF Finish
    <2> QED BY <2>1, <2>2, <2>3, <2>4 DEF OneStatement, NewDraft, Receive, WriteOff, Recount,
               MoveStock, Promise, lvars, vars
<1>3. LockTypes' /\ OneOfAVariant'
    BY <1>1, <1>2 DEF LockTypes, OneOfAVariant
<1>4. ASSUME NEW u \in Workers PROVE InOrder(u)'
    BY <1>1, <1>2, OrderUndisturbed DEF OrderedInv
<1> QED BY <1>3, <1>4 DEF OrderedInv

LEMMA OrderStart == LInit => OrderedInv
<1> SUFFICES ASSUME LInit PROVE OrderedInv
    OBVIOUS
<1>1. /\ tx = [w \in Workers |-> NoTx] /\ req = [w \in Workers |-> Idle]
      /\ variantLock = [v \in Variants |-> {}] /\ productLock = [p \in Products |-> {}]
      /\ variantShare = [v \in Variants |-> {}]
    BY DEF LInit, Init
<1>2. LockTypes /\ OneOfAVariant
    BY <1>1 DEF LockTypes, OneOfAVariant
<1>3. ASSUME NEW w \in Workers PROVE InOrder(w)
    BY <1>1 DEF InOrder, At, NoTx, Held
<1> QED BY <1>2, <1>3 DEF OrderedInv

LEMMA OrderKept == OrderedInv /\ [LNext]_lvars => OrderedInv'
<1> SUFFICES ASSUME OrderedInv, [LNext]_lvars PROVE OrderedInv'
    OBVIOUS
<1>1. ASSUME NEW w \in Workers, Statement(w) PROVE OrderedInv'
    BY <1>1, OrderStatement, OrderLock, OrderEnd DEF Statement
<1> QED BY <1>1, OrderOutside DEF LNext

\* How far a confirmation has got that wants variant v: its row, then its product.
Place(w, v) == 2 * Rank[v] + (IF v \in HalfHeld(w) THEN 1 ELSE 0)

\* Of two confirmations one of which waits for the other, this one has got further.
LEMMA WaitsForFurther ==
    ASSUME OrderedInv, NamesDiffer, Contiguous, NEW w \in Workers, NEW u \in Workers, u # w,
           At(u, "locking"), \A x, y \in Needed(u) : ProductOf[x] = ProductOf[y] => x = y,
           NEW v \in Variants,
           \/ v \notin HalfHeld(w) /\ u \in variantLock[v]
           \/ v \in HalfHeld(w) /\ u \in productLock[ProductOf[v]],
           NEW x \in Variants, NextToLock(u, x) \/ x \in HalfHeld(u)
    PROVE  Place(w, v) < Place(u, x)
<1>1. InOrder(u) /\ OneOfAVariant
    BY DEF OrderedInv
<1>2. \A y \in Variants : Rank[y] \in Nat
    BY RankAssumption
<1>3. ASSUME NEW y \in Held(u), y \notin HalfHeld(u)
      PROVE  Rank[y] < Rank[x]
    <2>1. y \in Variants /\ x # y
        BY <1>3 DEF Held, NextToLock
    <2>2. Rank[y] <= Rank[x]
        BY <1>1 DEF InOrder, NextToLock
    <2>3. Rank[y] # Rank[x]
        BY <2>1 DEF NamesDiffer
    <2> QED BY <1>2, <2>1, <2>2, <2>3
<1>4. CASE v \notin HalfHeld(w)
    <2>1. v \in Held(u)
        BY <1>4 DEF Held
    <2>2. CASE v \notin HalfHeld(u)
        <3>1. Rank[v] < Rank[x]
            BY <1>3, <2>1, <2>2
        <3> QED BY <1>2, <1>4, <3>1 DEF Place
    <2>3. CASE v \in HalfHeld(u)
        <3>1. x \in HalfHeld(u)
            BY <2>3 DEF NextToLock
        <3>2. Rank[v] <= Rank[x]
            BY <1>1, <2>1, <3>1 DEF InOrder
        <3> QED BY <1>2, <1>4, <3>1, <3>2 DEF Place
    <2> QED BY <2>2, <2>3
<1>5. CASE v \in HalfHeld(w)
    <2>1. PICK y \in Held(u) : ProductOf[y] = ProductOf[v] /\ u \in productLock[ProductOf[y]]
        BY <1>1, <1>5 DEF InOrder, Products, HalfHeld
    <2>2. y \in Variants /\ y \notin HalfHeld(u) /\ y # v
        BY <1>1, <1>5, <2>1 DEF OneOfAVariant, Held, HalfHeld
    <2>3. Rank[y] < Rank[x]
        BY <1>3, <2>1, <2>2
    <2>4. y \in Needed(u) /\ x \in Needed(u)
        BY <1>1, <2>1 DEF InOrder, HalfHeld, NextToLock
    <2>5. ProductOf[x] # ProductOf[y]
        BY <1>2, <2>2, <2>3, <2>4
    <2>6. ~(Rank[x] <= Rank[v])
        BY <1>2, <2>1, <2>2, <2>3, <2>5 DEF Contiguous
    <2> QED BY <1>2, <1>5, <2>6 DEF Place
<1> QED BY <1>4, <1>5

\* Rows are locked in one order, so no confirmations wait for one another in a
\* ring, however many there are and whatever else goes on, edits included; only
\* two variants of one product in one sale may break the order.
THEOREM NoRingOfConfirms == LSpec => []ConfirmsNeverDeadlock
<1>1. OrderedInv => ConfirmsNeverDeadlock
    <2> SUFFICES ASSUME OrderedInv, NamesDiffer, Contiguous, NEW ws \in SUBSET Workers,
                        \A w \in ws :
                           /\ Serving(w, "confirm") /\ tx[w] # NoTx
                           /\ \A u, v \in Needed(w) : ProductOf[u] = ProductOf[v] => u = v,
                        Ring(ws)
                 PROVE  FALSE
        BY DEF ConfirmsNeverDeadlock
    <2> DEFINE Wants(w, v) == NextToLock(w, v) \/ v \in HalfHeld(w)
               Blocks(u, w, v) == \/ v \notin HalfHeld(w) /\ u \in variantLock[v]
                                  \/ v \in HalfHeld(w) /\ u \in productLock[ProductOf[v]]
               Places == {n \in Nat : \E w \in ws : \E v \in Variants :
                             /\ n = Place(w, v) /\ Wants(w, v)
                             /\ \E u \in ws : u # w /\ Blocks(u, w, v)}
    <2>1. ASSUME NEW w \in ws
          PROVE  At(w, "locking") /\ \E v \in Variants : \E u \in ws :
                    Wants(w, v) /\ u # w /\ Blocks(u, w, v)
        <3>1. PICK u \in ws : WaitsFor(w, u)
            BY DEF Ring
        <3>2. InOrder(w) /\ InOrder(u) /\ Serving(w, "confirm") /\ Serving(u, "confirm")
              /\ tx[w] # NoTx
            BY DEF OrderedInv
        <3>3. ~At(w, "none") /\ ~At(w, "inserted")
            BY <3>2, PcOfTx DEF InOrder, Serving
        <3>4. \A v \in Variants : u \notin variantShare[v]
            BY <3>2 DEF InOrder, Serving
        <3>5. At(w, "locking") /\ u # w
            BY <3>1, <3>3 DEF WaitsFor
        <3>6. CASE \E v \in Variants : NextToLock(w, v) /\ u \in variantLock[v] \cup variantShare[v]
            <4>1. PICK v \in Variants : NextToLock(w, v) /\ u \in variantLock[v]
                BY <3>4, <3>6
            <4>2. v \notin HalfHeld(w)
                BY <4>1 DEF NextToLock
            <4> QED BY <3>5, <4>1, <4>2
        <3>7. CASE \E v \in HalfHeld(w) : u \in productLock[ProductOf[v]]
            <4>1. PICK v \in HalfHeld(w) : u \in productLock[ProductOf[v]]
                BY <3>7
            <4>2. v \in Variants
                BY DEF HalfHeld, Held
            <4> QED BY <3>5, <4>1, <4>2
        <3> QED BY <3>1, <3>3, <3>6, <3>7 DEF WaitsFor
    <2>2. ASSUME NEW w, NEW v \in Variants PROVE Place(w, v) \in {2 * Rank[v], 2 * Rank[v] + 1}
                                                 /\ Place(w, v) \in Nat
        BY RankAssumption DEF Place
    <2>3. Places # {}
        <3>1. PICK w \in ws : TRUE
            BY DEF Ring
        <3>2. PICK v \in Variants : \E u \in ws : Wants(w, v) /\ u # w /\ Blocks(u, w, v)
            BY <2>1
        <3>3. Place(w, v) \in Places
            BY <2>2, <3>2
        <3> QED BY <3>3
    <2>4. IsFiniteSet(Places)
        <3>1. IsFiniteSet({2 * Rank[v] : v \in Variants}) /\ IsFiniteSet({2 * Rank[v] + 1 : v \in Variants})
            <4> DEFINE f == [v \in Variants |-> 2 * Rank[v]]
                       g == [v \in Variants |-> 2 * Rank[v] + 1]
            <4>1. /\ {2 * Rank[v] : v \in Variants} = {f[v] : v \in Variants}
                  /\ {2 * Rank[v] + 1 : v \in Variants} = {g[v] : v \in Variants}
                OBVIOUS
            <4>2. IsFiniteSet(Variants)
                BY RankAssumption
            <4> HIDE DEF f, g
            <4>3. IsFiniteSet({f[v] : v \in Variants}) /\ IsFiniteSet({g[v] : v \in Variants})
                BY <4>2, ImageFinite
            <4> QED BY <4>1, <4>3
        <3>2. Places \subseteq {2 * Rank[v] : v \in Variants} \cup {2 * Rank[v] + 1 : v \in Variants}
            BY <2>2
        <3> HIDE DEF Places
        <3> QED BY <3>1, <3>2, FS_Union, FS_Subset
    <2>5. PICK n \in Places : \A m \in Places : m <= n
        <3>1. Places \subseteq Nat
            OBVIOUS
        <3> HIDE DEF Places
        <3> QED BY <2>3, <2>4, <3>1, GreatestOf
    <2>6. PICK w \in ws, v \in Variants :
              /\ n = Place(w, v) /\ Wants(w, v)
              /\ \E u \in ws : u # w /\ Blocks(u, w, v)
        OBVIOUS
    <2>7. PICK u \in ws : u # w /\ Blocks(u, w, v)
        BY <2>6
    <2>8. PICK x \in Variants : Wants(u, x) /\ \E y \in ws : y # u /\ Blocks(y, u, x)
        BY <2>1
    <2>9. Place(u, x) \in Places
        BY <2>2, <2>8
    <2>10. Place(w, v) < Place(u, x)
        <3>1. At(u, "locking") /\ \A a, b \in Needed(u) : ProductOf[a] = ProductOf[b] => a = b
            BY <2>1
        <3> QED BY <2>7, <2>8, <3>1, WaitsForFurther
    <2>11. Place(w, v) \in Nat /\ Place(u, x) \in Nat /\ Place(u, x) <= Place(w, v)
        BY <2>2, <2>5, <2>6, <2>9
    <2> HIDE DEF Places, Wants, Blocks
    <2> QED BY <2>10, <2>11
<1> QED BY <1>1, OrderStart, OrderKept, PTL DEF LSpec
=============================================================================
