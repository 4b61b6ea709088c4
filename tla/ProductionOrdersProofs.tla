------------------------- MODULE ProductionOrdersProofs -------------------------
(***************************************************************************)
(* Proofs about ProductionOrders, for any sets of orders, lines, sales,    *)
(* variants and workers, and any mix of requests.  First the orders by     *)
(* themselves, then the stock that they fill, then the refinement: every   *)
(* step on the orders is a step of SaleLedger.  Last the instance whose    *)
(* unlocked requests are alone with their order.                           *)
(***************************************************************************)
EXTENDS MCProductionOrders, SumsProofs

-----------------------------------------------------------------------------
(* The invariant *)

\* The types of what making depends on.
MakingTypes ==
    /\ state     \in [Orders -> States]
    /\ item      \in [Items -> Line \cup {Unused, Gone}]
    /\ \A i \in Items : item[i].is = "live" => item[i].produced <= item[i].quantity
    /\ saleOf    \in [Orders -> Sales \cup {NoSale}]
    /\ announced \in [Orders -> Nat]
    /\ req       \in [Workers -> Request \cup {Idle}]

\* Producing and removing have found a line.
RequestsFit ==
    \A w \in Workers :
        Serving(w, "produce") \/ Serving(w, "remove") => req[w].item \in Items

\* A line's lock has one holder.
Makes(w, i) == Serving(w, "produce") /\ req[w].item = i /\ req[w].made > 0
OneMaker == \A i \in Items : \A u, w \in Workers : Makes(u, i) /\ Makes(w, i) => u = w

\* Nobody has been told of an order that is still to be made.
NotYetTold == \A o \in Orders : state[o] \in {"none", "new", "in_production"} => announced[o] = 0

\* An order that became a sale is not open again.
SoldIsClosed == \A o \in Orders : saleOf[o] # NoSale => state[o] \in {"delivered", "cancelled"}

LineInv  == MakingTypes /\ RequestsFit /\ OneMaker /\ LockedCheckHolds
OrderInv == LineInv /\ NotYetTold /\ AnnouncedOnce /\ SoldIsClosed

-----------------------------------------------------------------------------
(* Requests *)

LEMMA ServedRequest ==
    ASSUME MakingTypes, NEW w \in Workers, NEW op, Serving(w, op)
    PROVE  req[w] \in Request /\ req[w].op = op
    BY DEF MakingTypes, Serving

LEMMA FreedRequest ==
    ASSUME MakingTypes, NEW w \in Workers, Finish(w)
    PROVE  /\ req' \in [Workers -> Request \cup {Idle}]
           /\ req'[w] = Idle /\ \A u \in Workers \ {w} : req'[u] = req[u]
    BY DEF MakingTypes, Finish

\* After a request is done, whoever serves one served it before.
LEMMA StillServing ==
    ASSUME MakingTypes, NEW w \in Workers, Finish(w), NEW u \in Workers, NEW op,
           Serving(u, op)'
    PROVE  u # w /\ Serving(u, op) /\ req'[u] = req[u]
    BY FreedRequest DEF Serving

LEMMA OrderInit == Init => OrderInv
<1> SUFFICES ASSUME Init PROVE OrderInv
    OBVIOUS
<1>1. MakingTypes
    BY DEF Init, MakingTypes, States, Unused
<1>2. \A w \in Workers, op \in {"produce", "remove"} : ~Serving(w, op)
    BY DEF Init, Serving
<1> QED BY <1>1, <1>2 DEF Init, OrderInv, LineInv, RequestsFit, OneMaker, Makes, LockedCheckHolds,
                          NotYetTold, AnnouncedOnce, SoldIsClosed

\* A finished request that leaves the lines which others are making as they are.
LEMMA LinesKept ==
    ASSUME LineInv, NEW w \in Workers, Finish(w), MakingTypes',
           \A u \in Workers \ {w} : \A i \in Items : Makes(u, i) => item'[i] = item[i]
    PROVE  LineInv'
<1> MakingTypes /\ RequestsFit /\ OneMaker /\ LockedCheckHolds
    BY DEF LineInv
<1>1. RequestsFit'
    BY StillServing DEF RequestsFit
<1>2. \A u \in Workers : \A i \in Items : Makes(u, i)' => u # w /\ Makes(u, i) /\ req'[u] = req[u]
    BY StillServing DEF Makes
<1>3. OneMaker'
    BY <1>2 DEF OneMaker
<1>4. LockedCheckHolds'
    <2> SUFFICES ASSUME NEW u \in Workers, Serving(u, "produce")', req'[u].made > 0
                 PROVE  Live(req[u].item)' /\ req'[u].made <= Remaining(req[u].item)'
        BY DEF LockedCheckHolds
    <2> DEFINE i == req[u].item
    <2>1. u # w /\ Serving(u, "produce") /\ req'[u] = req[u]
        BY StillServing
    <2>2. i \in Items /\ req[u].made > 0 /\ Makes(u, i)
        BY <2>1 DEF RequestsFit, Makes
    <2>3. item'[i] = item[i]
        BY <2>1, <2>2
    <2>4. Live(i) /\ req[u].made <= Remaining(i)
        BY <2>1, <2>2 DEF LockedCheckHolds
    <2> QED BY <2>1, <2>3, <2>4 DEF Live, Remaining
<1> QED BY <1>1, <1>3, <1>4 DEF LineInv

\* A step that leaves the lines alone, and after which whoever holds one held it.
LEMMA MakersKept ==
    ASSUME LineInv, UNCHANGED item, MakingTypes', RequestsFit',
           \A u \in Workers : Serving(u, "produce")' /\ req'[u].made > 0 => req'[u] = req[u]
    PROVE  LineInv'
<1>1. \A u \in Workers : Serving(u, "produce")' /\ req'[u].made > 0 => Serving(u, "produce")
    BY DEF Serving
<1>2. OneMaker'
    BY <1>1 DEF LineInv, OneMaker, Makes
<1>3. LockedCheckHolds'
    BY <1>1 DEF LineInv, LockedCheckHolds, Live, Remaining
<1> QED BY <1>2, <1>3 DEF LineInv

LEMMA NobodyMakes ==
    ASSUME MakingTypes, NEW i \in Items, LineFree(i)
    PROVE  \A u \in Workers : ~Makes(u, i)
    BY DEF LineFree, Makes

-----------------------------------------------------------------------------
(* Unlocked requests *)

LEMMA LineLoad ==
    ASSUME LineInv, NEW w \in Workers, NEW op \in Kinds, NEW o \in Orders, NEW v \in Variants,
           NEW i \in Items \cup {NoItem}, Load(w, op, o, v, i)
    PROVE  LineInv' /\ UNCHANGED <<state, announced, saleOf>>
<1> MakingTypes /\ RequestsFit
    BY DEF LineInv
<1> DEFINE had == IF op = "add" /\ i # NoItem THEN item[i].quantity ELSE 0
           r   == [op |-> op, order |-> o, seen |-> state[o], item |-> i, variant |-> v,
                   made |-> 0, had |-> had]
<1>1. UNCHANGED <<state, item, saleOf, announced>> /\ req' = [req EXCEPT ![w] = r]
    BY DEF Load
<1>2. had \in Nat
    <2>1. CASE op = "add" /\ i # NoItem
        <3>1. i \in LinesOf(o)
            BY <2>1 DEF Load, ReadBy
        <3>2. item[i] \in Line
            BY <3>1 DEF LinesOf, Live, MakingTypes, Unused, Gone
        <3> QED BY <3>2 DEF Line
    <2>2. CASE ~(op = "add" /\ i # NoItem)
        BY <2>2
    <2> QED BY <2>1, <2>2
<1>3. op \in Unlocked \cup Locked
    BY OrdersAssumption
<1>4. r \in Request
    BY <1>2, <1>3 DEF Request, MakingTypes
<1>5. MakingTypes'
    BY <1>1, <1>4 DEF MakingTypes
<1>6. op \in {"remove", "produce"} => i \in Items
    BY DEF Load, ReadBy, LinesOf
<1>7. req'[w] = r /\ \A u \in Workers \ {w} : req'[u] = req[u]
    BY <1>1 DEF MakingTypes
<1>8. RequestsFit'
    <2>1. \A u \in Workers \ {w} :
              Serving(u, "produce")' \/ Serving(u, "remove")' => req'[u].item \in Items
        BY <1>7 DEF RequestsFit, Serving
    <2>2. Serving(w, "produce")' \/ Serving(w, "remove")' => req'[w].item \in Items
        BY <1>6, <1>7 DEF Serving
    <2> QED BY <2>1, <2>2 DEF RequestsFit
<1>9. req'[w].made = 0
    BY <1>7
<1> HIDE DEF r
<1> QED BY <1>1, <1>5, <1>7, <1>8, <1>9, MakersKept

LEMMA LineUnlocked ==
    ASSUME LineInv, NEW w \in Workers, UnlockedStep(w) \/ Refuse(w)
    PROVE  LineInv' /\ UNCHANGED <<announced, saleOf>> /\ (Cancel(w) \/ UNCHANGED state)
<1> MakingTypes /\ RequestsFit
    BY DEF LineInv
<1>1. Finish(w) /\ UNCHANGED <<announced, saleOf>> /\ (Cancel(w) \/ UNCHANGED state)
    BY DEF UnlockedStep, AddLine, GrowLine, RemoveLine, TakeDeposit, Cancel, Refuse
<1>2. req' \in [Workers -> Request \cup {Idle}]
    BY <1>1, FreedRequest
<1>3. ASSUME UNCHANGED <<item, state>> PROVE LineInv'
    <2>1. MakingTypes'
        BY <1>1, <1>2, <1>3 DEF MakingTypes
    <2> QED BY <1>1, <1>3, <2>1, LinesKept
<1>4. ASSUME NEW i \in Items, NEW q \in Units, AddLine(w, i, q) PROVE LineInv'
    <2> DEFINE row == [is |-> "live", order |-> req[w].order, variant |-> req[w].variant,
                       quantity |-> q, produced |-> 0]
    <2>1. req[w] \in Request
        BY <1>4, ServedRequest DEF AddLine
    <2>2. q \in Nat /\ q >= 0
        BY OrdersAssumption DEF Units
    <2>3. row \in Line /\ row.is = "live" /\ row.produced <= row.quantity
        BY <2>1, <2>2 DEF Line, Request
    <2>4. item[i].is # "live" /\ item' = [item EXCEPT ![i] = row] /\ UNCHANGED state
        BY <1>4 DEF AddLine, Unused
    <2> HIDE DEF row
    <2>5. MakingTypes'
        BY <1>1, <1>2, <2>3, <2>4 DEF MakingTypes
    <2>6. \A u \in Workers : ~Makes(u, i)
        BY <2>4 DEF LineInv, LockedCheckHolds, Makes, Live
    <2>7. \A j \in Items \ {i} : item'[j] = item[j]
        BY <2>4 DEF MakingTypes
    <2> QED BY <1>1, <2>5, <2>6, <2>7, LinesKept
<1>5. ASSUME NEW q \in Units, GrowLine(w, q) PROVE LineInv'
    <2> DEFINE i   == req[w].item
               row == [item[i] EXCEPT !.quantity = req[w].had + q]
    <2>1. req[w] \in Request /\ i # NoItem /\ LineFree(i) /\ Live(i) /\ RowAllowed(row)
          /\ item' = [item EXCEPT ![i] = row] /\ UNCHANGED state
        BY <1>5, ServedRequest DEF GrowLine
    <2>2. i \in Items /\ item[i] \in Line
        BY <2>1 DEF Request, Live, MakingTypes, Unused, Gone
    <2>3. req[w].had + q \in Nat
        BY <2>1, OrdersAssumption DEF Request, Units
    <2>4. row \in Line /\ row.produced <= row.quantity
        BY <2>1, <2>2, <2>3 DEF Line, RowAllowed
    <2> HIDE DEF row
    <2>5. MakingTypes'
        BY <1>1, <1>2, <2>1, <2>2, <2>4 DEF MakingTypes
    <2>6. \A u \in Workers : ~Makes(u, i)
        BY <2>1, <2>2, NobodyMakes
    <2>7. \A j \in Items : j # i => item'[j] = item[j]
        BY <2>1 DEF MakingTypes
    <2> QED BY <1>1, <2>5, <2>6, <2>7, LinesKept
<1>6. ASSUME RemoveLine(w) PROVE LineInv'
    <2> DEFINE i == req[w].item
    <2>1. i \in Items /\ LineFree(i) /\ item' = [item EXCEPT ![i] = Gone] /\ UNCHANGED state
        BY <1>6 DEF RemoveLine, RequestsFit
    <2>2. MakingTypes'
        BY <1>1, <1>2, <2>1 DEF MakingTypes, Gone
    <2>3. \A u \in Workers : ~Makes(u, i)
        BY <2>1, NobodyMakes
    <2>4. \A j \in Items : j # i => item'[j] = item[j]
        BY <2>1 DEF MakingTypes
    <2> QED BY <1>1, <2>2, <2>3, <2>4, LinesKept
<1>7. ASSUME Cancel(w) PROVE LineInv'
    <2>1. req[w] \in Request /\ UNCHANGED item
          /\ state' = [state EXCEPT ![req[w].order] = "cancelled"]
        BY <1>7, ServedRequest DEF Cancel
    <2>2. MakingTypes'
        BY <1>1, <1>2, <2>1 DEF MakingTypes, States
    <2> QED BY <1>1, <2>1, <2>2, LinesKept
<1> QED BY <1>1, <1>3, <1>4, <1>5, <1>6, <1>7 DEF UnlockedStep, TakeDeposit, Refuse

-----------------------------------------------------------------------------
(* Producing and handing over *)

LEMMA LineProduceLine ==
    ASSUME LineInv, NEW w \in Workers, NEW q \in Units, ProduceLine(w, q)
    PROVE  LineInv' /\ UNCHANGED <<state, announced, saleOf>>
<1> DEFINE i == req[w].item
<1> MakingTypes /\ RequestsFit /\ OneMaker /\ LockedCheckHolds
    BY DEF LineInv
<1>1. /\ req[w] \in Request /\ req[w].op = "produce" /\ i \in Items
      /\ LineFree(i) /\ Live(i) /\ q <= Remaining(i)
      /\ req' = [req EXCEPT ![w].made = q] /\ UNCHANGED <<state, item, saleOf, announced>>
    BY ServedRequest DEF ProduceLine, RequestsFit
<1>2. q \in Nat /\ q > 0
    BY OrdersAssumption DEF Units
<1>3. /\ req'[w] \in Request /\ req'[w].op = "produce" /\ req'[w].item = i /\ req'[w].made = q
      /\ \A u \in Workers \ {w} : req'[u] = req[u]
    BY <1>1, <1>2 DEF Request, MakingTypes
<1>4. MakingTypes'
    BY <1>1, <1>3 DEF MakingTypes
<1>5. RequestsFit'
    <2>1. \A u \in Workers \ {w} :
              Serving(u, "produce")' \/ Serving(u, "remove")' => req'[u].item \in Items
        BY <1>3 DEF RequestsFit, Serving
    <2>2. req'[w].item \in Items
        BY <1>1, <1>3
    <2> QED BY <2>1, <2>2 DEF RequestsFit
<1>6. \A u \in Workers \ {w} : \A j \in Items : Makes(u, j)' <=> Makes(u, j)
    BY <1>3 DEF Makes, Serving
<1>7. \A j \in Items : Makes(w, j)' => j = i
    BY <1>3 DEF Makes
<1>8. \A u \in Workers : ~Makes(u, i)
    BY <1>1, NobodyMakes
<1>9. OneMaker'
    BY <1>6, <1>7, <1>8 DEF OneMaker
<1>10. LockedCheckHolds'
    <2> SUFFICES ASSUME NEW u \in Workers, Serving(u, "produce")', req'[u].made > 0
                 PROVE  Live(req[u].item)' /\ req'[u].made <= Remaining(req[u].item)'
        BY DEF LockedCheckHolds
    <2>1. CASE u = w
        BY <1>1, <1>3, <2>1 DEF Live, Remaining
    <2>2. CASE u # w
        BY <1>1, <1>3, <2>2 DEF LockedCheckHolds, Serving, Live, Remaining
    <2> QED BY <2>1, <2>2
<1> QED BY <1>1, <1>4, <1>5, <1>9, <1>10 DEF LineInv

LEMMA LineProduceOrder ==
    ASSUME LineInv, NEW w \in Workers, ProduceOrder(w)
    PROVE  LineInv'
<1> MakingTypes /\ RequestsFit /\ OneMaker /\ LockedCheckHolds
    BY DEF LineInv
<1> DEFINE i   == req[w].item
           row == [item[i] EXCEPT !.produced = @ + req[w].made]
<1>1. /\ req[w] \in Request /\ i \in Items /\ Makes(w, i)
      /\ Live(i) /\ req[w].made <= Remaining(i)
    BY ServedRequest DEF ProduceOrder, RequestsFit, Makes, LockedCheckHolds
<1>2. item[i] \in Line /\ item[i].quantity \in Nat /\ item[i].produced \in Nat
      /\ req[w].made \in Nat /\ req[w].order \in Orders
    BY <1>1 DEF Live, MakingTypes, Unused, Gone, Line, Request
<1>3. row \in Line /\ row.produced <= row.quantity
    BY <1>1, <1>2 DEF Line, Remaining
<1>4. item' = [item EXCEPT ![i] = row] /\ Finish(w) /\ UNCHANGED saleOf
    BY DEF ProduceOrder
<1> HIDE DEF row
<1>5. state' \in [Orders -> States]
    BY <1>2 DEF ProduceOrder, MakingTypes, States, Open
<1>6. announced' \in [Orders -> Nat]
    BY <1>2 DEF ProduceOrder, MakingTypes
<1>7. MakingTypes'
    BY <1>3, <1>4, <1>5, <1>6, FreedRequest DEF MakingTypes
<1>8. \A u \in Workers \ {w} : \A j \in Items : Makes(u, j) => item'[j] = item[j]
    BY <1>1, <1>4 DEF OneMaker, MakingTypes
<1> QED BY <1>4, <1>7, <1>8, LinesKept

LEMMA LineHandOver ==
    ASSUME LineInv, NEW w \in Workers, NEW s \in Sales, HandOver(w, s)
    PROVE  LineInv'
<1> MakingTypes
    BY DEF LineInv
<1>1. req[w] \in Request /\ Finish(w) /\ UNCHANGED <<item, announced>>
    BY ServedRequest DEF HandOver
<1>2. /\ state' = [state EXCEPT ![req[w].order] = "delivered"]
      /\ saleOf' = [saleOf EXCEPT ![req[w].order] = s]
    BY DEF HandOver
<1>3. MakingTypes'
    BY <1>1, <1>2, FreedRequest DEF MakingTypes, States
<1> QED BY <1>1, <1>3, LinesKept

-----------------------------------------------------------------------------
(* Every step keeps the invariant *)

\* Steps of a request that leave orders where they are.
LEMMA OrdersKept ==
    ASSUME OrderInv, LineInv', UNCHANGED <<state, announced, saleOf>>
    PROVE  OrderInv'
    BY DEF OrderInv, NotYetTold, AnnouncedOnce, SoldIsClosed

LEMMA OrderNew ==
    ASSUME OrderInv, NEW o \in Orders, NewOrder(o)
    PROVE  OrderInv'
<1> LineInv /\ MakingTypes /\ NotYetTold /\ AnnouncedOnce /\ SoldIsClosed
    BY DEF OrderInv, LineInv
<1>1. UNCHANGED <<item, req, announced, saleOf>> /\ state[o] = "none"
      /\ state' = [state EXCEPT ![o] = "new"]
    BY DEF NewOrder
<1>2. MakingTypes'
    BY <1>1 DEF MakingTypes, States, Open
<1>3. RequestsFit'
    BY <1>1 DEF LineInv, RequestsFit, Serving
<1>4. LineInv'
    BY <1>1, <1>2, <1>3, MakersKept
<1>5. NotYetTold' /\ AnnouncedOnce' /\ SoldIsClosed'
    BY <1>1 DEF NotYetTold, AnnouncedOnce, SoldIsClosed, MakingTypes
<1> QED BY <1>4, <1>5 DEF OrderInv

LEMMA OrderCancel ==
    ASSUME OrderInv, NEW w \in Workers, Cancel(w), LineInv'
    PROVE  OrderInv'
<1> MakingTypes /\ NotYetTold /\ AnnouncedOnce /\ SoldIsClosed
    BY DEF OrderInv, LineInv
<1>1. UNCHANGED <<announced, saleOf>> /\ state' = [state EXCEPT ![req[w].order] = "cancelled"]
    BY DEF Cancel
<1>2. NotYetTold' /\ AnnouncedOnce' /\ SoldIsClosed'
    BY <1>1 DEF NotYetTold, AnnouncedOnce, SoldIsClosed, MakingTypes
<1> QED BY <1>2 DEF OrderInv

LEMMA OrderProduce ==
    ASSUME OrderInv, NEW w \in Workers, ProduceOrder(w)
    PROVE  OrderInv' /\ UNCHANGED saleOf
<1> MakingTypes /\ NotYetTold /\ AnnouncedOnce /\ SoldIsClosed
    BY DEF OrderInv, LineInv
<1>1. PICK o \in Orders : o = req[w].order
    BY ServedRequest DEF ProduceOrder, Request
<1>2. PICK ready \in BOOLEAN :
          /\ ready => state[o] \in {"new", "in_production"}
          /\ state' = [state EXCEPT ![o] = IF ready THEN "ready"
                                           ELSE IF @ = "new" THEN "in_production" ELSE @]
          /\ announced' = [announced EXCEPT ![o] = IF ready THEN @ + 1 ELSE @]
    BY <1>1 DEF ProduceOrder, BecomesReady
<1>3. UNCHANGED saleOf /\ LineInv'
    BY LineProduceOrder DEF ProduceOrder, OrderInv
<1>4. \A p \in Orders \ {o} : state'[p] = state[p] /\ announced'[p] = announced[p]
    BY <1>2 DEF MakingTypes
<1>5. CASE ready
    <2>1. announced[o] = 0 /\ state'[o] = "ready" /\ announced'[o] = 1
        BY <1>2, <1>5 DEF NotYetTold, MakingTypes
    <2>2. NotYetTold' /\ AnnouncedOnce'
        BY <1>4, <2>1 DEF NotYetTold, AnnouncedOnce
    <2>3. SoldIsClosed'
        BY <1>2, <1>3, <1>4, <1>5, <2>1 DEF SoldIsClosed
    <2> QED BY <1>3, <2>2, <2>3 DEF OrderInv
<1>6. CASE ~ready
    <2>1. /\ announced'[o] = announced[o]
          /\ state'[o] = IF state[o] = "new" THEN "in_production" ELSE state[o]
        BY <1>2, <1>6 DEF MakingTypes
    <2>2. NotYetTold' /\ AnnouncedOnce'
        BY <1>4, <2>1 DEF NotYetTold, AnnouncedOnce
    <2>3. SoldIsClosed'
        BY <1>3, <1>4, <2>1 DEF SoldIsClosed
    <2> QED BY <1>3, <2>2, <2>3 DEF OrderInv
<1> QED BY <1>3, <1>5, <1>6

\* A hand-over finds its order open, so it has no sale yet, and takes a sale that
\* no order has.
LEMMA OrderHandOver ==
    ASSUME OrderInv, NEW w \in Workers, NEW s \in Sales, HandOver(w, s)
    PROVE  /\ OrderInv'
           /\ \E o \in Orders : /\ saleOf[o] = NoSale /\ saleOf'[o] = s
                                /\ \A p \in Orders \ {o} : saleOf'[p] = saleOf[p] /\ saleOf[p] # s
<1> MakingTypes /\ NotYetTold /\ AnnouncedOnce /\ SoldIsClosed
    BY DEF OrderInv, LineInv
<1>1. PICK o \in Orders : o = req[w].order
    BY ServedRequest DEF HandOver, Request
<1>2. /\ state[o] \in Open /\ \A p \in Orders : saleOf[p] # s
      /\ state' = [state EXCEPT ![o] = "delivered"] /\ saleOf' = [saleOf EXCEPT ![o] = s]
      /\ UNCHANGED announced
    BY <1>1 DEF HandOver, CanHandOver
<1>3. saleOf[o] = NoSale
    BY <1>2 DEF SoldIsClosed, Open
<1>4. /\ state'[o] = "delivered" /\ saleOf'[o] = s
      /\ \A p \in Orders \ {o} : state'[p] = state[p] /\ saleOf'[p] = saleOf[p]
    BY <1>2 DEF MakingTypes
<1>5. NotYetTold' /\ AnnouncedOnce' /\ SoldIsClosed'
    BY <1>2, <1>4 DEF NotYetTold, AnnouncedOnce, SoldIsClosed
<1>6. LineInv'
    BY LineHandOver DEF OrderInv
<1> QED BY <1>2, <1>3, <1>4, <1>5, <1>6 DEF OrderInv

LEMMA OrderStep ==
    ASSUME OrderInv, [Next]_ovars
    PROVE  /\ OrderInv'
           /\ \/ UNCHANGED saleOf
              \/ \E w \in Workers, s \in Sales : HandOver(w, s)
<1> LineInv
    BY DEF OrderInv
<1>1. CASE UNCHANGED ovars
    <2>1. UNCHANGED <<state, item, saleOf, announced, req>>
        BY <1>1 DEF ovars
    <2>2. MakingTypes' /\ RequestsFit'
        BY <2>1 DEF LineInv, MakingTypes, RequestsFit, Serving
    <2> QED BY <2>1, <2>2, MakersKept, OrdersKept
<1>2. ASSUME NEW o \in Orders, NewOrder(o) PROVE OrderInv' /\ UNCHANGED saleOf
    BY <1>2, OrderNew DEF NewOrder
<1>3. ASSUME NEW w \in Workers, NEW op \in Kinds, NEW o \in Orders, NEW v \in Variants,
             NEW i \in Items \cup {NoItem}, Load(w, op, o, v, i)
      PROVE  OrderInv' /\ UNCHANGED saleOf
    BY <1>3, LineLoad, OrdersKept
<1>4. ASSUME NEW w \in Workers, UnlockedStep(w) \/ Refuse(w)
      PROVE  OrderInv' /\ UNCHANGED saleOf
    BY <1>4, LineUnlocked, OrderCancel, OrdersKept
<1>5. ASSUME NEW w \in Workers, NEW q \in Units, ProduceLine(w, q)
      PROVE  OrderInv' /\ UNCHANGED saleOf
    BY <1>5, LineProduceLine, OrdersKept
<1>6. ASSUME NEW v \in Variants, NEW n, MoveStock(v, n)
      PROVE  OrderInv' /\ UNCHANGED saleOf
    <2>1. UNCHANGED <<state, item, saleOf, announced, req>>
        BY <1>6 DEF MoveStock
    <2>2. MakingTypes' /\ RequestsFit'
        BY <2>1 DEF LineInv, MakingTypes, RequestsFit, Serving
    <2> QED BY <2>1, <2>2, MakersKept, OrdersKept
<1> QED BY <1>1, <1>2, <1>3, <1>4, <1>5, <1>6, OrderProduce, OrderHandOver DEF Next, LockedStep

-----------------------------------------------------------------------------
(* The theorems *)

\* orders/services.py, mark_produced: what was checked under the line's lock is
\* still so at the commit, and a client hears once that the order is ready.
THEOREM MakingIsSafe == Spec => [](LockedCheckHolds /\ AnnouncedOnce)
<1>1. OrderInv => LockedCheckHolds /\ AnnouncedOnce
    BY DEF OrderInv, LineInv
<1>2. OrderInv /\ [Next]_ovars => OrderInv'
    BY OrderStep
<1> QED BY <1>1, <1>2, OrderInit, PTL DEF Spec

\* orders/services.py, hand_over: an order becomes a sale once, and no two orders
\* the same, whatever requests overlap and although a cancellation may overwrite
\* the status of an order that was handed over.
THEOREM HandOverIsOnce == Spec => HandedOverOnce
<1> DEFINE SalesDiffer ==
        \A o \in Orders : saleOf[o] # NoSale => \A p \in Orders \ {o} : saleOf[p] # saleOf[o]
<1>1. Init => SalesDiffer
    BY DEF Init
<1>2. ASSUME OrderInv, SalesDiffer, [Next]_ovars
      PROVE  /\ SalesDiffer'
             /\ \A o \in Orders :
                   /\ saleOf[o] # NoSale => saleOf'[o] = saleOf[o]
                   /\ saleOf'[o] # NoSale => \A p \in Orders \ {o} : saleOf'[p] # saleOf'[o]
    <2>1. CASE UNCHANGED saleOf
        BY <1>2, <2>1
    <2>2. ASSUME NEW w \in Workers, NEW s \in Sales, HandOver(w, s)
          PROVE  /\ SalesDiffer'
                 /\ \A o \in Orders : saleOf[o] # NoSale => saleOf'[o] = saleOf[o]
        <3>1. PICK o \in Orders :
                  /\ saleOf[o] = NoSale /\ saleOf'[o] = s
                  /\ \A p \in Orders \ {o} : saleOf'[p] = saleOf[p] /\ saleOf[p] # s
            BY <1>2, <2>2, OrderHandOver
        <3> QED BY <1>2, <3>1
    <2> QED BY <1>2, <2>1, <2>2, OrderStep
<1>3. OrderInv /\ SalesDiffer /\ [Next]_ovars => OrderInv' /\ SalesDiffer'
    BY <1>2, OrderStep
<1>4. OrderInv /\ SalesDiffer /\ [Next]_ovars =>
          [\A o \in Orders :
              /\ saleOf[o] # NoSale => saleOf'[o] = saleOf[o]
              /\ saleOf'[o] # NoSale =>
                    \A p \in Orders \ {o} : saleOf'[p] # saleOf'[o]]_ovars
    BY <1>2
<1> HIDE DEF SalesDiffer
<1> QED BY <1>1, <1>3, <1>4, OrderInit, PTL DEF Spec, HandedOverOnce

-----------------------------------------------------------------------------
(* What lines add up to, and what is in stock *)

Quantities == [i \in Items |-> IF Live(i) THEN item[i].quantity ELSE 0]
Rows(os, v) == {i \in Items : Live(i) /\ item[i].order \in os /\ item[i].variant = v}

\* Units that a line has put into the stock, at most: nobody knows of a deleted one.
Made == [i \in Items |-> IF Live(i) THEN item[i].produced
                         ELSE IF item[i] = Gone THEN MaxUnits ELSE 0]

StockTypes ==
    /\ deposit \in [Deposits -> Taken \cup {Unused}]
    /\ sold    \in [Sales -> [Variants -> Nat]]
    /\ onHand  \in [Variants -> Int]

\* No line is empty or above the bound, and the stock is within what other
\* movements and the lines can have made of it.
RowsBounded == \A i \in Items : Live(i) => item[i].quantity \in Units

StockBounded ==
    \A v \in Variants : -MaxShort <= onHand[v] /\ onHand[v] <= MaxStock + SumOf(Made, Items)

StockInv == StockTypes /\ RowsBounded /\ StockBounded

LEMMA LineFacts ==
    ASSUME MakingTypes, NEW i \in Items, Live(i)
    PROVE  /\ item[i] \in Line /\ item[i].order \in Orders /\ item[i].variant \in Variants
           /\ item[i].quantity \in Nat /\ item[i].produced \in Nat
           /\ item[i].produced <= item[i].quantity
           /\ item[i] # Gone /\ item[i] # Unused
<1>1. item[i].is = "live" /\ item[i] \in Line \cup {Unused, Gone}
    BY DEF Live, MakingTypes
<1>2. Unused.is # "live" /\ Gone.is # "live"
    BY DEF Unused, Gone
<1>3. item[i] \in Line
    BY <1>1, <1>2
<1> QED BY <1>1, <1>2, <1>3 DEF Line, MakingTypes

LEMMA OrderedIsSum ==
    ASSUME MakingTypes, NEW os, NEW v
    PROVE  /\ IsFiniteSet(Rows(os, v)) /\ Rows(os, v) \subseteq Items
           /\ \A i \in Items : Quantities[i] \in Nat
           /\ Ordered(os, v) = SumOf(Quantities, Rows(os, v))
           /\ Ordered(os, v) \in Nat
<1>1. IsFiniteSet(Rows(os, v)) /\ Rows(os, v) \subseteq Items
    BY OrdersAssumption, FS_Subset DEF Rows
<1>2. \A i \in Items : Quantities[i] \in Nat
    BY LineFacts DEF Quantities
<1>3. Ordered(os, v) = SumOf(Quantities, Rows(os, v))
    <2> DEFINE S == {i \in UNION {LinesOf(o) : o \in os} : item[i].variant = v}
               f == [i \in S |-> item[i].quantity]
    <2>1. S = Rows(os, v)
        BY DEF LinesOf, Rows
    <2>2. MapThenSumSet(LAMBDA i : item[i].quantity, S) = SumOf(f, S)
        <3> HIDE DEF S
        <3> QED BY DEF SumOf, MapThenSumSet, MapThenFoldSet
    <2>3. \A i \in S : f[i] = Quantities[i]
        BY <2>1 DEF Rows, Quantities
    <2> HIDE DEF S, f
    <2>4. SumOf(f, S) = SumOf(Quantities, S)
        BY <1>1, <2>1, <2>3, SumSame
    <2> QED BY <2>1, <2>2, <2>4 DEF Ordered, S
<1>4. SumOf(Quantities, Rows(os, v)) \in Nat
    BY <1>1, <1>2, SumNat
<1> QED BY <1>1, <1>2, <1>3, <1>4

LEMMA CartTyped ==
    ASSUME MakingTypes, NEW o
    PROVE  Cart(o) \in [Variants -> Nat] /\ \A v \in Variants : Cart(o)[v] = Ordered({o}, v)
    BY OrderedIsSum DEF Cart

LEMMA MadeFacts ==
    ASSUME MakingTypes, RowsBounded
    PROVE  /\ \A i \in Items : Made[i] \in 0..MaxUnits /\ Made[i] \in Nat
           /\ SumOf(Made, Items) \in Nat /\ SumOf(Made, Items) <= MaxUnits * Cardinality(Items)
           /\ IsFiniteSet(Items) /\ MaxUnits \in Nat /\ MaxUnits > 0
           /\ Cardinality(Items) \in Nat /\ Cardinality(Items) > 0
<1>1. IsFiniteSet(Items) /\ MaxUnits \in Nat /\ MaxUnits > 0
    BY OrdersAssumption
<1>2. ASSUME NEW i \in Items PROVE Made[i] \in 0..MaxUnits
    <2>1. CASE Live(i)
        BY <1>1, <2>1, LineFacts DEF Made, RowsBounded, Units
    <2>2. CASE ~Live(i)
        BY <1>1, <2>2 DEF Made
    <2> QED BY <2>1, <2>2
<1>3. \A i \in Items : Made[i] \in Nat /\ Made[i] \in Int /\ Made[i] <= MaxUnits
    BY <1>1, <1>2
<1>4. SumOf(Made, Items) \in Nat
    BY <1>1, <1>3, SumNat
<1>5. SumOf(Made, Items) <= MaxUnits * Cardinality(Items)
    BY <1>1, <1>3, SumBound
<1>6. Cardinality(Items) \in Nat /\ Cardinality(Items) > 0
    <2>1. Cardinality(Items) \in Nat /\ Cardinality(Items) # 0
        BY <1>1, OrdersAssumption, FS_CardinalityType, FS_EmptySet
    <2> QED BY <2>1
<1> QED BY <1>1, <1>2, <1>3, <1>4, <1>5, <1>6

\* The same of the state after a step.
LEMMA MadeAfter ==
    MakingTypes' /\ RowsBounded' =>
        ((\A i \in Items : Made[i] \in Nat) /\ SumOf(Made, Items) \in Nat)'
<1>1. MakingTypes /\ RowsBounded =>
          (\A i \in Items : Made[i] \in Nat) /\ SumOf(Made, Items) \in Nat
    BY MadeFacts
<1> QED BY <1>1, PTL

LEMMA MadeGrows ==
    ASSUME MakingTypes, RowsBounded, MakingTypes', RowsBounded',
           \A i \in Items : Made[i] <= Made'[i]
    PROVE  SumOf(Made, Items) <= SumOf(Made, Items)'
<1>1. PICK f, g : f = Made /\ g = Made'
    OBVIOUS
<1>2. \A i \in Items : f[i] \in Int /\ g[i] \in Int /\ f[i] <= g[i]
    <2>1. \A i \in Items : Made[i] \in Nat
        BY MadeFacts
    <2>2. \A i \in Items : Made'[i] \in Nat
        BY MadeAfter
    <2> QED BY <1>1, <2>1, <2>2
<1>3. SumOf(f, Items) <= SumOf(g, Items)
    BY <1>2, MadeFacts, SumAtMost
<1> QED BY <1>1, <1>3

\* A step that brings no stock in.
LEMMA StockKeeps ==
    ASSUME OrderInv, StockInv, OrderInv', StockTypes', RowsBounded',
           \A i \in Items : Made[i] <= Made'[i],
           \A v \in Variants : -MaxShort <= onHand'[v]
              /\ (onHand'[v] <= onHand[v] \/ onHand'[v] <= MaxStock)
    PROVE  StockInv'
<1>1. /\ MakingTypes /\ MakingTypes' /\ RowsBounded
    BY DEF OrderInv, LineInv, StockInv
<1>2. SumOf(Made, Items) \in Nat /\ SumOf(Made, Items) <= SumOf(Made, Items)'
    BY <1>1, MadeFacts, MadeGrows
<1>3. SumOf(Made, Items)' \in Nat
    <2>1. RowsBounded'
        OBVIOUS
    <2> QED BY <1>1, <2>1, MadeAfter
<1>4. MaxStock \in Nat /\ MaxShort \in Nat
    BY OrdersAssumption
<1>5. ASSUME NEW v \in Variants PROVE onHand'[v] <= MaxStock + SumOf(Made, Items)'
    <2>1. onHand[v] \in Int /\ onHand'[v] \in Int /\ onHand[v] <= MaxStock + SumOf(Made, Items)
        BY DEF StockInv, StockTypes, StockBounded
    <2> QED BY <1>2, <1>3, <1>4, <2>1
<1> QED BY <1>5 DEF StockInv, StockBounded

LEMMA StockBounds ==
    ASSUME StockInv
    PROVE  /\ \A v \in Variants : onHand[v] \in Int /\ -MaxShort <= onHand[v]
           /\ MaxShort \in Nat /\ MaxStock \in Nat
    BY OrdersAssumption DEF StockInv, StockTypes, StockBounded

LEMMA StockUnlocked ==
    ASSUME OrderInv, StockInv, OrderInv', NEW w \in Workers, UnlockedStep(w) \/ Refuse(w)
    PROVE  StockInv'
<1>1. MakingTypes /\ RequestsFit /\ StockTypes /\ RowsBounded
    BY DEF OrderInv, LineInv, StockInv
<1>2. UNCHANGED <<sold, onHand>>
    BY DEF UnlockedStep, AddLine, GrowLine, RemoveLine, TakeDeposit, Cancel, Refuse
<1>3. \A v \in Variants : -MaxShort <= onHand'[v] /\ onHand'[v] <= onHand[v]
    BY <1>2, StockBounds
<1>4. \A i \in Items : Made[i] \in 0..MaxUnits
    BY <1>1, MadeFacts
<1>5. ASSUME UNCHANGED item, StockTypes' PROVE StockInv'
    <2>1. RowsBounded' /\ Made' = Made
        BY <1>1, <1>5 DEF RowsBounded, Made, Live
    <2> QED BY <1>3, <1>4, <1>5, <2>1, StockKeeps
<1>6. ASSUME NEW i \in Items, NEW row, item' = [item EXCEPT ![i] = row], UNCHANGED deposit,
             row.is = "live" => row.quantity \in Units,
             \/ row = Gone
             \/ row.is = "live" /\ Live(i) /\ row.produced = item[i].produced
             \/ row.is = "live" /\ item[i] = Unused /\ row.produced = 0
      PROVE  StockInv'
    <2>1. item'[i] = row /\ \A j \in Items \ {i} : item'[j] = item[j]
        BY <1>1, <1>6 DEF MakingTypes
    <2>2. StockTypes'
        BY <1>1, <1>2, <1>6 DEF StockTypes
    <2>3. RowsBounded'
        BY <1>1, <1>6, <2>1 DEF RowsBounded, Live
    <2>4. \A j \in Items \ {i} : Made'[j] = Made[j]
        BY <2>1 DEF Made, Live
    <2>5. Made[i] <= Made'[i]
        <3>1. CASE row = Gone
            <4>1. Made'[i] = MaxUnits
                BY <2>1, <3>1 DEF Made, Live, Gone
            <4> QED BY <1>4, <4>1, OrdersAssumption
        <3>2. CASE row.is = "live" /\ Live(i) /\ row.produced = item[i].produced
            <4>1. Made'[i] = Made[i]
                BY <2>1, <3>2 DEF Made, Live
            <4> QED BY <1>4, <4>1
        <3>3. CASE row.is = "live" /\ item[i] = Unused /\ row.produced = 0
            <4>1. Made'[i] = 0 /\ Made[i] = 0
                BY <2>1, <3>3 DEF Made, Live, Unused, Gone
            <4> QED BY <4>1
        <3> QED BY <1>6, <3>1, <3>2, <3>3
    <2> QED BY <1>3, <1>4, <2>2, <2>3, <2>4, <2>5, StockKeeps
<1>7. ASSUME NEW i \in Items, NEW q \in Units, AddLine(w, i, q) PROVE StockInv'
    <2> DEFINE row == [is |-> "live", order |-> req[w].order, variant |-> req[w].variant,
                       quantity |-> q, produced |-> 0]
    <2>1. item' = [item EXCEPT ![i] = row] /\ UNCHANGED deposit /\ item[i] = Unused
        BY <1>7 DEF AddLine
    <2>2. row.is = "live" /\ row.quantity \in Units /\ row.produced = 0
        OBVIOUS
    <2> HIDE DEF row
    <2> QED BY <1>6, <2>1, <2>2
<1>8. ASSUME NEW q \in Units, GrowLine(w, q) PROVE StockInv'
    <2> DEFINE i   == req[w].item
               row == [item[i] EXCEPT !.quantity = req[w].had + q]
    <2>1. /\ Live(i) /\ i \in Items /\ RowAllowed(row) /\ req[w].had + q <= MaxUnits
          /\ item' = [item EXCEPT ![i] = row] /\ UNCHANGED deposit /\ req[w].had \in Nat
        BY <1>1, <1>8, ServedRequest DEF GrowLine, Request
    <2>2. item[i] \in Line
        BY <1>1, <2>1, LineFacts
    <2>3. row.is = "live" /\ row.quantity = req[w].had + q /\ row.produced = item[i].produced
        BY <2>1, <2>2 DEF Line, Live
    <2> HIDE DEF row
    <2>4. row.quantity \in Units
        BY <2>1, <2>3, OrdersAssumption DEF Units
    <2> QED BY <1>6, <2>1, <2>3, <2>4
<1>9. ASSUME RemoveLine(w) PROVE StockInv'
    <2>1. /\ req[w].item \in Items /\ item' = [item EXCEPT ![req[w].item] = Gone]
          /\ UNCHANGED deposit /\ Gone.is # "live"
        BY <1>1, <1>9 DEF RemoveLine, RequestsFit, Gone
    <2> QED BY <1>6, <2>1
<1>10. ASSUME NEW d \in Deposits, TakeDeposit(w, d) PROVE StockInv'
    <2>1. req[w].order \in Orders
        BY <1>1, <1>10, ServedRequest DEF TakeDeposit, Request
    <2>2. UNCHANGED item /\ StockTypes'
        BY <1>1, <1>2, <1>10, <2>1 DEF TakeDeposit, StockTypes, Taken
    <2> QED BY <1>5, <2>2
<1>11. ASSUME Cancel(w) \/ Refuse(w) PROVE StockInv'
    <2>1. UNCHANGED <<item, deposit>>
        BY <1>11 DEF Cancel, Refuse
    <2> QED BY <1>1, <1>2, <1>5, <2>1 DEF StockTypes
<1> QED BY <1>7, <1>8, <1>9, <1>10, <1>11 DEF UnlockedStep

\* Production: what comes into the stock is what the line has made more.
LEMMA StockProduced ==
    ASSUME OrderInv, StockInv, OrderInv', NEW w \in Workers, ProduceOrder(w)
    PROVE  /\ StockInv' /\ req[w].made \in Nat
           /\ \E v \in Variants : onHand' = [onHand EXCEPT ![v] = @ + req[w].made]
           /\ \A v \in Variants : onHand'[v] <= MaxStock + MaxUnits * Cardinality(Items)
<1>1. MakingTypes /\ MakingTypes' /\ RequestsFit /\ LockedCheckHolds /\ StockTypes /\ RowsBounded
    BY DEF OrderInv, LineInv, StockInv
<1> DEFINE i == req[w].item
           n == req[w].made
           v == item[i].variant
           row == [item[i] EXCEPT !.produced = @ + n]
<1>2. i \in Items /\ Live(i) /\ n \in Nat
    BY <1>1, ServedRequest DEF ProduceOrder, RequestsFit, LockedCheckHolds, Request
<1>3. /\ item' = [item EXCEPT ![i] = row] /\ onHand' = [onHand EXCEPT ![v] = @ + n]
      /\ UNCHANGED <<deposit, sold>>
    BY DEF ProduceOrder
<1>4. item[i] \in Line /\ v \in Variants /\ item[i].produced \in Nat
    BY <1>1, <1>2, LineFacts
<1>5. row.is = "live" /\ row.quantity = item[i].quantity /\ row.produced = item[i].produced + n
    BY <1>2, <1>4 DEF Line, Live
<1> HIDE DEF row, n, v
<1>6. item'[i] = row /\ \A j \in Items \ {i} : item'[j] = item[j]
    BY <1>1, <1>2, <1>3 DEF MakingTypes
<1>7. RowsBounded'
    BY <1>1, <1>2, <1>5, <1>6 DEF RowsBounded, Live
<1>8. Made'[i] = Made[i] + n /\ \A j \in Items \ {i} : Made'[j] = Made[j]
    BY <1>2, <1>5, <1>6 DEF Made, Live
<1>9. SumOf(Made, Items)' = SumOf(Made, Items) + n /\ SumOf(Made, Items) \in Nat
      /\ SumOf(Made, Items)' <= MaxUnits * Cardinality(Items)
    <2>1. PICK f, g : f = Made /\ g = Made'
        OBVIOUS
    <2>2. \A j \in Items : f[j] \in Int /\ g[j] \in Int
        BY <1>1, <1>2, <1>8, <2>1, MadeFacts
    <2>3. g[i] = f[i] + n /\ \A j \in Items \ {i} : f[j] = g[j]
        BY <1>8, <2>1
    <2>4. SumOf(g, Items) = SumOf(f, Items) - f[i] + g[i]
        BY <1>1, <1>2, <2>2, <2>3, MadeFacts, SumChange
    <2>5. SumOf(f, Items) \in Nat
        BY <1>1, <2>1, MadeFacts
    <2>6. \A j \in Items : g[j] <= MaxUnits
        <3>1. row.produced <= row.quantity /\ row.quantity \in Units /\ Made'[i] = row.produced
            BY <1>1, <1>2, <1>5, <1>6, <1>7 DEF MakingTypes, RowsBounded, Live, Made
        <3>2. g[i] \in Int /\ g[i] = row.produced
            BY <1>2, <2>1, <2>2, <3>1
        <3>3. g[i] <= MaxUnits
            BY <1>4, <1>5, <3>1, <3>2, OrdersAssumption DEF Units, Line
        <3> QED BY <1>1, <1>8, <2>1, <3>3, MadeFacts
    <2>7. SumOf(g, Items) <= MaxUnits * Cardinality(Items)
        BY <1>1, <2>2, <2>6, MadeFacts, SumBound
    <2>8. f[i] \in Int /\ g[i] \in Int /\ n \in Int
        BY <1>2, <2>2 DEF n
    <2> QED BY <2>1, <2>3, <2>4, <2>5, <2>7, <2>8
<1>10. ASSUME NEW u \in Variants
       PROVE  /\ -MaxShort <= onHand'[u]
              /\ onHand'[u] <= MaxStock + SumOf(Made, Items)'
              /\ onHand'[u] <= MaxStock + MaxUnits * Cardinality(Items)
    <2>1. /\ onHand[u] \in Int /\ -MaxShort <= onHand[u]
          /\ onHand[u] <= MaxStock + SumOf(Made, Items)
          /\ onHand'[u] = IF u = v THEN onHand[u] + n ELSE onHand[u]
        BY <1>3 DEF StockInv, StockTypes, StockBounded
    <2>2. n \in Nat
        BY <1>2 DEF n
    <2>3. MaxStock \in Nat /\ MaxShort \in Nat /\ MaxUnits * Cardinality(Items) \in Nat
        BY <1>1, MadeFacts, OrdersAssumption
    <2> QED BY <1>9, <2>1, <2>2, <2>3
<1>11. StockTypes'
    <2>1. n \in Nat
        BY <1>2 DEF n
    <2>2. onHand' \in [Variants -> Int]
        <3>1. \A u \in Variants : onHand'[u] \in Int
            BY <1>1, <1>3, <2>1 DEF StockTypes
        <3>2. onHand' = [u \in Variants |-> onHand'[u]]
            BY <1>1, <1>3 DEF StockTypes
        <3> QED BY <3>1, <3>2
    <2> QED BY <1>1, <1>3, <2>2 DEF StockTypes
<1>12. StockInv'
    BY <1>7, <1>10, <1>11 DEF StockInv, StockBounded
<1>13. \E u \in Variants : onHand' = [onHand EXCEPT ![u] = @ + n]
    BY <1>3, <1>4 DEF v
<1> QED BY <1>2, <1>10, <1>12, <1>13 DEF n

LEMMA StockHandedOver ==
    ASSUME OrderInv, StockInv, OrderInv', NEW w \in Workers, NEW s \in Sales, HandOver(w, s)
    PROVE  StockInv'
<1>1. MakingTypes /\ StockTypes /\ RowsBounded
    BY DEF OrderInv, LineInv, StockInv
<1> DEFINE o == req[w].order
<1>2. /\ CanHandOver(w) /\ UNCHANGED item
      /\ sold' = [sold EXCEPT ![s] = Cart(o)] /\ onHand' = [v \in Variants |-> onHand[v] - Cart(o)[v]]
      /\ deposit' = [d \in Deposits |->
                        IF Links(d, o) THEN [deposit[d] EXCEPT !.sale = s] ELSE deposit[d]]
    BY DEF HandOver
<1>3. ASSUME NEW v \in Variants
      PROVE  onHand'[v] \in Int /\ -MaxShort <= onHand'[v] /\ onHand'[v] <= onHand[v]
    <2>1. Cart(o)[v] \in Nat /\ Ordered(OpenOrders \ {o}, v) \in Nat
        BY <1>1, CartTyped, OrderedIsSum
    <2>2. Cart(o)[v] > 0 => Cart(o)[v] <= onHand[v] - Ordered(OpenOrders \ {o}, v)
        BY <1>2 DEF CanHandOver
    <2>3. onHand'[v] = onHand[v] - Cart(o)[v]
        BY <1>2
    <2> HIDE DEF o
    <2> QED BY <2>1, <2>2, <2>3, StockBounds
<1>4. StockTypes'
    <2>1. sold' \in [Sales -> [Variants -> Nat]]
        BY <1>1, <1>2, CartTyped DEF StockTypes
    <2>2. ASSUME NEW d \in Deposits PROVE deposit'[d] \in Taken \cup {Unused}
        <3>1. CASE Links(d, o)
            <4>1. deposit[d] \in Taken
                BY <1>1, <3>1 DEF Links, StockTypes
            <4>2. deposit'[d] = [deposit[d] EXCEPT !.sale = s]
                BY <1>2, <3>1
            <4> QED BY <4>1, <4>2 DEF Taken
        <3>2. CASE ~Links(d, o)
            BY <1>1, <1>2, <3>2 DEF StockTypes
        <3> QED BY <3>1, <3>2
    <2>3. deposit' \in [Deposits -> Taken \cup {Unused}]
        <3>1. deposit' = [d \in Deposits |-> deposit'[d]]
            BY <1>2
        <3> QED BY <2>2, <3>1
    <2> QED BY <1>2, <1>3, <2>1, <2>3 DEF StockTypes
<1>5. RowsBounded' /\ Made' = Made /\ \A i \in Items : Made[i] \in 0..MaxUnits
    BY <1>1, <1>2, MadeFacts DEF RowsBounded, Made, Live
<1> QED BY <1>3, <1>4, <1>5, StockKeeps

LEMMA StockGoesOn ==
    ASSUME OrderInv, StockInv, [Next]_ovars
    PROVE  StockInv'
<1>1. OrderInv' /\ MakingTypes /\ StockTypes /\ RowsBounded
    BY OrderStep DEF OrderInv, LineInv, StockInv
<1>2. ASSUME UNCHANGED <<item, deposit, sold>>, onHand' \in [Variants -> Int],
             \A v \in Variants : -MaxShort <= onHand'[v]
                /\ (onHand'[v] <= onHand[v] \/ onHand'[v] <= MaxStock)
      PROVE  StockInv'
    <2>1. StockTypes' /\ RowsBounded' /\ Made' = Made /\ \A i \in Items : Made[i] \in 0..MaxUnits
        BY <1>1, <1>2, MadeFacts DEF StockTypes, RowsBounded, Made, Live
    <2> QED BY <1>1, <1>2, <2>1, StockKeeps
<1>3. ASSUME UNCHANGED <<item, deposit, sold, onHand>> PROVE StockInv'
    BY <1>1, <1>2, <1>3, StockBounds DEF StockTypes
<1>4. ASSUME NEW v \in Variants, NEW n \in Int, MoveStock(v, n) PROVE StockInv'
    <2>1. /\ UNCHANGED <<item, deposit, sold>> /\ onHand' = [onHand EXCEPT ![v] = @ + n]
          /\ IF n > 0 THEN onHand[v] + n <= MaxStock ELSE onHand[v] + n >= -MaxShort
        BY <1>4 DEF MoveStock
    <2>2. onHand' \in [Variants -> Int]
        BY <1>1, <2>1 DEF StockTypes
    <2>3. ASSUME NEW u \in Variants
          PROVE  -MaxShort <= onHand'[u] /\ (onHand'[u] <= onHand[u] \/ onHand'[u] <= MaxStock)
        <3>1. onHand'[u] = IF u = v THEN onHand[u] + n ELSE onHand[u]
            BY <1>1, <2>1 DEF StockTypes
        <3> QED BY <2>1, <3>1, StockBounds
    <2> QED BY <1>2, <2>1, <2>2, <2>3
<1>5. ASSUME NEW v \in Variants, NEW q \in Units, NEW sign \in {1, -1}, MoveStock(v, sign * q)
      PROVE  StockInv'
    <2>1. q \in Nat /\ (sign = 1 \/ sign = -1)
        BY OrdersAssumption DEF Units
    <2>2. sign * q \in Int
        BY <2>1
    <2> QED BY <1>4, <1>5, <2>2
<1>6. ASSUME NEW w \in Workers, UnlockedStep(w) \/ LockedStep(w) \/ Refuse(w) PROVE StockInv'
    <2>1. ASSUME NEW q \in Units, ProduceLine(w, q) PROVE StockInv'
        BY <1>3, <2>1 DEF ProduceLine
    <2> QED BY <1>1, <1>6, <2>1, StockUnlocked, StockProduced, StockHandedOver DEF LockedStep
<1> QED BY <1>3, <1>5, <1>6 DEF Next, NewOrder, Load, ovars

LEMMA StockStart == Init => StockInv
<1> SUFFICES ASSUME Init PROVE StockInv
    OBVIOUS
<1>1. StockTypes /\ RowsBounded /\ MakingTypes
    BY OrderInit DEF Init, StockTypes, RowsBounded, Live, Unused, OrderInv, LineInv
<1>2. SumOf(Made, Items) \in Nat /\ MaxStock \in Nat /\ MaxShort \in Nat
    BY <1>1, MadeFacts, OrdersAssumption
<1>3. \A v \in Variants : onHand[v] = 0
    BY DEF Init
<1> QED BY <1>1, <1>2, <1>3 DEF StockInv, StockBounded

\* orders/services.py, mark_produced, and the rows it works on: lines are never made
\* beyond what they ask for, a sale's units are never negative, what was checked
\* under the line's lock holds at the commit, and the client hears once.
THEOREM MakingAlwaysHolds == Spec => []MakingHolds
<1>1. OrderInv /\ StockInv => MakingHolds
    BY DEF OrderInv, LineInv, StockInv, MakingTypes, StockTypes, TypeOK, MakingHolds
<1>2. OrderInv /\ StockInv /\ [Next]_ovars => OrderInv' /\ StockInv'
    BY OrderStep, StockGoesOn
<1> QED BY <1>1, <1>2, OrderInit, StockStart, PTL DEF Spec

-----------------------------------------------------------------------------
(* The orders as the sales ledger sees them *)

\* The bound on what is ordered of one variant.
MostOrdered == MaxUnits * Cardinality(Items)

LEMMA MostOrderedFacts ==
    ASSUME MakingTypes, RowsBounded
    PROVE  MostOrdered \in Nat /\ MaxUnits <= MostOrdered /\ MostOrdered > 0
<1>1. MaxUnits \in Nat /\ MaxUnits > 0 /\ Cardinality(Items) \in Nat /\ Cardinality(Items) > 0
    BY MadeFacts
<1>2. ASSUME NEW a \in Nat, a > 0, NEW b \in Nat, b > 0 PROVE a * b \in Nat /\ a <= a * b
    BY <1>2
<1>3. MaxUnits * Cardinality(Items) \in Nat /\ MaxUnits <= MaxUnits * Cardinality(Items)
    BY <1>1, <1>2
<1> QED BY <1>1, <1>3 DEF MostOrdered

LEMMA OrderedBounded ==
    ASSUME MakingTypes, RowsBounded, NEW os, NEW v
    PROVE  Ordered(os, v) \in 0..MostOrdered
<1>1. PICK f : f = Quantities
    OBVIOUS
<1>2. \A i \in Items : f[i] \in Nat /\ f[i] \in Int /\ f[i] <= MaxUnits
    <2>1. ASSUME NEW i \in Items PROVE Quantities[i] \in Nat /\ Quantities[i] <= MaxUnits
        <3>1. CASE Live(i)
            BY <3>1, OrdersAssumption DEF Quantities, RowsBounded, Units
        <3>2. CASE ~Live(i)
            BY <3>2, OrdersAssumption DEF Quantities
        <3> QED BY <3>1, <3>2
    <2> QED BY <1>1, <2>1
<1>3. PICK T \in SUBSET Items : T = Rows(os, v)
    BY OrderedIsSum
<1>4. SumOf(f, T) <= SumOf(f, Items) /\ SumOf(f, Items) <= MostOrdered
    <2>1. IsFiniteSet(Items) /\ MaxUnits \in Int
        BY OrdersAssumption
    <2>2. SumOf(f, T) <= SumOf(f, Items)
        BY <1>2, <2>1, SumPart
    <2>3. SumOf(f, Items) <= MaxUnits * Cardinality(Items)
        BY <1>2, <2>1, SumBound
    <2> QED BY <2>2, <2>3 DEF MostOrdered
<1>5. SumOf(f, Items) \in Nat
    BY <1>2, OrdersAssumption, SumNat
<1>6. Ordered(os, v) \in Nat /\ Ordered(os, v) = SumOf(f, T)
    BY <1>1, <1>3, OrderedIsSum
<1> QED BY <1>4, <1>5, <1>6, MostOrderedFacts

LEMMA ReservedTyped ==
    ASSUME MakingTypes, RowsBounded
    PROVE  Reserved \in [Variants -> 0..MostOrdered]
    BY OrderedBounded DEF Reserved

LEMMA ReservedAfter == MakingTypes' /\ RowsBounded' => (Reserved \in [Variants -> 0..MostOrdered])'
<1>1. MakingTypes /\ RowsBounded => Reserved \in [Variants -> 0..MostOrdered]
    BY ReservedTyped
<1> QED BY <1>1, PTL

\* An order's own reservation, and the others'.
LEMMA ReservedSplits ==
    ASSUME MakingTypes, NEW o \in OpenOrders, NEW v \in Variants
    PROVE  Ordered(OpenOrders, v) = Ordered(OpenOrders \ {o}, v) + Ordered({o}, v)
<1>1. PICK f : f = Quantities
    OBVIOUS
<1>2. PICK S, T : S = Rows(OpenOrders \ {o}, v) /\ T = Rows({o}, v)
    OBVIOUS
<1>3. S \cup T = Rows(OpenOrders, v) /\ S \cap T = {}
    BY <1>2 DEF Rows
<1>4. IsFiniteSet(S) /\ IsFiniteSet(T) /\ \A i \in S \cup T : f[i] \in Int
    BY <1>1, <1>2, OrderedIsSum
<1>5. SumOf(f, S \cup T) = SumOf(f, S) + SumOf(f, T)
    BY <1>3, <1>4, SumUnion
<1> QED BY <1>1, <1>2, <1>3, <1>5, OrderedIsSum

\* An order with lines is not an empty cart.
LEMMA CartNotEmpty ==
    ASSUME MakingTypes, RowsBounded, NEW o, LinesOf(o) # {}
    PROVE  \E v \in Variants : Cart(o)[v] > 0
<1>1. PICK i \in Items : Live(i) /\ item[i].order = o
    BY DEF LinesOf
<1> DEFINE v == item[i].variant
<1>2. v \in Variants /\ i \in Rows({o}, v)
    BY <1>1, LineFacts DEF Rows
<1>3. PICK f, S : f = Quantities /\ S = Rows({o}, v)
    OBVIOUS
<1> HIDE DEF v
<1>4. IsFiniteSet(S) /\ S \subseteq Items /\ \A j \in Items : f[j] \in Nat
    BY <1>3, OrderedIsSum
<1>5. SumOf(f, S) = f[i] + SumOf(f, S \ {i}) /\ SumOf(f, S \ {i}) \in Nat
    <2>1. i \in S /\ \A j \in S : f[j] \in Nat /\ f[j] \in Int
        BY <1>2, <1>3, <1>4
    <2>2. IsFiniteSet(S \ {i})
        BY <1>4, FS_RemoveElement
    <2>3. SumOf(f, S \ {i}) \in Nat
        BY <2>1, <2>2, SumNat
    <2>4. SumOf(f, S) = f[i] + SumOf(f, S \ {i})
        BY <1>4, <2>1, SumRemove
    <2> QED BY <2>3, <2>4
<1>6. f[i] \in Nat /\ f[i] > 0
    BY <1>1, <1>3, <1>4 DEF Quantities, RowsBounded, Units
<1>7. Ordered({o}, v) > 0
    <2>1. Ordered({o}, v) = SumOf(f, S)
        BY <1>3, OrderedIsSum
    <2> QED BY <1>5, <1>6, <2>1
<1> QED BY <1>2, <1>7, CartTyped

\* A step that sells nothing and moves no stock may only change what is reserved.
LEMMA LedgerPromise ==
    ASSUME OrderInv', StockInv', UNCHANGED <<saleOf, sold, onHand>>
    PROVE  Ledger!Next
<1>1. MakingTypes' /\ RowsBounded'
    BY DEF OrderInv, LineInv, StockInv
<1>2. Reserved' \in [Variants -> 0..MostOrdered]
    <2>1. (Reserved \in [Variants -> 0..MostOrdered])'
        BY <1>1, ReservedAfter
    <2> QED BY <2>1 DEF MostOrdered
<1> HIDE DEF Reserved
<1>3. Ledger!Promise
    BY <1>2 DEF Ledger!Promise, Ledger!rows, Ledger!ledger, MostOrdered
<1> QED BY <1>3 DEF Ledger!Next, Ledger!StockStep

\* Stock that moves while no reservation does.
LEMMA LedgerStock ==
    ASSUME OrderInv, StockInv, UNCHANGED <<saleOf, sold>>, Reserved' = Reserved,
           NEW v \in Variants, NEW n \in Int, onHand' = [onHand EXCEPT ![v] = @ + n],
           n \in 1..MostOrdered \/ -n \in 1..MostOrdered,
           -MaxShort <= onHand[v] + n, onHand[v] + n <= MaxStock + MostOrdered
    PROVE  Ledger!Next
<1>1. MakingTypes /\ RowsBounded
    BY DEF OrderInv, LineInv, StockInv
<1>2. MostOrdered \in Nat /\ MaxShort \in Nat /\ MaxStock \in Nat /\ onHand[v] \in Int
    BY <1>1, MostOrderedFacts, StockBounds
<1>3. onHand[v] + n \in -(MaxShort + MostOrdered)..(MaxStock + MostOrdered)
    BY <1>2
<1> HIDE DEF Reserved
<1>4. Ledger!MoveStock(v, n)
    BY <1>3 DEF Ledger!MoveStock, Ledger!rows, MostOrdered
<1>5. CASE n \in 1..MostOrdered
    <2>1. Ledger!Receive(v, n)
        BY <1>4 DEF Ledger!Receive
    <2> QED BY <1>5, <2>1 DEF Ledger!Next, Ledger!StockStep, Ledger!Units, MostOrdered
<1>6. CASE -n \in 1..MostOrdered
    <2>1. PICK q \in 1..MostOrdered : q = -n
        BY <1>6
    <2>2. -q = n
        BY <2>1
    <2>3. Ledger!WriteOff(v, q)
        BY <1>4, <2>2 DEF Ledger!WriteOff
    <2> QED BY <2>3 DEF Ledger!Next, Ledger!StockStep, Ledger!Units, MostOrdered
<1> QED BY <1>5, <1>6

LEMMA OrderedAfter ==
    ASSUME NEW v
    PROVE  MakingTypes' =>
               (Ordered(OpenOrders, v) = SumOf(Quantities, Rows(OpenOrders, v)))'
<1>1. MakingTypes => Ordered(OpenOrders, v) = SumOf(Quantities, Rows(OpenOrders, v))
    BY OrderedIsSum
<1> QED BY <1>1, PTL

LEMMA OrderedStays ==
    ASSUME NEW os, NEW v
    PROVE  MakingTypes' => (Ordered(os, v) = SumOf(Quantities, Rows(os, v)))'
<1>1. MakingTypes => Ordered(os, v) = SumOf(Quantities, Rows(os, v))
    BY OrderedIsSum
<1> QED BY <1>1, PTL

\* Lines that ask for what they asked for: nothing but what is made has changed.
SameRows ==
    \A j \in Items : /\ Live(j)' <=> Live(j)
                     /\ Live(j) => /\ item'[j].order = item[j].order
                                   /\ item'[j].variant = item[j].variant
                                   /\ item'[j].quantity = item[j].quantity

LEMMA CartStays ==
    ASSUME MakingTypes, MakingTypes', SameRows, NEW o
    PROVE  Cart(o)' = Cart(o)
<1>1. ASSUME NEW v \in Variants PROVE Ordered({o}, v)' = Ordered({o}, v)
    <2>1. PICK f, g : f = Quantities /\ g = Quantities'
        OBVIOUS
    <2>2. PICK S : S = Rows({o}, v)
        OBVIOUS
    <2>3. Rows({o}, v)' = S
        BY <2>2 DEF Rows, SameRows
    <2>4. \A j \in S : f[j] = g[j]
        BY <2>1, <2>2 DEF Rows, Quantities, SameRows
    <2>5. IsFiniteSet(S) /\ Ordered({o}, v) = SumOf(f, S)
        BY <2>1, <2>2, OrderedIsSum
    <2>6. (Ordered({o}, v) = SumOf(Quantities, Rows({o}, v)))'
        BY OrderedStays
    <2>7. Ordered({o}, v)' = SumOf(g, S)
        BY <2>1, <2>3, <2>6
    <2> QED BY <2>4, <2>5, <2>7, SumSame
<1> QED BY <1>1 DEF Cart

LEMMA MakingSameRows ==
    ASSUME MakingTypes, NEW i \in Items, Live(i), NEW n,
           item' = [item EXCEPT ![i].produced = @ + n]
    PROVE  SameRows
<1>1. item[i] \in Line
    BY LineFacts
<1>2. \A j \in Items : item'[j] = IF j = i THEN [item[i] EXCEPT !.produced = @ + n] ELSE item[j]
    BY DEF MakingTypes
<1> QED BY <1>1, <1>2 DEF Live, Line, SameRows

\* What is made comes in, and what is promised stays: the line asks for as much as
\* before, and an order is open before and after.
LEMMA LedgerProduce ==
    ASSUME OrderInv, StockInv, OrderInv', NEW w \in Workers, ProduceOrder(w)
    PROVE  Ledger!Next
<1>1. MakingTypes /\ MakingTypes' /\ RequestsFit /\ LockedCheckHolds /\ StockTypes /\ RowsBounded
    BY DEF OrderInv, LineInv, StockInv
<1>2. /\ StockInv' /\ req[w].made \in Nat
      /\ \E v \in Variants : onHand' = [onHand EXCEPT ![v] = @ + req[w].made]
      /\ \A v \in Variants : onHand'[v] <= MaxStock + MaxUnits * Cardinality(Items)
    BY StockProduced
<1>3. PICK i \in Items, n \in Nat, o \in Orders :
          i = req[w].item /\ n = req[w].made /\ o = req[w].order
    BY <1>1, <1>2, ServedRequest DEF ProduceOrder, RequestsFit, Request
<1>4. /\ n > 0 /\ Live(i) /\ n <= Remaining(i) /\ UNCHANGED <<saleOf, sold>>
      /\ item' = [item EXCEPT ![i].produced = @ + n]
    BY <1>1, <1>3 DEF ProduceOrder, LockedCheckHolds
<1>5. OpenOrders' = OpenOrders
    <2>1. PICK now \in Open \cup {"delivered", "cancelled", "none"} :
              /\ state' = [state EXCEPT ![o] = now]
              /\ now \in Open <=> state[o] \in Open
        BY <1>1, <1>3 DEF ProduceOrder, BecomesReady, Open, MakingTypes, States
    <2>2. \A p \in Orders : state'[p] \in Open <=> state[p] \in Open
        BY <1>1, <2>1 DEF MakingTypes
    <2> QED BY <2>2 DEF OpenOrders
<1>6. SameRows
    BY <1>1, <1>4, MakingSameRows
<1>7. Reserved' = Reserved
    <2>1. ASSUME NEW v \in Variants PROVE Ordered(OpenOrders, v)' = Ordered(OpenOrders, v)
        <3>1. PICK f, g : f = Quantities /\ g = Quantities'
            OBVIOUS
        <3>2. PICK S : S = Rows(OpenOrders, v)
            OBVIOUS
        <3>3. Rows(OpenOrders, v)' = S
            BY <1>5, <1>6, <3>2 DEF Rows, SameRows
        <3>4. \A j \in S : f[j] = g[j]
            BY <1>6, <3>1, <3>2 DEF Rows, Quantities, SameRows
        <3>5. IsFiniteSet(S) /\ Ordered(OpenOrders, v) = SumOf(f, S)
            BY <1>1, <3>1, <3>2, OrderedIsSum
        <3>6. (Ordered(OpenOrders, v) = SumOf(Quantities, Rows(OpenOrders, v)))'
            BY <1>1, OrderedAfter
        <3>7. Ordered(OpenOrders, v)' = SumOf(g, S)
            BY <3>1, <3>3, <3>6
        <3>8. SumOf(f, S) = SumOf(g, S)
            BY <3>4, <3>5, SumSame
        <3> QED BY <3>5, <3>7, <3>8
    <2> QED BY <2>1 DEF Reserved
<1>8. PICK v \in Variants : onHand' = [onHand EXCEPT ![v] = @ + n]
    BY <1>2, <1>3
<1>9. /\ onHand[v] \in Int /\ -MaxShort <= onHand[v] /\ onHand[v] + n <= MaxStock + MostOrdered
      /\ MaxShort \in Nat
    <2>1. onHand'[v] = onHand[v] + n
        BY <1>1, <1>8 DEF StockTypes
    <2> QED BY <1>2, <2>1, StockBounds DEF MostOrdered
<1>10. n \in 1..MostOrdered /\ -MaxShort <= onHand[v] + n
    <2>1. item[i].quantity \in Nat /\ item[i].produced \in Nat /\ item[i].quantity <= MaxUnits
        BY <1>1, <1>4, LineFacts, OrdersAssumption DEF RowsBounded, Units
    <2>2. n <= item[i].quantity - item[i].produced
        BY <1>4 DEF Remaining
    <2>3. MostOrdered \in Nat /\ MaxUnits <= MostOrdered /\ MaxUnits \in Nat
        BY <1>1, MostOrderedFacts, OrdersAssumption
    <2> QED BY <1>4, <1>9, <2>1, <2>2, <2>3
<1> HIDE DEF Reserved
<1>11. n \in Int /\ UNCHANGED <<saleOf, sold>>
    BY <1>4
<1> QED BY <1>7, <1>8, <1>9, <1>10, <1>11, LedgerStock

\* A hand-over takes the order's own reservation and its goods in one step.
LEMMA LedgerHandOver ==
    ASSUME OrderInv, StockInv, OrderInv', NEW w \in Workers, NEW s \in Sales, HandOver(w, s)
    PROVE  Ledger!Next
<1>1. MakingTypes /\ StockTypes /\ RowsBounded
    BY DEF OrderInv, LineInv, StockInv
<1>2. PICK o \in Orders : o = req[w].order
    BY <1>1, ServedRequest DEF HandOver, Request
<1>3. PICK cart \in [Variants -> 0..MostOrdered] : cart = Cart(o)
    BY <1>1, OrderedBounded DEF Cart
<1>4. /\ state[o] \in Open /\ LinesOf(o) # {} /\ \A p \in Orders : saleOf[p] # s
      /\ \A v \in Variants : cart[v] > 0 => cart[v] <= onHand[v] - Ordered(OpenOrders \ {o}, v)
      /\ sold[s] = [v \in Variants |-> 0] /\ state' = [state EXCEPT ![o] = "delivered"]
      /\ saleOf' = [saleOf EXCEPT ![o] = s] /\ sold' = [sold EXCEPT ![s] = cart]
      /\ onHand' = [v \in Variants |-> onHand[v] - cart[v]] /\ UNCHANGED item
    BY <1>2, <1>3 DEF HandOver, CanHandOver
<1>5. o \in OpenOrders /\ OpenOrders' = OpenOrders \ {o}
    BY <1>1, <1>4 DEF OpenOrders, MakingTypes, Open
<1>6. ASSUME NEW v \in Variants
      PROVE  /\ Reserved[v] \in Nat /\ Ordered(OpenOrders \ {o}, v) \in Nat
             /\ Reserved[v] = Ordered(OpenOrders \ {o}, v) + cart[v]
             /\ Reserved'[v] = Ordered(OpenOrders \ {o}, v)
    <2>1. Ordered(OpenOrders, v)' = Ordered(OpenOrders \ {o}, v)
        <3>1. (Ordered(OpenOrders, v) = SumOf(Quantities, Rows(OpenOrders, v)))'
            BY OrderedAfter DEF OrderInv, LineInv
        <3>2. Quantities' = Quantities /\ Rows(OpenOrders, v)' = Rows(OpenOrders \ {o}, v)
            BY <1>4, <1>5 DEF Quantities, Rows, Live
        <3>3. Ordered(OpenOrders \ {o}, v) = SumOf(Quantities, Rows(OpenOrders \ {o}, v))
            BY <1>1, OrderedIsSum
        <3> QED BY <3>1, <3>2, <3>3
    <2>2. Ordered(OpenOrders, v) = Ordered(OpenOrders \ {o}, v) + Ordered({o}, v)
        BY <1>1, <1>5, ReservedSplits
    <2>3. Ordered(OpenOrders \ {o}, v) \in Nat /\ Ordered(OpenOrders, v) \in Nat
        BY <1>1, OrderedIsSum
    <2>4. Reserved[v] = Ordered(OpenOrders, v) /\ Reserved'[v] = Ordered(OpenOrders, v)'
          /\ cart[v] = Ordered({o}, v)
        BY <1>3 DEF Reserved, Cart
    <2> HIDE DEF OpenOrders
    <2> QED BY <1>5, <2>1, <2>2, <2>3, <2>4
<1> DEFINE Told == [t \in Sales |-> IF \E p \in Orders : saleOf[p] = t THEN "confirmed" ELSE "none"]
<1>7. Told' = [Told EXCEPT ![s] = "confirmed"] /\ Told[s] = "none"
    <2>1. saleOf[o] = NoSale /\ NoSale \notin Sales
        BY <1>4, OrdersAssumption DEF OrderInv, SoldIsClosed, Open
    <2>2. ASSUME NEW t \in Sales
          PROVE  (\E p \in Orders : saleOf'[p] = t) <=> t = s \/ (\E p \in Orders : saleOf[p] = t)
        BY <1>1, <1>4, <2>1 DEF MakingTypes
    <2> QED BY <1>4, <2>2
<1>8. \E v \in Variants : cart[v] > 0
    BY <1>1, <1>3, <1>4, CartNotEmpty
<1>9. Ledger!HandOver(s, cart)
    <2>1. \A v \in Variants : cart[v] <= Reserved[v] /\ Reserved'[v] = Reserved[v] - cart[v]
        <3>1. \A v \in Variants : cart[v] \in Nat
            BY <1>3
        <3> QED BY <1>6, <3>1
    <2>2. \A v \in Variants : cart[v] > 0 => cart[v] <= Ledger!Available(v) + cart[v]
        <3> SUFFICES ASSUME NEW v \in Variants, cart[v] > 0
                     PROVE  cart[v] <= (onHand[v] - Reserved[v]) + cart[v]
            BY DEF Ledger!Available
        <3>1. cart[v] \in Nat /\ onHand[v] \in Int
            BY <1>1, <1>3 DEF StockTypes
        <3>2. cart[v] <= onHand[v] - Ordered(OpenOrders \ {o}, v)
            BY <1>4
        <3> HIDE DEF Reserved, OpenOrders
        <3> QED BY <1>6, <3>1, <3>2
    <2>3. Reserved' = Ledger!Minus(Reserved, cart)
        BY <2>1 DEF Ledger!Minus, Reserved
    <2>4. onHand' = Ledger!Minus(onHand, cart)
        BY <1>4 DEF Ledger!Minus
    <2>5. sold' = [sold EXCEPT ![s] = Ledger!Plus(@, cart)]
        <3>1. \A v \in Variants : sold[s][v] + cart[v] = cart[v]
            BY <1>3, <1>4
        <3>2. Ledger!Plus(sold[s], cart) = cart
            BY <1>3, <3>1 DEF Ledger!Plus
        <3> QED BY <1>4, <3>2
    <2>6. Ledger!Take(s, cart, FALSE)
        BY <2>4, <2>5 DEF Ledger!Take
    <2>7. cart # Ledger!NoUnits
        BY <1>8 DEF Ledger!NoUnits
    <2> HIDE DEF Reserved
    <2> QED BY <1>4, <1>7, <2>1, <2>2, <2>3, <2>6, <2>7 DEF Ledger!HandOver
<1> QED BY <1>3, <1>9 DEF Ledger!Next, Ledger!Carts, MostOrdered

LEMMA ReservedSame ==
    ASSUME MakingTypes, MakingTypes', UNCHANGED <<state, item>>
    PROVE  Reserved' = Reserved
<1>1. ASSUME NEW v \in Variants PROVE Ordered(OpenOrders, v)' = Ordered(OpenOrders, v)
    <2>1. (Ordered(OpenOrders, v) = SumOf(Quantities, Rows(OpenOrders, v)))'
        BY OrderedAfter
    <2>2. Quantities' = Quantities /\ Rows(OpenOrders, v)' = Rows(OpenOrders, v)
        BY DEF Quantities, Rows, OpenOrders, Live
    <2>3. Ordered(OpenOrders, v) = SumOf(Quantities, Rows(OpenOrders, v))
        BY OrderedIsSum
    <2> QED BY <2>1, <2>2, <2>3
<1> QED BY <1>1 DEF Reserved

LEMMA LedgerStart == Init => Ledger!Init
<1> SUFFICES ASSUME Init PROVE Ledger!Init
    OBVIOUS
<1>1. saleOf = [o \in Orders |-> NoSale] /\ NoSale \notin Sales
    BY OrdersAssumption DEF Init
<1>2. [s \in Sales |-> IF \E o \in Orders : saleOf[o] = s THEN "confirmed" ELSE "none"]
          = [s \in Sales |-> "none"]
    BY <1>1
<1>3. Reserved = [v \in Variants |-> 0]
    <2>1. ASSUME NEW v \in Variants PROVE Ordered(OpenOrders, v) = 0
        <3>1. Rows(OpenOrders, v) = {}
            BY DEF Init, Rows, OpenOrders, Open
        <3>2. Ordered(OpenOrders, v) = SumOf(Quantities, Rows(OpenOrders, v))
            BY OrderInit, OrderedIsSum DEF OrderInv, LineInv
        <3> QED BY <3>1, <3>2, SumEmpty
    <2> QED BY <2>1 DEF Reserved
<1> HIDE DEF Reserved
<1> QED BY <1>2, <1>3 DEF Init, Ledger!Init, Ledger!NoUnits, Ledger!Idle, Idle

LEMMA LedgerStep ==
    ASSUME OrderInv, StockInv, [Next]_ovars
    PROVE  [Ledger!Next]_(Ledger!vars)
<1>1. OrderInv' /\ StockInv' /\ MakingTypes /\ StockTypes /\ RowsBounded
    BY OrderStep, StockGoesOn DEF OrderInv, LineInv, StockInv
<1>2. ASSUME UNCHANGED <<saleOf, sold, onHand>> PROVE Ledger!Next
    BY <1>1, <1>2, LedgerPromise
<1>3. ASSUME NEW w \in Workers, UnlockedStep(w) \/ Refuse(w) PROVE Ledger!Next
    <2>1. UNCHANGED <<saleOf, sold, onHand>>
        BY <1>3 DEF UnlockedStep, AddLine, GrowLine, RemoveLine, TakeDeposit, Cancel, Refuse
    <2> QED BY <1>2, <2>1
<1>4. ASSUME NEW w \in Workers, LockedStep(w) PROVE Ledger!Next
    <2>1. ASSUME NEW q \in Units, ProduceLine(w, q) PROVE Ledger!Next
        BY <1>2, <2>1 DEF ProduceLine
    <2> QED BY <1>1, <1>4, <2>1, LedgerProduce, LedgerHandOver DEF LockedStep
<1>5. ASSUME NEW v \in Variants, NEW q \in Units, NEW sign \in {1, -1}, MoveStock(v, sign * q)
      PROVE  Ledger!Next
    <2>1. q \in Nat /\ q > 0 /\ q <= MostOrdered /\ MostOrdered \in Nat /\ (sign = 1 \/ sign = -1)
        BY <1>1, MostOrderedFacts, OrdersAssumption DEF Units
    <2>2. PICK n \in Int : n = sign * q /\ (n = q \/ n = -q)
        BY <2>1
    <2>3. /\ UNCHANGED <<state, item, saleOf, sold>> /\ onHand' = [onHand EXCEPT ![v] = @ + n]
          /\ IF n > 0 THEN onHand[v] + n <= MaxStock ELSE onHand[v] + n >= -MaxShort
        BY <1>5, <2>2 DEF MoveStock
    <2>4. Reserved' = Reserved
        <3>1. UNCHANGED <<state, item>> /\ MakingTypes'
            BY <1>1, <2>3 DEF OrderInv, LineInv
        <3> QED BY <1>1, <3>1, ReservedSame
    <2>5. /\ onHand[v] \in Int /\ -MaxShort <= onHand[v] /\ onHand[v] <= MaxStock + MostOrdered
          /\ MaxShort \in Nat /\ MaxStock \in Nat
        <3>1. onHand[v] \in Int /\ onHand[v] <= MaxStock + SumOf(Made, Items)
            BY DEF StockInv, StockTypes, StockBounded
        <3>2. SumOf(Made, Items) \in Nat /\ SumOf(Made, Items) <= MostOrdered
            BY <1>1, MadeFacts DEF MostOrdered
        <3> QED BY <2>1, <3>1, <3>2, StockBounds
    <2>6. -MaxShort <= onHand[v] + n /\ onHand[v] + n <= MaxStock + MostOrdered
        BY <2>1, <2>2, <2>3, <2>5
    <2>7. n \in 1..MostOrdered \/ -n \in 1..MostOrdered
        BY <2>1, <2>2
    <2>8. UNCHANGED <<saleOf, sold>> /\ onHand' = [onHand EXCEPT ![v] = @ + n]
        BY <2>3
    <2> HIDE DEF Reserved
    <2> QED BY <2>4, <2>6, <2>7, <2>8, LedgerStock
<1>6. CASE UNCHANGED ovars
    BY <1>2, <1>6 DEF ovars
<1> QED BY <1>2, <1>3, <1>4, <1>5, <1>6 DEF Next, NewOrder, Load

\* orders/services.py: whatever requests overlap on the orders, the sales and the
\* stock see one of the ledger's own steps: a reservation that changes, stock that
\* comes in, or an order that becomes one sale of its lines, out of what is there
\* and is promised to nobody else.
THEOREM OrdersKeepTheLedger == Spec => ImplementsLedger
<1>1. OrderInv /\ StockInv /\ [Next]_ovars => OrderInv' /\ StockInv'
    BY OrderStep, StockGoesOn
<1>2. OrderInv /\ StockInv /\ [Next]_ovars => [Ledger!Next]_(Ledger!vars)
    BY LedgerStep
<1> QED BY <1>1, <1>2, OrderInit, StockStart, LedgerStart, PTL DEF Spec, ImplementsLedger, Ledger!Spec

-----------------------------------------------------------------------------
(* Unlocked requests alone with their order *)

OneOrder == \A o, p \in Orders : state[o] # "none" /\ state[p] # "none" => o = p

\* An unlocked request is the only one, and none removes a line.
ByItself ==
    /\ \A w \in Workers : req[w] # Idle => req[w].op # "remove"
    /\ \A u, w \in Workers : req[u] # Idle /\ req[w] # Idle /\ req[w].op \in Unlocked => u = w

\* What a request has read is still there.
RequestsFresh ==
    \A w \in Workers : req[w] # Idle =>
        /\ state[req[w].order] # "none"
        /\ req[w].op \in Unlocked => state[req[w].order] \in Open
        /\ req[w].item # NoItem => Live(req[w].item) /\ item[req[w].item].order = req[w].order
        /\ req[w].op = "add" /\ req[w].item # NoItem => item[req[w].item].quantity = req[w].had

LinesHaveOrders == \A i \in Items : Live(i) => state[item[i].order] # "none"

AloneInv ==
    /\ Alone /\ RequestsFresh /\ LinesHaveOrders
    /\ DepositsFollowOrder /\ OrdersComplete

LEMMA AtMostOne ==
    ASSUME NEW S, IsFiniteSet(S), Cardinality(S) <= 1, NEW x \in S, NEW y \in S
    PROVE  x = y
<1>1. Cardinality(S) \in Nat /\ Cardinality(S) # 0
    BY FS_CardinalityType, FS_EmptySet
<1>2. Cardinality(S) = 1
    BY <1>1
<1>3. \E z : S = {z}
    BY <1>2, FS_Singleton
<1> QED BY <1>3

LEMMA AloneFacts == Alone => OneOrder /\ ByItself
<1> SUFFICES ASSUME Alone PROVE OneOrder /\ ByItself
    OBVIOUS
<1>1. ASSUME NEW o \in Orders, NEW p \in Orders, state[o] # "none", state[p] # "none"
      PROVE  o = p
    <2> DEFINE S == {q \in Orders : state[q] # "none"}
    <2>1. IsFiniteSet(S) /\ Cardinality(S) <= 1 /\ o \in S /\ p \in S
        BY <1>1, OrdersAssumption, FS_Subset DEF Alone
    <2> QED BY <2>1, AtMostOne
<1>2. ASSUME NEW u \in Workers, NEW w \in Workers, req[u] # Idle, req[w] # Idle,
             req[w].op \in Unlocked
      PROVE  u = w
    <2>1. u \in InFlight /\ w \in InFlight
        BY <1>2 DEF InFlight
    <2>2. IsFiniteSet(InFlight) /\ Cardinality(InFlight) <= 1
        <3>1. Cardinality(InFlight) = 1
            BY <1>2, <2>1 DEF Alone
        <3> QED BY <3>1, OrdersAssumption, FS_Subset DEF InFlight
    <2> QED BY <2>1, <2>2, AtMostOne
<1>3. \A w \in Workers : req[w] # Idle => req[w].op # "remove"
    BY DEF Alone, InFlight
<1> QED BY <1>1, <1>2, <1>3 DEF OneOrder, ByItself

LEMMA AloneAfter == Alone' => OneOrder'
<1>1. Alone => OneOrder
    BY AloneFacts
<1> QED BY <1>1, PTL

\* Whoever serves an unlocked request leaves nobody in flight.
LEMMA LastOneDone ==
    ASSUME MakingTypes, Alone, NEW w \in Workers, UnlockedStep(w)
    PROVE  \A u \in Workers : req'[u] = Idle
<1>1. req[w] # Idle /\ req[w].op \in Unlocked /\ Finish(w)
    BY DEF UnlockedStep, AddLine, GrowLine, RemoveLine, TakeDeposit, Cancel, Serving, Unlocked
<1>2. \A u \in Workers : req[u] # Idle => u = w
    BY <1>1, AloneFacts DEF ByItself
<1> QED BY <1>1, <1>2, FreedRequest

\* A step that leaves the orders, their lines and their sales as they are.
LEMMA AloneQuiet ==
    ASSUME OrderInv, OrderInv', AloneInv, Alone', RequestsFresh',
           UNCHANGED <<state, item, saleOf, deposit, sold>>
    PROVE  AloneInv'
<1>1. MakingTypes /\ MakingTypes'
    BY DEF OrderInv, LineInv
<1>2. LinesHaveOrders' /\ DepositsFollowOrder' /\ AllMadeMeansReady'
    BY DEF AloneInv, LinesHaveOrders, DepositsFollowOrder, OrdersComplete, AllMadeMeansReady,
           Complete, Live
<1>3. SameRows
    BY DEF SameRows, Live
<1>4. DeliveredAsOrdered'
    <2> SUFFICES ASSUME NEW o \in Orders, saleOf'[o] # NoSale
                 PROVE  state'[o] = "delivered" /\ sold'[saleOf'[o]] = Cart(o)'
        BY DEF DeliveredAsOrdered
    <2>1. state[o] = "delivered" /\ sold[saleOf[o]] = Cart(o)
        BY DEF AloneInv, OrdersComplete, DeliveredAsOrdered
    <2> QED BY <1>1, <1>3, <2>1, CartStays
<1> QED BY <1>2, <1>4 DEF AloneInv, OrdersComplete

\* Requests that were there before, and read what is still there.
LEMMA FreshStays ==
    ASSUME MakingTypes, RequestsFresh,
           \A u \in Workers : req'[u] # Idle =>
               /\ req[u] # Idle
               /\ req'[u].op = req[u].op /\ req'[u].order = req[u].order
               /\ req'[u].item = req[u].item /\ req'[u].had = req[u].had
               /\ state'[req[u].order] # "none"
               /\ req[u].op \in Unlocked => state'[req[u].order] = state[req[u].order],
           SameRows
    PROVE  RequestsFresh'
<1> SUFFICES ASSUME NEW u \in Workers, req'[u] # Idle
             PROVE  (/\ state[req[u].order] # "none"
                     /\ req[u].op \in Unlocked => state[req[u].order] \in Open
                     /\ req[u].item # NoItem =>
                           Live(req[u].item) /\ item[req[u].item].order = req[u].order
                     /\ req[u].op = "add" /\ req[u].item # NoItem =>
                           item[req[u].item].quantity = req[u].had)'
    BY DEF RequestsFresh
<1>1. req[u] # Idle /\ req[u] \in Request
    BY DEF MakingTypes
<1>2. PICK op, o, i, h : /\ op = req[u].op /\ o = req[u].order /\ i = req[u].item /\ h = req[u].had
                        /\ op = req'[u].op /\ o = req'[u].order
                        /\ i = req'[u].item /\ h = req'[u].had
    OBVIOUS
<1>3. i # NoItem => i \in Items
    BY <1>1, <1>2 DEF Request
<1>4. /\ state'[o] # "none" /\ (op \in Unlocked => state'[o] \in Open)
      /\ i # NoItem => Live(i) /\ item[i].order = o
      /\ op = "add" /\ i # NoItem => item[i].quantity = h
    BY <1>1, <1>2 DEF RequestsFresh
<1>5. i # NoItem => item'[i].is = "live" /\ item'[i].order = o /\ item'[i].quantity = item[i].quantity
    BY <1>3, <1>4 DEF SameRows, Live
<1> QED BY <1>2, <1>4, <1>5 DEF Live

LEMMA AloneLoad ==
    ASSUME OrderInv, OrderInv', AloneInv, Alone', NEW w \in Workers, NEW op \in Kinds,
           NEW o \in Orders, NEW v \in Variants, NEW i \in Items \cup {NoItem},
           Load(w, op, o, v, i)
    PROVE  AloneInv'
<1>1. UNCHANGED <<state, item, saleOf, deposit, sold>> /\ MakingTypes /\ RequestsFresh
    BY DEF Load, OrderInv, LineInv, AloneInv
<1>2. \A u \in Workers \ {w} : req'[u] = req[u]
    BY <1>1 DEF Load, MakingTypes
<1>3. /\ req'[w].op = op /\ req'[w].order = o /\ req'[w].item = i
      /\ req'[w].had = IF op = "add" /\ i # NoItem THEN item[i].quantity ELSE 0
    BY <1>1 DEF Load, MakingTypes
<1>4. state[o] # "none" /\ (op \in Unlocked => state[o] \in Open)
    BY DEF Load, Offered, Open, Unlocked
<1>5. i # NoItem => Live(i) /\ item[i].order = o
    BY DEF Load, ReadBy, LinesOf
<1>6. RequestsFresh'
    BY <1>1, <1>2, <1>3, <1>4, <1>5 DEF RequestsFresh, Live
<1> QED BY <1>1, <1>6, AloneQuiet

LEMMA AloneNew ==
    ASSUME OrderInv, OrderInv', AloneInv, Alone', NEW o \in Orders, NewOrder(o)
    PROVE  AloneInv'
<1>1. /\ MakingTypes /\ MakingTypes' /\ RequestsFresh /\ LinesHaveOrders /\ DepositsFollowOrder
      /\ AllMadeMeansReady /\ DeliveredAsOrdered
    BY DEF OrderInv, LineInv, AloneInv, OrdersComplete
<1>2. /\ state[o] = "none" /\ state'[o] = "new" /\ UNCHANGED <<item, saleOf, deposit, sold, req>>
      /\ \A p \in Orders \ {o} : state'[p] = state[p]
    BY <1>1 DEF NewOrder, MakingTypes
<1>3. SameRows
    BY <1>2 DEF SameRows, Live
<1>4. RequestsFresh'
    <2>1. \A u \in Workers : req[u] # Idle => req[u].order \in Orders \ {o}
        BY <1>1, <1>2 DEF RequestsFresh, MakingTypes, Request
    <2>2. \A u \in Workers : req[u] # Idle => state[req[u].order] # "none"
        BY <1>1 DEF RequestsFresh
    <2> QED BY <1>1, <1>2, <1>3, <2>1, <2>2, FreshStays
<1>5. LinesHaveOrders' /\ DepositsFollowOrder'
    BY <1>1, <1>2, LineFacts DEF LinesHaveOrders, DepositsFollowOrder, Live
<1>6. \A p \in Orders : state'[p] # "none" => p = o
    BY <1>2, AloneAfter DEF OneOrder
<1>7. AllMadeMeansReady'
    <2>1. ~Complete(item', o)
        BY <1>1, <1>2 DEF Complete, LinesHaveOrders, Live
    <2> QED BY <1>6, <2>1 DEF AllMadeMeansReady, Open
<1>8. DeliveredAsOrdered'
    <2>1. \A p \in Orders : saleOf[p] = NoSale
        BY <1>1, <1>2, <1>6 DEF DeliveredAsOrdered
    <2> QED BY <1>2, <2>1 DEF DeliveredAsOrdered
<1> QED BY <1>4, <1>5, <1>7, <1>8 DEF AloneInv, OrdersComplete

\* An unlocked request finds its order open, so nothing is sold, and it is the last
\* one: nobody is left who read what it changes.
LEMMA AloneUnlocked ==
    ASSUME OrderInv, OrderInv', StockInv, AloneInv, Alone', NEW w \in Workers, UnlockedStep(w)
    PROVE  AloneInv'
<1>1. /\ MakingTypes /\ MakingTypes' /\ RequestsFresh /\ LinesHaveOrders /\ DepositsFollowOrder
      /\ AllMadeMeansReady /\ DeliveredAsOrdered /\ Alone /\ LockedCheckHolds
    BY DEF OrderInv, LineInv, AloneInv, OrdersComplete
<1>2. RequestsFresh'
    BY <1>1, LastOneDone DEF RequestsFresh
<1>3. /\ req[w] # Idle /\ req[w] \in Request /\ req[w].op \in Unlocked /\ UNCHANGED <<saleOf, sold>>
      /\ ~RemoveLine(w)
    <2>1. req[w] # Idle /\ req[w].op \in Unlocked /\ UNCHANGED <<saleOf, sold>>
        BY DEF UnlockedStep, AddLine, GrowLine, RemoveLine, TakeDeposit, Cancel, Serving, Unlocked
    <2>2. ~RemoveLine(w)
        BY <1>1, <2>1, AloneFacts DEF ByItself, RemoveLine, Serving
    <2> QED BY <1>1, <2>1, <2>2 DEF MakingTypes
<1>4. PICK o \in Orders : o = req[w].order /\ state[o] \in Open
    BY <1>1, <1>3 DEF RequestsFresh, Request
<1>5. /\ \A p \in Orders : state[p] # "none" => p = o
      /\ \A p \in Orders : saleOf[p] = NoSale
    <2>1. state[o] # "none" /\ state[o] # "delivered"
        BY <1>4 DEF Open
    <2>2. \A p \in Orders : state[p] # "none" => p = o
        BY <1>1, <2>1, AloneFacts DEF OneOrder
    <2> QED BY <1>1, <2>1, <2>2 DEF DeliveredAsOrdered
<1>6. DeliveredAsOrdered'
    BY <1>3, <1>5 DEF DeliveredAsOrdered
<1>7. ASSUME UNCHANGED deposit PROVE DepositsFollowOrder'
    BY <1>1, <1>3, <1>7 DEF DepositsFollowOrder
<1>8. ASSUME NEW i \in Items, NEW row, item' = [item EXCEPT ![i] = row], UNCHANGED <<state, deposit>>,
             row.is = "live", row.order = o, row.produced < row.quantity, row.quantity \in Nat,
             row.produced \in Nat
      PROVE  AloneInv'
    <2>1. item'[i] = row /\ \A j \in Items \ {i} : item'[j] = item[j]
        BY <1>1, <1>8 DEF MakingTypes
    <2>2. LinesHaveOrders'
        BY <1>1, <1>4, <1>8, <2>1 DEF LinesHaveOrders, Live, Open
    <2>3. ~Complete(item', o)
        <3>1. ~(row.produced >= row.quantity)
            BY <1>8
        <3> QED BY <1>8, <2>1, <3>1 DEF Complete
    <2>4. AllMadeMeansReady'
        BY <1>5, <1>8, <2>3 DEF AllMadeMeansReady, Open
    <2> QED BY <1>2, <1>6, <1>7, <1>8, <2>2, <2>4 DEF AloneInv, OrdersComplete
<1>9. ASSUME NEW i \in Items, NEW q \in Units, AddLine(w, i, q) PROVE AloneInv'
    <2> DEFINE row == [is |-> "live", order |-> req[w].order, variant |-> req[w].variant,
                       quantity |-> q, produced |-> 0]
    <2>1. item' = [item EXCEPT ![i] = row] /\ UNCHANGED <<state, deposit>>
        BY <1>9 DEF AddLine
    <2>2. q \in Nat /\ 0 < q
        BY OrdersAssumption DEF Units
    <2>3. /\ row.is = "live" /\ row.order = o /\ row.produced < row.quantity
          /\ row.quantity \in Nat /\ row.produced \in Nat
        BY <1>4, <2>2
    <2> HIDE DEF row
    <2> QED BY <1>8, <2>1, <2>3
<1>10. ASSUME NEW q \in Units, GrowLine(w, q) PROVE AloneInv'
    <2> DEFINE i   == req[w].item
               row == [item[i] EXCEPT !.quantity = req[w].had + q]
    <2>1. /\ i \in Items /\ Live(i) /\ item' = [item EXCEPT ![i] = row]
          /\ UNCHANGED <<state, deposit>>
        BY <1>3, <1>10 DEF GrowLine, Request
    <2>2. item[i].order = o /\ item[i].quantity = req[w].had
        BY <1>1, <1>3, <1>4, <1>10 DEF GrowLine, Serving, RequestsFresh
    <2>3. /\ item[i] \in Line /\ item[i].produced \in Nat /\ item[i].quantity \in Nat
          /\ item[i].produced <= item[i].quantity
        BY <1>1, <2>1, LineFacts
    <2>4. row.is = "live" /\ row.order = o /\ row.quantity = req[w].had + q
          /\ row.produced = item[i].produced
        BY <2>1, <2>2, <2>3 DEF Line, Live
    <2>5. q \in Nat /\ 0 < q
        BY OrdersAssumption DEF Units
    <2> HIDE DEF row, i
    <2>6. row.produced < row.quantity /\ row.quantity \in Nat /\ row.produced \in Nat
        BY <2>2, <2>3, <2>4, <2>5
    <2> QED BY <1>8, <2>1, <2>4, <2>6
<1>11. ASSUME NEW d \in Deposits, TakeDeposit(w, d) PROVE AloneInv'
    <2>1. UNCHANGED <<state, item>>
          /\ deposit' = [deposit EXCEPT ![d] = [is |-> "taken", order |-> o, sale |-> NoSale]]
        BY <1>4, <1>11 DEF TakeDeposit
    <2>2. DepositsFollowOrder'
        <3> SUFFICES ASSUME NEW e \in Deposits, deposit'[e] # Unused
                     PROVE  deposit'[e].sale = saleOf'[deposit'[e].order]
            BY DEF DepositsFollowOrder
        <3>1. CASE e = d
            <4>1. deposit'[d] = [is |-> "taken", order |-> o, sale |-> NoSale]
                BY <2>1 DEF StockInv, StockTypes
            <4>2. deposit'[d].sale = NoSale /\ deposit'[d].order = o /\ saleOf'[o] = NoSale
                BY <1>3, <1>5, <4>1
            <4> QED BY <3>1, <4>2
        <3>2. CASE e # d
            BY <1>1, <1>3, <2>1, <3>2 DEF DepositsFollowOrder
        <3> QED BY <3>1, <3>2
    <2>3. LinesHaveOrders' /\ AllMadeMeansReady'
        BY <1>1, <2>1 DEF LinesHaveOrders, AllMadeMeansReady, Complete, Live
    <2> QED BY <1>2, <1>6, <2>2, <2>3 DEF AloneInv, OrdersComplete
<1>12. ASSUME Cancel(w) PROVE AloneInv'
    <2>1. UNCHANGED <<item, deposit>> /\ state' = [state EXCEPT ![o] = "cancelled"]
        BY <1>4, <1>12 DEF Cancel
    <2>2. LinesHaveOrders' /\ AllMadeMeansReady'
        <3>1. \A p \in Orders : state'[p] = IF p = o THEN "cancelled" ELSE state[p]
            BY <1>1, <2>1 DEF MakingTypes
        <3> QED BY <1>1, <2>1, <3>1, LineFacts DEF LinesHaveOrders, AllMadeMeansReady, Complete, Live, Open
    <2> QED BY <1>2, <1>6, <1>7, <2>1, <2>2 DEF AloneInv, OrdersComplete
<1> QED BY <1>3, <1>9, <1>10, <1>11, <1>12 DEF UnlockedStep

\* Whoever else is in flight while a locked request finishes serves a locked one.
LEMMA OthersLocked ==
    ASSUME MakingTypes, AloneInv, NEW w \in Workers, req[w] # Idle, Finish(w)
    PROVE  \A u \in Workers : req'[u] # Idle =>
               u # w /\ req[u] # Idle /\ req'[u] = req[u] /\ req[u].op \notin Unlocked
<1>1. \A u \in Workers : req'[u] # Idle => u # w /\ req[u] # Idle /\ req'[u] = req[u]
    BY FreedRequest
<1>2. \A u \in Workers : req[u] # Idle /\ req[u].op \in Unlocked => w = u
    BY AloneFacts DEF AloneInv, ByItself
<1> QED BY <1>1, <1>2

LEMMA AloneProduce ==
    ASSUME OrderInv, OrderInv', AloneInv, Alone', NEW w \in Workers, ProduceOrder(w)
    PROVE  AloneInv'
<1>1. /\ MakingTypes /\ MakingTypes' /\ RequestsFresh /\ LinesHaveOrders /\ DepositsFollowOrder
      /\ AllMadeMeansReady /\ DeliveredAsOrdered /\ Alone /\ LockedCheckHolds /\ RequestsFit
    BY DEF OrderInv, LineInv, AloneInv, OrdersComplete
<1>2. PICK o \in Orders, i \in Items, n \in Nat :
          o = req[w].order /\ i = req[w].item /\ n = req[w].made
    BY <1>1, ServedRequest DEF ProduceOrder, RequestsFit, Request
<1>3. /\ req[w] # Idle /\ Finish(w) /\ UNCHANGED <<saleOf, deposit, sold>> /\ n > 0
      /\ item' = [item EXCEPT ![i].produced = @ + n] /\ Live(i)
    BY <1>1, <1>2 DEF ProduceOrder, LockedCheckHolds, Serving
<1>4. SameRows
    BY <1>1, <1>3, MakingSameRows
<1>5. state[o] # "none"
    BY <1>1, <1>2, <1>3 DEF RequestsFresh
<1>6. \E ready \in BOOLEAN :
          /\ ready <=> state[o] \in {"new", "in_production"} /\ Complete(item', o)
          /\ state'[o] = IF ready THEN "ready"
                         ELSE IF state[o] = "new" THEN "in_production" ELSE state[o]
          /\ \A p \in Orders \ {o} : state'[p] = state[p]
    <2>1. MadeBy(w) = item'
        BY <1>2, <1>3 DEF MadeBy
    <2> QED BY <1>1, <1>2, <2>1 DEF ProduceOrder, BecomesReady, MakingTypes
<1>7. \A p \in Orders : state[p] # "none" => state'[p] # "none"
    BY <1>6
<1>8. \A p \in Orders : p # o => state[p] = "none" /\ state'[p] = "none"
    BY <1>1, <1>5, <1>6, AloneFacts DEF OneOrder
<1>9. RequestsFresh'
    <2>1. \A u \in Workers : req[u] # Idle => req[u].order \in Orders /\ state[req[u].order] # "none"
        BY <1>1 DEF RequestsFresh, MakingTypes, Request
    <2> QED BY <1>1, <1>3, <1>4, <1>7, <2>1, OthersLocked, FreshStays
<1>10. LinesHaveOrders'
    <2> SUFFICES ASSUME NEW j \in Items, Live(j)' PROVE state'[item'[j].order] # "none"
        BY DEF LinesHaveOrders
    <2>1. Live(j) /\ item'[j].order = item[j].order
        BY <1>4 DEF SameRows
    <2> QED BY <1>1, <1>7, <2>1, LineFacts DEF LinesHaveOrders
<1>11. DepositsFollowOrder'
    BY <1>1, <1>3 DEF DepositsFollowOrder
<1>12. AllMadeMeansReady'
    BY <1>6, <1>8 DEF AllMadeMeansReady, Open
<1>13. DeliveredAsOrdered'
    <2> SUFFICES ASSUME NEW p \in Orders, saleOf'[p] # NoSale
                 PROVE  state'[p] = "delivered" /\ sold'[saleOf'[p]] = Cart(p)'
        BY DEF DeliveredAsOrdered
    <2>1. state[p] = "delivered" /\ sold[saleOf[p]] = Cart(p)
        BY <1>1, <1>3 DEF DeliveredAsOrdered
    <2>2. state'[p] = "delivered"
        BY <1>6, <2>1
    <2> QED BY <1>1, <1>3, <1>4, <2>1, <2>2, CartStays
<1> QED BY <1>9, <1>10, <1>11, <1>12, <1>13 DEF AloneInv, OrdersComplete

LEMMA AloneHandOver ==
    ASSUME OrderInv, OrderInv', StockInv, AloneInv, Alone',
           NEW w \in Workers, NEW s \in Sales, HandOver(w, s)
    PROVE  AloneInv'
<1>1. /\ MakingTypes /\ MakingTypes' /\ RequestsFresh /\ LinesHaveOrders /\ DepositsFollowOrder
      /\ AllMadeMeansReady /\ DeliveredAsOrdered /\ Alone /\ SoldIsClosed /\ StockTypes
    BY DEF OrderInv, LineInv, AloneInv, OrdersComplete, StockInv
<1>2. PICK o \in Orders : o = req[w].order
    BY <1>1, ServedRequest DEF HandOver, Request
<1>3. /\ req[w] # Idle /\ Finish(w) /\ UNCHANGED item /\ state[o] \in Open
      /\ state' = [state EXCEPT ![o] = "delivered"] /\ saleOf' = [saleOf EXCEPT ![o] = s]
      /\ sold' = [sold EXCEPT ![s] = Cart(o)]
      /\ deposit' = [d \in Deposits |->
                        IF Links(d, o) THEN [deposit[d] EXCEPT !.sale = s] ELSE deposit[d]]
    BY <1>2 DEF HandOver, CanHandOver, Serving
<1>4. SameRows
    BY <1>3 DEF SameRows, Live
<1>5. /\ state'[o] = "delivered" /\ saleOf'[o] = s /\ saleOf[o] = NoSale
      /\ \A p \in Orders \ {o} : state'[p] = state[p] /\ saleOf'[p] = saleOf[p]
    BY <1>1, <1>3 DEF MakingTypes, SoldIsClosed, Open
<1>6. \A p \in Orders : state[p] # "none" => state'[p] # "none"
    BY <1>5
<1>7. \A p \in Orders : p # o => state[p] = "none" /\ state'[p] = "none" /\ saleOf[p] = NoSale
    <2>1. state[o] # "none"
        BY <1>3 DEF Open
    <2>2. \A p \in Orders : p # o => state[p] = "none"
        BY <1>1, <2>1, AloneFacts DEF OneOrder
    <2> QED BY <1>1, <1>5, <2>2 DEF DeliveredAsOrdered
<1>8. RequestsFresh'
    <2>1. \A u \in Workers : req[u] # Idle => req[u].order \in Orders /\ state[req[u].order] # "none"
        BY <1>1 DEF RequestsFresh, MakingTypes, Request
    <2> QED BY <1>1, <1>3, <1>4, <1>6, <2>1, OthersLocked, FreshStays
<1>9. LinesHaveOrders'
    BY <1>1, <1>3, <1>6, LineFacts DEF LinesHaveOrders, Live
<1>10. DepositsFollowOrder'
    <2> SUFFICES ASSUME NEW d \in Deposits, deposit'[d] # Unused
                 PROVE  deposit'[d].sale = saleOf'[deposit'[d].order]
        BY DEF DepositsFollowOrder
    <2>1. deposit'[d] = IF Links(d, o) THEN [deposit[d] EXCEPT !.sale = s] ELSE deposit[d]
        BY <1>3
    <2>2. CASE Links(d, o)
        <3>1. deposit[d] \in Taken /\ deposit[d].order = o
            BY <1>1, <2>2 DEF Links, StockTypes
        <3>2. deposit'[d].order = o /\ deposit'[d].sale = s
            BY <2>1, <2>2, <3>1 DEF Taken
        <3> QED BY <1>5, <3>2
    <2>3. CASE ~Links(d, o)
        <3>1. deposit[d] # Unused /\ deposit[d].sale = saleOf[deposit[d].order]
            BY <1>1, <2>1, <2>3 DEF DepositsFollowOrder
        <3>2. deposit[d].order \in Orders \ {o}
            <4>1. deposit[d].order \in Orders
                BY <1>1, <3>1 DEF StockTypes, Taken
            <4>2. deposit[d].order # o
                BY <1>5, <2>3, <3>1 DEF Links
            <4> QED BY <4>1, <4>2
        <3> QED BY <1>5, <2>1, <2>3, <3>1, <3>2
    <2> QED BY <2>2, <2>3
<1>11. AllMadeMeansReady'
    BY <1>5, <1>7 DEF AllMadeMeansReady, Open
<1>12. DeliveredAsOrdered'
    <2> SUFFICES ASSUME NEW p \in Orders, saleOf'[p] # NoSale
                 PROVE  state'[p] = "delivered" /\ sold'[saleOf'[p]] = Cart(p)'
        BY DEF DeliveredAsOrdered
    <2>1. p = o
        BY <1>5, <1>7
    <2>2. Cart(o)' = Cart(o)
        BY <1>1, <1>4, CartStays
    <2>3. sold'[s] = Cart(o)
        BY <1>1, <1>3 DEF StockTypes
    <2> QED BY <1>5, <2>1, <2>2, <2>3
<1> QED BY <1>8, <1>9, <1>10, <1>11, <1>12 DEF AloneInv, OrdersComplete

LEMMA AloneStep ==
    ASSUME OrderInv, StockInv, AloneInv, Alone', [Next]_ovars
    PROVE  AloneInv'
<1>1. OrderInv' /\ MakingTypes /\ RequestsFresh
    BY OrderStep DEF OrderInv, LineInv, AloneInv
<1>2. ASSUME UNCHANGED <<state, item, saleOf, deposit, sold>>,
             \A u \in Workers : req'[u] # Idle =>
                 /\ req[u] # Idle
                 /\ req'[u].op = req[u].op /\ req'[u].order = req[u].order
                 /\ req'[u].item = req[u].item /\ req'[u].had = req[u].had
      PROVE  AloneInv'
    <2>1. SameRows
        BY <1>2 DEF SameRows, Live
    <2>2. \A u \in Workers : req[u] # Idle => state[req[u].order] # "none"
        BY <1>1 DEF RequestsFresh
    <2>3. RequestsFresh'
        BY <1>1, <1>2, <2>1, <2>2, FreshStays
    <2> QED BY <1>1, <1>2, <2>3, AloneQuiet
<1>3. ASSUME NEW w \in Workers, Refuse(w) PROVE AloneInv'
    <2>1. UNCHANGED <<state, item, saleOf, deposit, sold>> /\ Finish(w)
        BY <1>3 DEF Refuse
    <2>2. \A u \in Workers : req'[u] # Idle => req'[u] = req[u] /\ req[u] # Idle
        BY <1>1, <2>1, FreedRequest
    <2> QED BY <1>2, <2>1, <2>2
<1>4. ASSUME NEW w \in Workers, NEW q \in Units, ProduceLine(w, q) PROVE AloneInv'
    <2>1. /\ UNCHANGED <<state, item, saleOf, deposit, sold>> /\ req[w] # Idle /\ req[w] \in Request
          /\ req' = [req EXCEPT ![w].made = q]
        BY <1>1, <1>4, ServedRequest DEF ProduceLine, Serving
    <2>2. /\ \A u \in Workers \ {w} : req'[u] = req[u]
          /\ req'[w].op = req[w].op /\ req'[w].order = req[w].order
          /\ req'[w].item = req[w].item /\ req'[w].had = req[w].had
        BY <1>1, <2>1 DEF MakingTypes, Request
    <2>3. \A u \in Workers : req'[u] # Idle =>
              /\ req[u] # Idle
              /\ req'[u].op = req[u].op /\ req'[u].order = req[u].order
              /\ req'[u].item = req[u].item /\ req'[u].had = req[u].had
        BY <2>1, <2>2
    <2> QED BY <1>2, <2>1, <2>3
<1>5. ASSUME NEW v \in Variants, NEW n, MoveStock(v, n) PROVE AloneInv'
    BY <1>2, <1>5 DEF MoveStock
<1>6. CASE UNCHANGED ovars
    BY <1>2, <1>6 DEF ovars
<1>7. ASSUME NEW w \in Workers, NEW op \in Kinds, NEW o \in Orders, NEW v \in Variants,
             NEW i \in Items \cup {NoItem}, Load(w, op, o, v, i)
      PROVE  AloneInv'
    BY <1>1, <1>7, AloneLoad
<1>8. ASSUME NEW w \in Workers, LockedStep(w) PROVE AloneInv'
    BY <1>1, <1>4, <1>8, AloneProduce, AloneHandOver DEF LockedStep
<1> QED BY <1>1, <1>3, <1>5, <1>6, <1>7, <1>8, AloneNew, AloneUnlocked DEF Next

LEMMA AloneStart == Init /\ Alone => AloneInv
<1> SUFFICES ASSUME Init, Alone PROVE AloneInv
    OBVIOUS
<1>1. RequestsFresh /\ LinesHaveOrders
    BY DEF Init, RequestsFresh, LinesHaveOrders, Live, Unused
<1>2. DepositsFollowOrder /\ OrdersComplete
    BY DEF Init, DepositsFollowOrder, OrdersComplete, AllMadeMeansReady, DeliveredAsOrdered, Open
<1> QED BY <1>1, <1>2 DEF AloneInv

LEMMA AloneFromTheStart == Init => Alone
<1> SUFFICES ASSUME Init PROVE Alone
    OBVIOUS
<1>1. {o \in Orders : state[o] # "none"} = {} /\ InFlight = {}
    BY DEF Init, InFlight
<1>2. Cardinality({o \in Orders : state[o] # "none"}) <= 1
    BY <1>1, FS_EmptySet
<1> QED BY <1>1, <1>2 DEF Alone

\* The orders and the stock of both instances.
FocusInv == OrderInv /\ StockInv /\ (focus = "alone" => AloneInv)

LEMMA FocusHolds == FocusSpec => []FocusInv
<1>1. FocusInit => FocusInv
    BY OrderInit, StockStart, AloneStart, AloneFromTheStart DEF FocusInit, FocusInv
<1>2. ASSUME FocusInv, [FocusNext]_<<ovars, focus>> PROVE FocusInv'
    <2>1. [Next]_ovars /\ focus' = focus
        BY <1>2 DEF FocusNext
    <2>2. focus = "alone" /\ AloneInv => Alone'
        <3>1. CASE FocusNext
            BY <3>1 DEF FocusNext, Within
        <3>2. CASE UNCHANGED <<ovars, focus>>
            BY <3>2 DEF AloneInv, Alone, InFlight, ovars
        <3> QED BY <1>2, <3>1, <3>2
    <2> QED BY <1>2, <2>1, <2>2, OrderStep, StockGoesOn, AloneStep DEF FocusInv
<1> QED BY <1>1, <1>2, PTL DEF FocusSpec

\* orders/services.py, hand_over: the deposits taken for an order count for the sale
\* it became, those of other orders for nothing else.
THEOREM DepositsCount == FocusSpec => []AloneDeposits
<1>1. FocusInv => AloneDeposits
    BY DEF FocusInv, AloneInv, AloneDeposits
<1> QED BY <1>1, FocusHolds, PTL

\* orders/services.py, mark_produced and hand_over: where nothing unlocked overlaps,
\* an open order whose lines are all made is ready, whichever of them was made last,
\* and a delivered one stays what it was sold as, even if more is made for it.
THEOREM OrdersAreComplete == FocusSpec => []AloneOrders
<1>1. FocusInv => AloneOrders
    BY DEF FocusInv, AloneInv, AloneOrders
<1> QED BY <1>1, FocusHolds, PTL

\* What is proved of Spec holds of the instances that the runs check.
LEMMA FocusIsSpec == FocusSpec => Spec
<1>1. FocusInit => Init
    BY DEF FocusInit
<1>2. [FocusNext]_<<ovars, focus>> => [Next]_ovars
    BY DEF FocusNext
<1> QED BY <1>1, <1>2, PTL DEF FocusSpec, Spec
=============================================================================
