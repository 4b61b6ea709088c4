--------------------------- MODULE ProductionOrders ---------------------------
(***************************************************************************)
(* Production orders: clients order goods that do not exist yet.  An open  *)
(* order reserves its lines; producing them puts stock into the ledger;    *)
(* handing the order over turns it into a confirmed sale, which is the     *)
(* only way its goods leave the stock.                                     *)
(*                                                                         *)
(* A request is at least two steps: `Load` is the page or the view's read, *)
(* and what follows runs later, on whatever the order has become.  Adding, *)
(* removing, taking a deposit and cancelling do not look at the order's    *)
(* status again; producing and handing over lock its rows and do.          *)
(* mark_produced is two steps of one transaction: it locks the line before *)
(* it locks the order, and its writes appear when it commits.              *)
(*                                                                         *)
(* The module implements SaleLedger, which only knows that reservations    *)
(* change and that a hand-over confirms a sale.  A sale at the counter is  *)
(* seen here only as the stock it takes.  Prices and currencies are left   *)
(* out.                                                                    *)
(***************************************************************************)
EXTENDS Integers, FiniteSets, FiniteSetsExt

CONSTANTS
    Variants,       \* product variants
    Sales,          \* ids of the sale rows
    Orders,         \* ids of the order rows
    Items,          \* ids of the order lines
    Deposits,       \* ids of the payments taken as deposits
    Workers,        \* web worker processes, each serving one request
    Kinds,            \* the requests staff make in this instance
    MaxUnits,       \* bound: units on a line
    MaxStock,       \* bound: units other movements bring a variant to
    MaxShort,       \* bound: units they take it below zero
    NoSale, NoItem

Unlocked == {"add", "remove", "deposit", "cancel"}
Locked   == {"produce", "deliver"}

ASSUME OrdersAssumption ==
    /\ Kinds \subseteq Unlocked \cup Locked
    /\ MaxUnits \in Nat \ {0} /\ MaxStock \in Nat /\ MaxShort \in Nat
    /\ NoSale \notin Sales /\ NoItem \notin Items
    /\ IsFiniteSet(Items) /\ IsFiniteSet(Workers) /\ IsFiniteSet(Orders)
    /\ Items # {}

VARIABLES
    state,      \* Order.status; "none" before the row exists
    item,       \* the order lines
    saleOf,     \* Order.sale_order
    announced,  \* times the client was told that the order is ready
    deposit,    \* the deposits: which order, and the sale they count for
    sold,       \* units on the lines of a sale made from an order
    onHand,     \* sum of a variant's movements
    req         \* the request each worker is serving

ovars == <<state, item, saleOf, announced, deposit, sold, onHand, req>>

Open   == {"new", "in_production", "ready"}
States == Open \cup {"none", "delivered", "cancelled"}
Units  == 1..MaxUnits
Idle   == [op |-> "idle"]
Unused == [is |-> "unused"]
Gone   == [is |-> "deleted"]
Line   == [is : {"live"}, order : Orders, variant : Variants,
           quantity : Nat, produced : Nat]
Taken  == [is : {"taken"}, order : Orders, sale : Sales \cup {NoSale}]

\* `had` is the quantity item_add read; `made` what mark_produced will commit.
Request == [op : Unlocked \cup Locked, order : Orders, seen : States,
            item : Items \cup {NoItem}, variant : Variants,
            had : Nat, made : Nat]

TypeOK ==
    /\ state     \in [Orders -> States]
    /\ item      \in [Items -> Line \cup {Unused, Gone}]
    /\ \A i \in Items : item[i].is = "live" => item[i].produced <= item[i].quantity
    /\ saleOf    \in [Orders -> Sales \cup {NoSale}]
    /\ announced \in [Orders -> Nat]
    /\ deposit   \in [Deposits -> Taken \cup {Unused}]
    /\ sold      \in [Sales -> [Variants -> Nat]]
    /\ onHand    \in [Variants -> Int]
    /\ req       \in [Workers -> Request \cup {Idle}]

-----------------------------------------------------------------------------
Live(i)      == item[i].is = "live"
LinesOf(o)   == {i \in Items : Live(i) /\ item[i].order = o}

RemainingAll(i) == item[i].quantity                              \* mutant
Remaining(i)    == item[i].quantity - item[i].produced

\* Units of v on the lines of a set of orders.
Ordered(os, v) ==
    MapThenSumSet(LAMBDA i : item[i].quantity,
                  {i \in UNION {LinesOf(o) : o \in os} : item[i].variant = v})

OpenOrders  == {o \in Orders : state[o] \in Open}
Reserved    == [v \in Variants |-> Ordered(OpenOrders, v)]
Cart(o)     == [v \in Variants |-> Ordered({o}, v)]

\* Order.fully_produced, on these rows.
Complete(rows, o) ==
    LET mine == {i \in Items : rows[i].is = "live" /\ rows[i].order = o}
    IN  mine # {} /\ \A i \in mine : rows[i].produced >= rows[i].quantity

Serving(w, op) == req[w] # Idle /\ req[w].op = op
Finish(w)      == req' = [req EXCEPT ![w] = Idle]

LineFreeAlways(i) == TRUE                                        \* mutant

\* No uncommitted mark_produced holds the line's row.
LineFree(i) ==
    \A w \in Workers : Serving(w, "produce") /\ req[w].item = i => req[w].made = 0

-----------------------------------------------------------------------------
(* The view's half of a request. *)

OfferedAlways(op, o) == state[o] # "none"                         \* mutant

\* The templates offer the controls of an open order, and production also
\* on a delivered one.
Offered(op, o) ==
    \/ state[o] \in Open
    \/ op = "produce" /\ state[o] = "delivered"

\* The row the view reads first: item_add looks for the variant's line.
ReadBy(op, o, v, i) ==
    LET same == {j \in LinesOf(o) : item[j].variant = v} IN
    CASE op = "add" -> IF same = {} THEN i = NoItem ELSE i \in same
      [] op \in {"remove", "produce"} -> i \in same
      [] OTHER -> i = NoItem

Load(w, op, o, v, i) ==
    /\ req[w] = Idle
    /\ Offered(op, o)
    /\ ReadBy(op, o, v, i)
    /\ req' = [req EXCEPT ![w] =
                  [op |-> op, order |-> o, seen |-> state[o], item |-> i,
                   variant |-> v, made |-> 0,
                   had |-> IF op = "add" /\ i # NoItem THEN item[i].quantity ELSE 0]]
    /\ UNCHANGED <<state, item, saleOf, announced, deposit, sold, onHand>>

-----------------------------------------------------------------------------
(* The unlocked requests. *)

NewOrder(o) ==
    /\ state[o] = "none"
    /\ state' = [state EXCEPT ![o] = "new"]
    /\ UNCHANGED <<item, saleOf, announced, deposit, sold, onHand, req>>

\* The database's check constraints on a line.
RowAllowed(row) == row.quantity > 0 /\ row.produced <= row.quantity

\* The variant had no line when the view looked.
AddLine(w, i, q) ==
    /\ Serving(w, "add") /\ req[w].item = NoItem
    /\ item[i] = Unused
    /\ item' = [item EXCEPT ![i] =
                   [is |-> "live", order |-> req[w].order,
                    variant |-> req[w].variant, quantity |-> q, produced |-> 0]]
    /\ Finish(w)
    /\ UNCHANGED <<state, saleOf, announced, deposit, sold, onHand>>

\* existing.quantity += qty, on the quantity the view read; the update waits
\* for a mark_produced that holds the line.
GrowLine(w, q) ==
    LET i   == req[w].item
        row == [item[i] EXCEPT !.quantity = req[w].had + q]
    IN  /\ Serving(w, "add") /\ i # NoItem
        /\ Live(i) /\ LineFree(i)
        /\ req[w].had + q <= MaxUnits
        /\ RowAllowed(row)
        /\ item' = [item EXCEPT ![i] = row]
        /\ Finish(w)
        /\ UNCHANGED <<state, saleOf, announced, deposit, sold, onHand>>

RemoveLine(w) ==
    LET i == req[w].item IN
    /\ Serving(w, "remove")
    /\ LineFree(i)
    /\ item' = [item EXCEPT ![i] = Gone]
    /\ Finish(w)
    /\ UNCHANGED <<state, saleOf, announced, deposit, sold, onHand>>

TakeDeposit(w, d) ==
    /\ Serving(w, "deposit")
    /\ deposit[d] = Unused
    /\ deposit' = [deposit EXCEPT ![d] =
                      [is |-> "taken", order |-> req[w].order, sale |-> NoSale]]
    /\ Finish(w)
    /\ UNCHANGED <<state, item, saleOf, announced, sold, onHand>>

\* cancel_order checks the status of the object the view loaded and saves it.
Cancel(w) ==
    /\ Serving(w, "cancel")
    /\ req[w].seen \notin {"delivered", "cancelled"}
    /\ state' = [state EXCEPT ![req[w].order] = "cancelled"]
    /\ Finish(w)
    /\ UNCHANGED <<item, saleOf, announced, deposit, sold, onHand>>

-----------------------------------------------------------------------------
(* mark_produced: lock the line, then the order, then commit. *)

ProduceLine(w, q) ==
    LET i == req[w].item IN
    /\ Serving(w, "produce") /\ req[w].made = 0
    /\ LineFree(i) /\ Live(i)
    /\ q <= Remaining(i)
    /\ req' = [req EXCEPT ![w].made = q]
    /\ UNCHANGED <<state, item, saleOf, announced, deposit, sold, onHand>>

AdvancesAlways(now, complete) == now \in Open /\ complete        \* mutant

\* The order becomes ready, and the client is told.
BecomesReady(now, complete) == now \in {"new", "in_production"} /\ complete

MadeUnseen(w) == item                                            \* mutant

\* The lines as the transaction sees them once it holds the order.
MadeBy(w) == [item EXCEPT ![req[w].item].produced = @ + req[w].made]

ProduceOrder(w) ==
    LET o == req[w].order
        v == item[req[w].item].variant
        ready == BecomesReady(state[o], Complete(MadeBy(w), o))
    IN  /\ Serving(w, "produce") /\ req[w].made > 0
        /\ item'   = [item EXCEPT ![req[w].item].produced = @ + req[w].made]
        /\ onHand' = [onHand EXCEPT ![v] = @ + req[w].made]
        /\ state'  = [state EXCEPT ![o] =
                         IF ready THEN "ready"
                         ELSE IF @ = "new" THEN "in_production" ELSE @]
        /\ announced' = [announced EXCEPT ![o] = IF ready THEN @ + 1 ELSE @]
        /\ Finish(w)
        /\ UNCHANGED <<saleOf, deposit, sold>>

-----------------------------------------------------------------------------
(* hand_over, under the order's row lock. *)

CanHandOverUnlocked(w) ==                                        \* mutant
    LET o == req[w].order IN
    /\ req[w].seen \in Open
    /\ LinesOf(o) # {}
    /\ \A v \in Variants :
          Cart(o)[v] > 0 => Cart(o)[v] <= onHand[v] - Ordered(OpenOrders \ {o}, v)

CanHandOverUncovered(w) ==                                       \* mutant
    state[req[w].order] \in Open /\ LinesOf(req[w].order) # {}

\* The order's own reservation is released before confirm_sale looks.
CanHandOver(w) ==
    LET o == req[w].order IN
    /\ state[o] \in Open
    /\ LinesOf(o) # {}
    /\ \A v \in Variants :
          Cart(o)[v] > 0 => Cart(o)[v] <= onHand[v] - Ordered(OpenOrders \ {o}, v)

LinksNothing(d, o) == FALSE                                      \* mutant

\* locked.deposits.filter(order__isnull=True)
Links(d, o) == deposit[d] # Unused /\ deposit[d].order = o /\ deposit[d].sale = NoSale

HandOver(w, s) ==
    LET o == req[w].order IN
    /\ Serving(w, "deliver")
    /\ CanHandOver(w)
    /\ \A p \in Orders : saleOf[p] # s
    /\ sold[s] = [v \in Variants |-> 0]
    /\ state'   = [state EXCEPT ![o] = "delivered"]
    /\ saleOf'  = [saleOf EXCEPT ![o] = s]
    /\ sold'    = [sold EXCEPT ![s] = Cart(o)]
    /\ onHand'  = [v \in Variants |-> onHand[v] - Cart(o)[v]]
    /\ deposit' = [d \in Deposits |->
                      IF Links(d, o) THEN [deposit[d] EXCEPT !.sale = s] ELSE deposit[d]]
    /\ Finish(w)
    /\ UNCHANGED <<item, announced>>

\* A request that is refused, or whose row is gone, changes nothing: more
\* asked for than remains, another currency, no amount, too little stock.
Refuse(w) ==
    /\ \/ Serving(w, "produce") /\ req[w].made = 0 /\ LineFree(req[w].item)
       \/ Serving(w, "deliver") /\ ~CanHandOver(w)
       \/ Serving(w, "add") \/ Serving(w, "deposit")
    /\ Finish(w)
    /\ UNCHANGED <<state, item, saleOf, announced, deposit, sold, onHand>>

\* Every other movement: intakes, write-offs, counts, sales at the counter.
MoveStock(v, n) ==
    /\ IF n > 0 THEN onHand[v] + n <= MaxStock ELSE onHand[v] + n >= -MaxShort
    /\ onHand' = [onHand EXCEPT ![v] = @ + n]
    /\ UNCHANGED <<state, item, saleOf, announced, deposit, sold, req>>

-----------------------------------------------------------------------------
Init ==
    /\ state     = [o \in Orders |-> "none"]
    /\ item      = [i \in Items |-> Unused]
    /\ saleOf    = [o \in Orders |-> NoSale]
    /\ announced = [o \in Orders |-> 0]
    /\ deposit   = [d \in Deposits |-> Unused]
    /\ sold      = [s \in Sales |-> [v \in Variants |-> 0]]
    /\ onHand    = [v \in Variants |-> 0]
    /\ req       = [w \in Workers |-> Idle]

UnlockedStep(w) ==
    \/ \E i \in Items, q \in Units : AddLine(w, i, q)
    \/ \E q \in Units : GrowLine(w, q)
    \/ RemoveLine(w)
    \/ \E d \in Deposits : TakeDeposit(w, d)
    \/ Cancel(w)

LockedStep(w) ==
    \/ \E q \in Units : ProduceLine(w, q)
    \/ ProduceOrder(w)
    \/ \E s \in Sales : HandOver(w, s)

Next ==
    \/ \E o \in Orders : NewOrder(o)
    \/ \E w \in Workers, op \in Kinds, o \in Orders, v \in Variants, i \in Items \cup {NoItem} :
          Load(w, op, o, v, i)
    \/ \E w \in Workers : UnlockedStep(w) \/ LockedStep(w) \/ Refuse(w)
    \/ \E v \in Variants, q \in Units, sign \in {1, -1} : MoveStock(v, sign * q)

Spec == Init /\ [][Next]_ovars

-----------------------------------------------------------------------------
(* Properties. *)

\* The sales ledger's view of the orders: reservations that change, and
\* hand-overs that confirm a sale of what is in stock and not promised.
Ledger == INSTANCE SaleLedger WITH
    status      <- [s \in Sales |-> IF \E o \in Orders : saleOf[o] = s
                                    THEN "confirmed" ELSE "none"],
    historical  <- [s \in Sales |-> FALSE],
    lines       <- sold,
    billed      <- sold,
    reserved    <- Reserved,
    req         <- [w \in Workers |-> Idle],
    MaxUnits    <- MaxUnits * Cardinality(Items),
    MaxStock    <- MaxStock + MaxUnits * Cardinality(Items),
    MaxShort    <- MaxShort + MaxUnits * Cardinality(Items),
    MaxReserved <- MaxUnits * Cardinality(Items),
    OverlappingEdits <- FALSE

\* However the requests on orders interleave, the sales and the stock see
\* one of SaleLedger's steps: stock comes in, a reservation changes, or one
\* order becomes one confirmed sale of exactly its lines.
ImplementsLedger == Ledger!Spec

\* What mark_produced checked under the line's lock is still true when it
\* commits: it never makes more than was ordered.
LockedCheckHolds ==
    \A w \in Workers :
        Serving(w, "produce") /\ req[w].made > 0 =>
            Live(req[w].item) /\ req[w].made <= Remaining(req[w].item)

\* An order becomes a sale once, and two orders never the same sale.
HandedOverOnce ==
    [][\A o \in Orders :
          /\ saleOf[o] # NoSale => saleOf'[o] = saleOf[o]
          /\ saleOf'[o] # NoSale =>
                \A p \in Orders \ {o} : saleOf'[p] # saleOf'[o]]_ovars

\* The client hears once that the order is ready, whatever is added to it
\* later, and an order is ready only if the client heard.
AnnouncedOnce ==
    \A o \in Orders : announced[o] <= 1 /\ (state[o] = "ready" => announced[o] = 1)

\* When every line of an open order is made the order is ready, even if its
\* last two lines are made at the same time.
AllMadeMeansReady ==
    \A o \in Orders : state[o] \in Open /\ Complete(item, o) => state[o] = "ready"

\* A deposit counts for the sale its order became.
DepositsFollowOrder ==
    \A d \in Deposits : deposit[d] # Unused => deposit[d].sale = saleOf[deposit[d].order]

\* A delivered order stays what it was sold as: delivered, linked to a sale
\* of its lines.
DeliveredAsOrdered ==
    \A o \in Orders : saleOf[o] # NoSale => state[o] = "delivered" /\ sold[saleOf[o]] = Cart(o)

\* "This order is already closed" (orders/services.py:448): what was handed over
\* or cancelled stays so.
ClosedStaysClosed ==
    [][\A o \in Orders : state[o] \in {"delivered", "cancelled"} => state'[o] = state[o]]_ovars

\* Making: what was checked holds, and the client hears once.
MakingHolds == TypeOK /\ LockedCheckHolds /\ AnnouncedOnce

\* An order that is made is ready, and one that is delivered stays so.
OrdersComplete == AllMadeMeansReady /\ DeliveredAsOrdered
=============================================================================
