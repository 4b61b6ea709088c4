----------------------------- MODULE SaleLedger -----------------------------
(***************************************************************************)
(* Sales, the stock ledger and the reservations they share, one database   *)
(* transaction per step.                                                   *)
(*                                                                         *)
(* A web request is two steps, because the views read the sale before the  *)
(* service locks it: `Load` is the view's lookup and its checks, made on   *)
(* an unlocked read; the operation that follows is the service's           *)
(* transaction, which sees whatever was committed in between.  That the    *)
(* services' row locks make the second step atomic is the subject of       *)
(* module SaleLocking.                                                     *)
(*                                                                         *)
(* Abstractions.  The movement rows (an append-only ledger) appear as the  *)
(* two sums the code takes of them: `onHand`, per variant, and `sold`, the *)
(* units a sale holds out of the stock, per variant (its SALE_OUT less its *)
(* RETURN_IN rows).  A sale's lines of one variant are one number.  A      *)
(* price is not modelled: `billed` keeps the lines that the stored total   *)
(* was computed from, which tells apart every total the code can store.    *)
(***************************************************************************)
EXTENDS Integers, FiniteSets

CONSTANTS
    Variants,          \* product variants
    Sales,             \* ids of the sale rows
    Workers,           \* web worker processes, each serving one request
    MaxUnits,          \* bound: units asked for by one request
    MaxStock,          \* bound: units the stock forms bring a variant to
    MaxShort,          \* bound: units they take it below zero
    MaxReserved,       \* bound: units of a variant promised to orders
    OverlappingEdits   \* may a cart edit overlap another request on its sale?

ASSUME LedgerAssumption ==
    /\ MaxUnits \in Nat \ {0}
    /\ MaxStock \in Nat /\ MaxShort \in Nat /\ MaxReserved \in Nat
    /\ OverlappingEdits \in BOOLEAN

VARIABLES
    status,      \* SaleOrder.status; "none" before the row exists
    historical,  \* SaleOrder.is_historical
    lines,       \* units on the sale's lines, per variant
    billed,      \* the lines SaleOrder.total was computed from
    sold,        \* net units the sale took out of the ledger, per variant
    onHand,      \* sum of a variant's movements
    reserved,    \* units promised to open production orders
    req          \* the request each worker is serving

rows   == <<status, historical, lines, billed>>
ledger == <<sold, onHand>>
vars   == <<rows, ledger, reserved, req>>

Statuses == {"none", "draft", "confirmed", "cancelled"}
Edits    == {"add", "remove", "restore"}
Ops      == Edits \cup {"confirm", "cancel", "return"}
Idle     == [op |-> "idle"]
Request  == [op : Ops, sale : Sales, seen : Statuses]
Units    == 1..MaxUnits
Carts    == [Variants -> 0..MaxUnits]
NoUnits  == [v \in Variants |-> 0]

TypeOK ==
    /\ status     \in [Sales -> Statuses]
    /\ historical \in [Sales -> BOOLEAN]
    /\ lines      \in [Sales -> [Variants -> Nat]]
    /\ billed     \in [Sales -> [Variants -> Nat]]
    /\ sold       \in [Sales -> [Variants -> Int]]
    /\ onHand     \in [Variants -> Int]
    /\ reserved   \in [Variants -> Nat]
    /\ req        \in [Workers -> Request \cup {Idle}]

-----------------------------------------------------------------------------
Least(a, b)    == IF a < b THEN a ELSE b
NotClamped(n)  == n                                              \* mutant
AtLeastZero(n) == IF n < 0 THEN 0 ELSE n

OnHandOnly(v) == onHand[v]                                       \* mutant

\* available = on hand less reserved; it may be negative.
Available(v) == onHand[v] - reserved[v]

Plus(f, g)  == [v \in Variants |-> f[v] + g[v]]
Minus(f, g) == [v \in Variants |-> f[v] - g[v]]

Finish(w) == req' = [req EXCEPT ![w] = Idle]

-----------------------------------------------------------------------------
(* The view's half of a request. *)

ViewAcceptsAny(op, s) == status[s] \in {"draft", "confirmed"}      \* mutant

\* What the view checks of the sale it read, before it calls the service.
ViewAccepts(op, s) ==
    \/ op \in Edits \cup {"confirm"} /\ status[s] = "draft"
    \/ op \in {"cancel", "return"}   /\ status[s] = "confirmed"

InFlight(s, ops) ==
    \E w \in Workers : req[w] # Idle /\ req[w].sale = s /\ req[w].op \in ops

\* Without OverlappingEdits a cart edit is alone with its draft.  Two
\* confirms, or any cancels and returns, may always overlap.
MayOverlap(op, s) ==
    \/ OverlappingEdits
    \/ /\ op \in Edits => ~InFlight(s, Edits \cup {"confirm"})
       /\ op = "confirm" => ~InFlight(s, Edits)

Load(w, op, s) ==
    /\ req[w] = Idle
    /\ ViewAccepts(op, s)
    /\ MayOverlap(op, s)
    /\ req' = [req EXCEPT ![w] = [op |-> op, sale |-> s, seen |-> status[s]]]
    /\ UNCHANGED <<rows, ledger, reserved>>

Serving(w, op) == req[w] # Idle /\ req[w].op = op

-----------------------------------------------------------------------------
(* The draft cart.  None of these reads the sale's status again. *)

NewDraft(s) ==
    /\ status[s] = "none"
    /\ status' = [status EXCEPT ![s] = "draft"]
    /\ UNCHANGED <<historical, lines, billed, ledger, reserved, req>>

SetCart(w, cart) ==
    /\ lines' = [lines EXCEPT ![req[w].sale] = cart]
    /\ Finish(w)
    /\ UNCHANGED <<status, historical, billed, ledger, reserved>>

\* The quantity is clamped to what is available beyond the cart's own units.
ItemAdd(w, v, q) ==
    LET cart == lines[req[w].sale]
        room == AtLeastZero(Available(v) - cart[v])
    IN  /\ Serving(w, "add")
        /\ SetCart(w, [cart EXCEPT ![v] = @ + Least(q, room)])

ItemRemove(w, v) ==
    /\ Serving(w, "remove")
    /\ SetCart(w, [lines[req[w].sale] EXCEPT ![v] = 0])

\* Undo and redo: an earlier cart, clamped to today's availability.
Restore(w, snap) ==
    /\ Serving(w, "restore")
    /\ SetCart(w, [v \in Variants |->
                      Least(snap[v], AtLeastZero(Available(v)))])

-----------------------------------------------------------------------------
(* The services. *)

Covered(cart) == \A v \in Variants : cart[v] > 0 => cart[v] <= Available(v)

CanConfirm(s, hist) ==
    /\ status[s] = "draft"
    /\ lines[s] # NoUnits
    /\ hist \/ Covered(lines[s])

\* Take `units` of every variant out of the stock for the sale; negative
\* units are a return.  A historical sale writes no movement.
TakeAlways(s, units, hist) ==                                    \* mutant
    /\ onHand' = Minus(onHand, units)
    /\ sold'   = [sold EXCEPT ![s] = Plus(@, units)]

Take(s, units, hist) ==
    IF hist THEN UNCHANGED ledger
    ELSE /\ onHand' = Minus(onHand, units)
         /\ sold'   = [sold EXCEPT ![s] = Plus(@, units)]

Negated(units) == [v \in Variants |-> -units[v]]

Confirm(w, hist) ==
    LET s == req[w].sale IN
    /\ Serving(w, "confirm")
    /\ CanConfirm(s, hist)
    /\ Take(s, lines[s], hist)
    /\ status'     = [status EXCEPT ![s] = "confirmed"]
    /\ historical' = [historical EXCEPT ![s] = @ \/ hist]
    /\ billed'     = [billed EXCEPT ![s] = lines[s]]
    /\ Finish(w)
    /\ UNCHANGED <<lines, reserved>>

CanCancelTwice(s) == status[s] \in {"confirmed", "cancelled"}     \* mutant
CanCancel(s)      == status[s] = "confirmed"

Cancel(w) ==
    LET s == req[w].sale IN
    /\ Serving(w, "cancel")
    /\ CanCancel(s)
    /\ Take(s, Negated(lines[s]), historical[s])
    /\ status' = [status EXCEPT ![s] = "cancelled"]
    /\ Finish(w)
    /\ UNCHANGED <<historical, lines, billed, reserved>>

CanReturnUnlocked(s, back) ==                                    \* mutant
    back # NoUnits /\ \A v \in Variants : back[v] <= lines[s][v]

CanReturnTooMany(s, back) == status[s] = "confirmed" /\ back # NoUnits \* mutant

CanReturn(s, back) ==
    /\ status[s] = "confirmed"
    /\ back # NoUnits
    /\ \A v \in Variants : back[v] <= lines[s][v]

\* The row is saved from the object the VIEW loaded, status included.
Return(w, back) ==
    LET s    == req[w].sale
        left == Minus(lines[s], back)
    IN  /\ Serving(w, "return")
        /\ CanReturn(s, back)
        /\ Take(s, Negated(back), historical[s])
        /\ lines'  = [lines EXCEPT ![s] = left]
        /\ billed' = [billed EXCEPT ![s] = left]
        /\ status' = [status EXCEPT ![s] =
                         IF left = NoUnits THEN "cancelled" ELSE req[w].seen]
        /\ Finish(w)
        /\ UNCHANGED <<historical, reserved>>

\* A service that refuses rolls back, and so does one that the database
\* aborts because it waits in a ring with others.  A confirmation may be
\* refused for a reservation that was released between its read and its
\* rollback, so a refusal is not tied to this state.
Refuse(w) ==
    /\ Serving(w, "confirm") \/ Serving(w, "cancel") \/ Serving(w, "return")
    /\ Finish(w)
    /\ UNCHANGED <<rows, ledger, reserved>>

-----------------------------------------------------------------------------
(* Stock that moves without a sale, and the reservations. *)

MoveStock(v, n) ==
    /\ onHand[v] + n \in -MaxShort..MaxStock
    /\ onHand' = [onHand EXCEPT ![v] = @ + n]
    /\ UNCHANGED <<rows, sold, reserved, req>>

Receive(v, q)  == MoveStock(v, q)
\* The bulk form checks nothing; the single form checks an unlocked read.
WriteOff(v, q) == MoveStock(v, -q)
Recount(v, counted) == counted # onHand[v] /\ MoveStock(v, counted - onHand[v])

\* Production orders open, grow, shrink and close; there is no stock cap.
Promise ==
    /\ UNCHANGED <<rows, ledger, req>>
    /\ reserved' \in [Variants -> 0..MaxReserved]

\* A production order becomes a confirmed sale in one transaction: its own
\* reservation is released first, then the sale is confirmed.
HandOver(s, cart) ==
    /\ status[s] = "none"
    /\ cart # NoUnits
    /\ \A v \in Variants : cart[v] <= reserved[v]
    /\ \A v \in Variants : cart[v] > 0 => cart[v] <= Available(v) + cart[v]
    /\ reserved' = Minus(reserved, cart)
    /\ Take(s, cart, FALSE)
    /\ status' = [status EXCEPT ![s] = "confirmed"]
    /\ lines'  = [lines EXCEPT ![s] = cart]
    /\ billed' = [billed EXCEPT ![s] = cart]
    /\ UNCHANGED <<historical, req>>

-----------------------------------------------------------------------------
Init ==
    /\ status     = [s \in Sales |-> "none"]
    /\ historical = [s \in Sales |-> FALSE]
    /\ lines      = [s \in Sales |-> NoUnits]
    /\ billed     = [s \in Sales |-> NoUnits]
    /\ sold       = [s \in Sales |-> NoUnits]
    /\ onHand     = NoUnits
    /\ reserved   = NoUnits
    /\ req        = [w \in Workers |-> Idle]

CartStep(w) ==
    \/ \E v \in Variants, q \in Units : ItemAdd(w, v, q)
    \/ \E v \in Variants : ItemRemove(w, v)
    \/ \E snap \in Carts : Restore(w, snap)

ServiceStep(w) ==
    \/ \E hist \in BOOLEAN : Confirm(w, hist)
    \/ Cancel(w)
    \/ \E back \in Carts : Return(w, back)
    \/ Refuse(w)

StockStep ==
    \/ \E v \in Variants, q \in Units : Receive(v, q) \/ WriteOff(v, q)
    \/ \E v \in Variants, counted \in 0..MaxStock : Recount(v, counted)
    \/ Promise

Next ==
    \/ StockStep
    \/ \E s \in Sales : NewDraft(s)
    \/ \E w \in Workers, op \in Ops, s \in Sales : Load(w, op, s)
    \/ \E w \in Workers : CartStep(w) \/ ServiceStep(w)
    \/ \E s \in Sales, cart \in Carts : HandOver(s, cart)

Spec == Init /\ [][Next]_vars

-----------------------------------------------------------------------------
(* Properties. *)

\* What the ledger says a sale took is what its lines say was sold: all of
\* it while the sale stands, nothing before confirm_sale and nothing after
\* cancel_sale or a full return; a historical sale never moves stock.
LedgerMatchesLines ==
    \A s \in Sales :
        sold[s] = IF status[s] = "confirmed" /\ ~historical[s]
                  THEN lines[s] ELSE NoUnits

\* The stored total of a confirmed sale is the total of its current lines.
BilledMatchesLines ==
    \A s \in Sales : status[s] = "confirmed" => billed[s] = lines[s]

\* A draft, and a historical sale at any time, holds nothing out of the
\* stock, however its requests overlap.
NothingHeldUnconfirmed ==
    \A s \in Sales :
        status[s] \in {"none", "draft"} \/ historical[s] => sold[s] = NoUnits

\* A sale is confirmed once and closed once: no stale save ever reopens a
\* cancelled sale or turns a confirmed one back into a draft.
Later(a, b) ==
    \/ a = b
    \/ a = "none"
    \/ a = "draft"     /\ b \in {"confirmed", "cancelled"}
    \/ a = "confirmed" /\ b = "cancelled"

StatusOnlyAdvances ==
    [][\A s \in Sales : Later(status[s], status'[s])]_status

\* Whatever a sale takes out of the stock was there and was not promised to
\* an open production order (other than the one being handed over).
SalesTakeOnlyAvailable ==
    [][\A s \in Sales, v \in Variants :
          sold'[s][v] > sold[s][v] => onHand'[v] >= reserved'[v]]_vars

\* A confirmed sale's lines only shrink, and only as much as comes back.
ConfirmedLinesOnlyReturn ==
    [][\A s \in Sales, v \in Variants :
          status[s] = "confirmed" =>
              /\ lines'[s][v] <= lines[s][v]
              /\ ~historical[s] /\ lines'[s][v] # lines[s][v] =>
                    onHand'[v] - onHand[v] = lines[s][v] - lines'[s][v]]_vars

\* undo.py: "Nothing here can touch a confirmed sale".  An undo or redo that
\* loaded the draft just before its confirmation rewrites the lines of the
\* confirmed sale: violated when requests overlap.
UndoTouchesOnlyDrafts ==
    [][\A w \in Workers :
          Serving(w, "restore") /\ req'[w] = Idle /\ status[req[w].sale] # "draft"
              => lines'[req[w].sale] = lines[req[w].sale]]_vars

=============================================================================
