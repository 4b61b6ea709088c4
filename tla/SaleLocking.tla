----------------------------- MODULE SaleLocking -----------------------------
(***************************************************************************)
(* The services of SaleLedger one SQL statement at a time, under           *)
(* PostgreSQL's READ COMMITTED: a statement sees what is committed when it *)
(* starts, SELECT ... FOR UPDATE waits for the row and then sees its       *)
(* committed version, and a transaction's writes appear together when it   *)
(* commits.  Inserting a row that refers to a locked row waits too: the    *)
(* foreign keys are checked at commit, row after row, with a FOR KEY SHARE *)
(* lock that excludes FOR UPDATE and is excluded by it.                    *)
(*                                                                         *)
(* The query that locks the variants sorts them by the name of their       *)
(* product, so it joins the products and locks these rows too.             *)
(*                                                                         *)
(* The committed rows are SaleLedger's variables, so the statement that    *)
(* this module implements SaleLedger is that its behaviours satisfy        *)
(* SaleLedger's own Spec: the row locks make each service atomic.          *)
(***************************************************************************)
EXTENDS SaleLedger

CONSTANTS
    Rank,       \* the place of a variant in the default order of the model
    ProductOf   \* the product of a variant

ASSUME RankAssumption == Rank \in [Variants -> Nat] /\ IsFiniteSet(Variants)

VARIABLES
    tx,            \* the transaction of each worker
    saleLock,      \* workers holding a sale's row
    variantLock,   \* workers holding a variant's row, FOR UPDATE
    productLock,   \* the same for a product's row
    variantShare   \* workers holding a variant's row, FOR KEY SHARE

locks == <<saleLock, variantLock, productLock, variantShare>>
lvars == <<vars, tx, locks>>

NoTx == [pc |-> "none"]
Pcs  == {"locked", "locking", "reserved", "ready", "inserted"}

\* `back`: what a cancellation or a return puts back in stock.
Tx == [pc : Pcs, hist : BOOLEAN, items : [Variants -> Nat],
       avail : [Variants -> Int], back : [Variants -> Nat]]

Products == {ProductOf[v] : v \in Variants}

Services == {"confirm", "cancel", "return"}

\* A row's lock is the set of its holders: at most one, if locking works.
LTypeOK ==
    /\ TypeOK
    /\ tx          \in [Workers -> Tx \cup {NoTx}]
    /\ saleLock    \in [Sales -> SUBSET Workers]
    /\ variantLock  \in [Variants -> SUBSET Workers]
    /\ productLock  \in [Products -> SUBSET Workers]
    /\ variantShare \in [Variants -> SUBSET Workers]

At(w, pc)     == tx[w].pc = pc
Needed(w)     == {v \in Variants : tx[w].items[v] > 0}
Held(w)       == {v \in Variants : w \in variantLock[v]}
HalfHeld(w)   == {v \in Held(w) : w \notin productLock[ProductOf[v]]}

\* Commit and rollback end the transaction and free its rows.
EndTx(w) ==
    /\ tx'          = [tx EXCEPT ![w] = NoTx]
    /\ saleLock'     = [s \in Sales |-> saleLock[s] \ {w}]
    /\ variantLock'  = [v \in Variants |-> variantLock[v] \ {w}]
    /\ productLock'  = [p \in Products |-> productLock[p] \ {w}]
    /\ variantShare' = [v \in Variants |-> variantShare[v] \ {w}]

-----------------------------------------------------------------------------
(* Statements. *)

FreeAlways(holders) == TRUE                                      \* mutant
Free(holders)       == holders = {}

\* SaleOrder.objects.select_for_update().get(pk=order.pk), and the status
\* check on the row it returns.
LockSale(w, hist) ==
    LET s == req[w].sale IN
    /\ req[w] # Idle /\ req[w].op \in Services
    /\ At(w, "none")
    /\ Free(saleLock[s])
    /\ hist => req[w].op = "confirm"
    /\ IF status[s] = (IF req[w].op = "confirm" THEN "draft" ELSE "confirmed")
       THEN /\ saleLock' = [saleLock EXCEPT ![s] = @ \cup {w}]
            /\ tx' = [tx EXCEPT ![w] = [pc |-> "locked", hist |-> hist,
                                        items |-> NoUnits, avail |-> NoUnits,
                                        back |-> NoUnits]]
            /\ UNCHANGED <<vars, variantLock, productLock, variantShare>>
       ELSE /\ Finish(w)
            /\ UNCHANGED <<rows, ledger, reserved, tx, locks>>

\* order.items, read once the sale is locked.
ReadItems(w) ==
    LET cart == lines[req[w].sale]
        next == IF req[w].op = "confirm" /\ ~tx[w].hist THEN "locking" ELSE "ready"
    IN  /\ At(w, "locked")
        /\ tx' = [tx EXCEPT ![w].items = cart, ![w].pc = next]
        /\ UNCHANGED <<vars, locks>>

\* ProductVariant.objects.select_for_update(): row after row in the default
\* order, of each the variant and then its product.
AnyNext(w, v) == HalfHeld(w) = {} /\ v \in Needed(w) \ Held(w)     \* mutant

NextToLock(w, v) ==
    /\ HalfHeld(w) = {}
    /\ v \in Needed(w) \ Held(w)
    /\ \A u \in Needed(w) \ Held(w) : Rank[v] <= Rank[u]

LockVariant(w, v) ==
    /\ At(w, "locking")
    /\ NextToLock(w, v)
    /\ Free(variantLock[v]) /\ Free(variantShare[v])
    /\ variantLock' = [variantLock EXCEPT ![v] = @ \cup {w}]
    /\ UNCHANGED <<vars, tx, saleLock, productLock, variantShare>>

LockProduct(w, v) ==
    /\ At(w, "locking")
    /\ v \in HalfHeld(w)
    /\ Free(productLock[ProductOf[v]])
    /\ productLock' = [productLock EXCEPT ![ProductOf[v]] = @ \cup {w}]
    /\ UNCHANGED <<vars, tx, saleLock, variantLock, variantShare>>

\* The stock is summed once every row is locked.
ReadStock(w) ==
    /\ At(w, "locking")
    /\ Needed(w) \subseteq Held(w) \ HalfHeld(w)
    /\ tx' = [tx EXCEPT ![w].avail = onHand, ![w].pc = "reserved"]
    /\ UNCHANGED <<vars, locks>>

ReadReserved(w) ==
    /\ At(w, "reserved")
    /\ tx' = [tx EXCEPT ![w].avail = Minus(@, reserved), ![w].pc = "ready"]
    /\ UNCHANGED <<vars, locks>>

\* The RETURN_IN movements of a cancellation or a return are inserted.
GiveBack(w, back) ==
    /\ At(w, "ready")
    /\ \/ Serving(w, "cancel") /\ back = tx[w].items
       \/ /\ Serving(w, "return") /\ back # NoUnits
          /\ \A v \in Variants : back[v] <= tx[w].items[v]
    /\ tx' = [tx EXCEPT ![w].back = back, ![w].pc = "inserted"]
    /\ UNCHANGED <<vars, locks>>

ForeignKeyIgnored(v) == TRUE                                     \* mutant

\* A new row that refers to variant v commits only when no one else holds v.
ForeignKeyFree(v) == variantLock[v] = {}

ToShare(w) ==
    IF historical[req[w].sale] THEN {}
    ELSE {v \in Variants : tx[w].back[v] > 0 /\ w \notin variantShare[v]}

\* One foreign key is checked.  Their order is that of the lines, which may be
\* any.  A confirmation refers to rows that it holds already.
ShareVariant(w, v) ==
    /\ At(w, "inserted")
    /\ v \in ToShare(w) /\ ForeignKeyFree(v)
    /\ variantShare' = [variantShare EXCEPT ![v] = @ \cup {w}]
    /\ UNCHANGED <<vars, tx, saleLock, variantLock, productLock>>

-----------------------------------------------------------------------------
(* The commits, which write what the transaction has read. *)

CommitConfirm(w) ==
    LET s     == req[w].sale
        items == tx[w].items
    IN  /\ At(w, "ready") /\ Serving(w, "confirm")
        /\ items # NoUnits
        /\ tx[w].hist \/ \A v \in Needed(w) : items[v] <= tx[w].avail[v]
        /\ Take(s, items, tx[w].hist)
        /\ status'     = [status EXCEPT ![s] = "confirmed"]
        /\ historical' = [historical EXCEPT ![s] = @ \/ tx[w].hist]
        /\ billed'     = [billed EXCEPT ![s] = items]
        /\ Finish(w) /\ EndTx(w)
        /\ UNCHANGED <<lines, reserved>>

CommitCancel(w) ==
    LET s == req[w].sale IN
    /\ At(w, "inserted") /\ Serving(w, "cancel")
    /\ ToShare(w) = {}
    /\ Take(s, Negated(tx[w].back), historical[s])
    /\ status' = [status EXCEPT ![s] = "cancelled"]
    /\ Finish(w) /\ EndTx(w)
    /\ UNCHANGED <<historical, lines, billed, reserved>>

CommitReturn(w) ==
    LET s    == req[w].sale
        left == Minus(tx[w].items, tx[w].back)
    IN  /\ At(w, "inserted") /\ Serving(w, "return")
        /\ ToShare(w) = {}
        /\ Take(s, Negated(tx[w].back), historical[s])
        /\ lines'  = [lines EXCEPT ![s] = left]
        /\ billed' = [billed EXCEPT ![s] = left]
        /\ status' = [status EXCEPT ![s] =
                         IF left = NoUnits THEN "cancelled" ELSE req[w].seen]
        /\ Finish(w) /\ EndTx(w)
        /\ UNCHANGED <<historical, reserved>>

\* The ValidationErrors raised under the locks.
RollBack(w) ==
    /\ At(w, "ready")
    /\ \/ /\ Serving(w, "confirm")
          /\ \/ tx[w].items = NoUnits
             \/ ~tx[w].hist /\ \E v \in Needed(w) : tx[w].items[v] > tx[w].avail[v]
       \/ /\ Serving(w, "return")
          /\ \E back \in Carts :
                back = NoUnits \/ \E v \in Variants : back[v] > tx[w].items[v]
    /\ Finish(w) /\ EndTx(w)
    /\ UNCHANGED <<rows, ledger, reserved>>

\* Worker u cannot go on until w ends its transaction.
WaitsFor(u, w) ==
    /\ u # w
    /\ \/ /\ \E op \in Services : Serving(u, op)
          /\ At(u, "none") /\ w \in saleLock[req[u].sale]
       \/ /\ At(u, "locking")
          /\ \/ \E v \in Variants : NextToLock(u, v) /\ w \in variantLock[v] \cup variantShare[v]
             \/ \E v \in HalfHeld(u) : w \in productLock[ProductOf[v]]
       \/ At(u, "inserted") /\ \E v \in ToShare(u) : w \in variantLock[v]

\* Transactions that all wait for one another.
Ring(ws) == ws # {} /\ \A u \in ws : \E w \in ws : WaitsFor(u, w)

\* The database notices a ring and aborts one of them.
Abort(w) ==
    /\ \E ws \in SUBSET Workers : w \in ws /\ Ring(ws)
    /\ Finish(w) /\ EndTx(w)
    /\ UNCHANGED <<rows, ledger, reserved>>

-----------------------------------------------------------------------------
LInit ==
    /\ Init
    /\ tx          = [w \in Workers |-> NoTx]
    /\ saleLock    = [s \in Sales |-> {}]
    /\ variantLock  = [v \in Variants |-> {}]
    /\ productLock  = [p \in Products |-> {}]
    /\ variantShare = [v \in Variants |-> {}]

Commit(w) ==
    \/ CommitConfirm(w)
    \/ CommitCancel(w)
    \/ CommitReturn(w)
    \/ RollBack(w)
    \/ Abort(w)

Statement(w) ==
    \/ \E hist \in BOOLEAN : LockSale(w, hist)
    \/ ReadItems(w)
    \/ \E v \in Variants : LockVariant(w, v) \/ LockProduct(w, v) \/ ShareVariant(w, v)
    \/ \E back \in Carts : GiveBack(w, back)
    \/ ReadStock(w)
    \/ ReadReserved(w)
    \/ Commit(w)

\* The steps that are one statement already.  A movement and a new order
\* line refer to their variant; a hand-over is left to ProductionOrders.
OneStatement ==
    \/ \E w \in Workers, op \in Ops, s \in Sales : Load(w, op, s)
    \/ \E w \in Workers : CartStep(w)
    \/ \E s \in Sales : NewDraft(s)
    \/ \E v \in Variants, q \in Units :
          ForeignKeyFree(v) /\ (Receive(v, q) \/ WriteOff(v, q))
    \/ \E v \in Variants, counted \in 0..MaxStock :
          variantLock[v] \cup variantShare[v] = {} /\ Recount(v, counted)
    \/ /\ Promise
       /\ \A v \in Variants : reserved'[v] > reserved[v] => ForeignKeyFree(v)

LNext ==
    \/ \E w \in Workers : Statement(w)
    \/ OneStatement /\ UNCHANGED <<tx, locks>>

LSpec == LInit /\ [][LNext]_lvars

-----------------------------------------------------------------------------
(* Properties. *)

\* The row locks make the services atomic: every behaviour at the level of
\* statements is a behaviour of SaleLedger, in which a service is one step.
ServicesAreAtomic == Init /\ [][Next]_vars

\* What a service has read stays true until it commits: the items of the
\* locked sale, and at least the availability that a confirmation measured.
ReadsStayTrue ==
    \A w \in Workers :
        /\ At(w, "ready") \/ At(w, "inserted") => tx[w].items = lines[req[w].sale]
        /\ At(w, "ready") /\ Serving(w, "confirm") /\ ~tx[w].hist =>
               \A v \in Needed(w) : tx[w].avail[v] <= Available(v)

\* The rows of a service's transaction are what it takes them for.
LocksHold == LTypeOK /\ ReadsStayTrue

\* No two products share a name, and no two variants a place in the order.
NamesDiffer ==
    \A u, v \in Variants : Rank[u] = Rank[v] => u = v

Contiguous ==
    \A t, u, v \in Variants :
        Rank[t] <= Rank[u] /\ Rank[u] <= Rank[v] /\ ProductOf[t] = ProductOf[v]
            => ProductOf[u] = ProductOf[t]

\* Confirmations lock the variants in one order, so they never wait for one
\* another in a ring, unless one of them sells
\* two variants of one product: it holds the product when it asks for the
\* second, and another one that sells this one asks the other way round.
ConfirmsNeverDeadlock ==
    NamesDiffer /\ Contiguous =>
    \A ws \in SUBSET Workers :
        (\A w \in ws : /\ Serving(w, "confirm") /\ tx[w] # NoTx
                       /\ \A u, v \in Needed(w) : ProductOf[u] = ProductOf[v] => u = v)
            => ~Ring(ws)

=============================================================================
