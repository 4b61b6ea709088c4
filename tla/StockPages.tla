------------------------------- MODULE StockPages -------------------------------
(***************************************************************************)
(* The stock ledger as pages show it, and the cache those pages go through.*)
(*                                                                         *)
(* The key of a cached page holds one version number, which a signal of    *)
(* every movement raises.  The signal fires when the row is written, inside*)
(* the transaction of the service, and the row is seen by others when that *)
(* commits.  A line of a production order changes what a tile shows, too,  *)
(* and raises nothing.  A page is what it was computed from: so many       *)
(* committed rows.                                                         *)
(***************************************************************************)
EXTENDS Integers, Sequences, FiniteSets, FiniteSetsExt

CONSTANTS
    Variants,
    Category,     \* of each variant; its product as well, one to a category
    Postings,      \* rows that may be written: variant, kind, quantity
    Threshold,    \* low_stock_threshold
    Writers,      \* workers that write
    Readers,      \* workers that show a page
    Ttl,          \* ticks a page is kept
    MaxRows,      \* bound: rows that are written
    MaxEvictions  \* bound: times that the cache loses its version

Kinds == {"production_in", "purchase_in", "return_in", "sale_out", "writeoff_out",
          "adjustment", "order"}

ASSUME PagesAssumption ==
    /\ \A e \in Postings : e.variant \in Variants /\ e.kind \in Kinds /\ e.quantity \in Int
    /\ Ttl \in Nat \ {0} /\ MaxRows \in Nat /\ MaxEvictions \in Nat
    /\ IsFiniteSet(Variants) /\ IsFiniteSet(Writers)

VARIABLES
    ledger,    \* StockMovement and OrderItem rows, in the order of their commits
    writing,   \* what each writer is doing, with the row of its transaction
    version,   \* catalog:v, 0 when the cache does not have it
    page,      \* the cached pages, by version
    reading,   \* what each reader is doing
    evictions

pvars == <<ledger, writing, version, page, reading, evictions>>

Versions == 1..(MaxRows + 1)
NoPage   == [rows |-> -1, left |-> 0, overlapped |-> FALSE]
NoWork     == [step |-> "idle"]

\* A page that is computed while the version was raised for rows that are not
\* committed yet.
Overlap == \E w \in Writers : writing[w].step = "commit" /\ writing[w].entry.kind # "order"

-----------------------------------------------------------------------------
(* Figures *)

Rows(v, kinds, k) == {i \in 1..k : ledger[i].variant = v /\ ledger[i].kind \in kinds}
MovedBy(v, kinds, k) == MapThenSumSet(LAMBDA i : ledger[i].quantity, Rows(v, kinds, k))

OnHand(v, k)   == MovedBy(v, Kinds \ {"order"}, k)
Reserved(v, k) == MovedBy(v, {"order"}, k)

MadeOnly(v, k) == MovedBy(v, {"production_in"}, k)                  \* mutant

TakenIn(v, k) == MovedBy(v, {"production_in", "purchase_in"}, k)

\* One item of the storage report: one query sums every kind of movement.
Item(v, k) ==
    [intake   |-> TakenIn(v, k),
     returns  |-> MovedBy(v, {"return_in"}, k),
     sold     |-> -MovedBy(v, {"sale_out"}, k),
     writeoff |-> -MovedBy(v, {"writeoff_out"}, k),
     adjust   |-> MovedBy(v, {"adjustment"}, k),
     stock    |-> OnHand(v, k),
     low      |-> OnHand(v, k) <= Threshold]

InCategory(c) == {v \in Variants : Category[v] = c}
Categories    == {Category[v] : v \in Variants}
Units(S, k)   == MapThenSumSet(LAMBDA v : Item(v, k).stock, S)

\* The categories and the summary are added up from the items.
StorageData(k) ==
    [items      |-> [v \in Variants |-> Item(v, k)],
     categories |-> [c \in Categories |-> Units(InCategory(c), k)],
     units      |-> Units(Variants, k),
     low        |-> Cardinality({v \in Variants : Item(v, k).low})]

\* The line of totals of its two sheets.
StorageTotals(k) ==
    LET data == StorageData(k)
    IN  [items      |-> MapThenSumSet(LAMBDA v : data.items[v].stock, Variants),
         categories |-> MapThenSumSet(LAMBDA c : data.categories[c], Categories)]

AllOnHand(c, k) == MapThenSumSet(LAMBDA v : OnHand(v, k), InCategory(c))  \* mutant

\* A tile of the grid: one product, what it has less what is promised.
Tile(c, k) ==
    Max({0, MapThenSumSet(LAMBDA v : OnHand(v, k) - Reserved(v, k), InCategory(c))})

\* variant_picker, which is not cached: variant by variant.
Picker(v, k) == Max({0, OnHand(v, k) - Reserved(v, k)})

-----------------------------------------------------------------------------
(* Writers *)

Unfinished == Cardinality({w \in Writers : writing[w] # NoWork})
Raising    == Cardinality({w \in Writers : writing[w].step \in {"bump", "incr"}})

\* add_movement and others that write a row: the signal of a movement comes at
\* once, that of an order line does not exist.
WriteRow(w, e) ==
    /\ writing[w] = NoWork
    /\ Len(ledger) + Unfinished < MaxRows /\ version + Raising <= MaxRows
    /\ writing' = [writing EXCEPT ![w] =
                     [step |-> IF e.kind = "order" THEN "commit" ELSE "bump", entry |-> e]]
    /\ UNCHANGED <<ledger, version, page, reading, evictions>>

SeedOnly(w) == 1                                                    \* mutant

Raised(w) == version + 1

\* bump_catalog_version: add, and when the version is there, incr.
BumpAdd(w) ==
    /\ writing[w].step = "bump"
    /\ version' = IF version = 0 THEN 1 ELSE version
    /\ writing' = [writing EXCEPT ![w].step = IF version = 0 THEN "commit" ELSE "incr"]
    /\ UNCHANGED <<ledger, page, reading, evictions>>

\* The version may have gone since: ValueError, and it is set again.
BumpIncr(w) ==
    /\ writing[w].step = "incr"
    /\ version' = IF version = 0 THEN 1 ELSE Raised(w)
    /\ writing' = [writing EXCEPT ![w].step = "commit"]
    /\ UNCHANGED <<ledger, page, reading, evictions>>

CommitRow(w) ==
    /\ writing[w].step = "commit"
    /\ ledger' = Append(ledger, writing[w].entry)
    /\ writing' = [writing EXCEPT ![w] = NoWork]
    /\ UNCHANGED <<version, page, reading, evictions>>

Rollback(w) ==
    /\ writing[w].step = "commit"
    /\ writing' = [writing EXCEPT ![w] = NoWork]
    /\ UNCHANGED <<ledger, version, page, reading, evictions>>

-----------------------------------------------------------------------------
(* Readers *)

\* catalog_version: a version that is gone starts from 1 again.
ReadVersion(r) ==
    /\ reading[r] = NoWork
    /\ version' = IF version = 0 THEN 1 ELSE version
    /\ reading' = [reading EXCEPT ![r] = [step |-> "look", version |-> version']]
    /\ UNCHANGED <<ledger, writing, page, evictions>>

\* A cached page is shown; otherwise one is computed.
Look(r) ==
    /\ reading[r].step = "look"
    /\ LET v == reading[r].version
       IN  reading' = [reading EXCEPT ![r] =
             IF page[v] # NoPage THEN NoWork
             ELSE [step |-> "store", version |-> v,
                   rows |-> Len(ledger), overlapped |-> Overlap]]
    /\ UNCHANGED <<ledger, writing, version, page, evictions>>

Store(r) ==
    /\ reading[r].step = "store"
    /\ page' = [page EXCEPT ![reading[r].version] =
                  [rows |-> reading[r].rows, left |-> Ttl, overlapped |-> reading[r].overlapped]]
    /\ reading' = [reading EXCEPT ![r] = NoWork]
    /\ UNCHANGED <<ledger, writing, version, evictions>>

-----------------------------------------------------------------------------
(* The cache *)

Ageless(p) == p                                                        \* mutant

NeverGone(p) == IF p = NoPage THEN p ELSE [p EXCEPT !.left = @ - 1]  \* mutant

Older(p) == IF p.left <= 1 THEN NoPage ELSE [p EXCEPT !.left = @ - 1]

Tick ==
    /\ \E v \in Versions : page[v] # NoPage
    /\ page' = [v \in Versions |-> Older(page[v])]
    /\ UNCHANGED <<ledger, writing, version, reading, evictions>>

\* The cache drops the version alone, or everything when it restarts.
Evict ==
    /\ evictions < MaxEvictions /\ version # 0
    /\ evictions' = evictions + 1
    /\ version' = 0
    /\ page' \in {page, [v \in Versions |-> NoPage]}
    /\ UNCHANGED <<ledger, writing, reading>>

-----------------------------------------------------------------------------
PInit ==
    /\ ledger = <<>>
    /\ writing = [w \in Writers |-> NoWork]
    /\ version = 0
    /\ page = [v \in Versions |-> NoPage]
    /\ reading = [r \in Readers |-> NoWork]
    /\ evictions = 0

WriterGoesOn(w) == BumpAdd(w) \/ BumpIncr(w) \/ CommitRow(w)
ReaderGoesOn(r) == Look(r) \/ Store(r)

PNext ==
    \/ \E w \in Writers : WriterGoesOn(w) \/ Rollback(w) \/ \E e \in Postings : WriteRow(w, e)
    \/ \E r \in Readers : ReaderGoesOn(r) \/ ReadVersion(r)
    \/ Tick
    \/ Evict

PSpec == PInit /\ [][PNext]_pvars

\* Transactions and requests end, and time goes on; nobody has to open a page.
PFairness ==
    /\ \A w \in Writers : WF_pvars(WriterGoesOn(w))
    /\ \A r \in Readers : WF_pvars(ReaderGoesOn(r))
    /\ WF_pvars(Tick)

-----------------------------------------------------------------------------
(* Properties *)

PTypeOK ==
    /\ ledger \in Seq(Postings) /\ Len(ledger) + Unfinished <= MaxRows
    /\ version \in 0..(MaxRows + 1)
    /\ \A v \in Versions :
          page[v] # NoPage => page[v].rows \in 0..Len(ledger) /\ page[v].left \in 1..Ttl

\* A page that is found under the current version lacks only order lines, unless
\* it was computed between a signal and its commit, or the version was lost.
StaleOnlyByOverlap ==
    LET shown == page[version]
    IN  evictions = 0 /\ version # 0 /\ shown # NoPage /\ ~shown.overlapped
            => \A i \in (shown.rows + 1)..Len(ledger) : ledger[i].kind = "order"

\* The columns of the storage report explain the stock of every variant, and its
\* categories and the totals of both sheets are the summary.
StockIsExplained ==
    LET data == StorageData(Len(ledger))
    IN  /\ \A v \in Variants :
              LET it == data.items[v]
              IN  it.stock = it.intake + it.returns - it.sold - it.writeoff + it.adjust
        /\ StorageTotals(Len(ledger)) = [items |-> data.units, categories |-> data.units]

\* A tile never promises more than its variants have when they are picked one by
\* one; it may promise less, as a variant that is short takes from the others.
TilePromisesNoMore ==
    \A c \in Categories :
        Tile(c, Len(ledger))
            <= MapThenSumSet(LAMBDA v : Picker(v, Len(ledger)), InCategory(c))

\* What the pages show can be trusted as far as it can be.
PagesTrue == PTypeOK /\ StaleOnlyByOverlap /\ StockIsExplained /\ TilePromisesNoMore

\* Whatever page was stored late or under a version that came back: once nothing
\* is written any more, the pages that are found tell the whole ledger.
PagesCatchUp == <>[](version # 0 /\ page[version] # NoPage => page[version].rows = Len(ledger))
=============================================================================
