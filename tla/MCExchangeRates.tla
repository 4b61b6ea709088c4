---------------------------- MODULE MCExchangeRates ----------------------------
(***************************************************************************)
(* Small instances of the two things that are served from the cache: the   *)
(* rate of a currency, and the pages of stock.  They share nothing but the *)
(* cache, so a behaviour shows one of them (`focus`).                      *)
(***************************************************************************)
EXTENDS ExchangeRates, StockPages

VARIABLE focus

MCCategory == [v \in Variants |-> "coats"]

MCPostings ==
    {[variant |-> "v1", kind |-> "purchase_in", quantity |-> 2],
     [variant |-> "v1", kind |-> "order", quantity |-> 3]}

CacheInit == Init /\ PInit /\ focus \in {"rates", "pages"}

CacheNext ==
    /\ focus' = focus
    /\ \/ focus = "rates" /\ Next /\ UNCHANGED pvars
       \/ focus = "pages" /\ PNext /\ UNCHANGED vars

CacheSpec ==
    /\ CacheInit /\ [][CacheNext]_<<vars, pvars, focus>>
    /\ (\A w \in Workers : WF_vars(Step(w))) /\ WF_vars(Expire) /\ PFairness

-----------------------------------------------------------------------------
\* A page of stock is what the rows said, or is about to go.
CachePages == focus = "pages" => PagesTrue

=============================================================================
