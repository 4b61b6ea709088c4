--------------------------------- MODULE Drafts ---------------------------------
(***************************************************************************)
(* How a seller's cart comes to be and fills: the page of a new sale, which*)
(* makes no row yet, the first tap, which makes one, further taps, the cart*)
(* of a production order, which fills in the same way but has no limit, and*)
(* the nightly removal of drafts that stayed empty.                        *)
(*                                                                         *)
(* Two requests of one seller share a session: each loads it when it starts*)
(* and stores all of it when it ends, and nothing locks it.  Only its      *)
(* pending_sale_token is kept here.  A cart holds one variant.             *)
(***************************************************************************)
EXTENDS Integers, Sequences, FiniteSets, FiniteSetsExt

CONSTANTS
    TapWorkers,     \* web workers
    Stock,       \* what can be sold of the variant
    Quantities,  \* quantities that are asked for
    MaxBegun,    \* bound: pages of a new sale and taps
    MaxNights    \* bound: runs of the removal

ASSUME DraftsAssumption ==
    /\ IsFiniteSet(TapWorkers) /\ Stock \in Nat
    /\ IsFiniteSet(Quantities) /\ Quantities \subseteq Nat \ {0}
    /\ {MaxBegun, MaxNights} \subseteq Nat

VARIABLES
    cart,      \* SaleOrder drafts, in the order of their creation, after one Order
    session,   \* pending_sale_token in the store, NoToken when it is not there
    minted,    \* tokens made so far
    req,       \* what each worker serves
    removal,   \* cleanup_draft_sales
    taps, nights,
    visit,     \* history: the pages, with their token and the carts there were
    landed,    \* history: pages whose taps landed in a cart, and how
    revived,   \* history: a tap on a cart stored a token that had been used up
    overlap    \* history: carts that two requests were adding to at once

dvars == <<cart, session, minted, req, removal, taps, nights, visit, landed, revived, overlap>>

NoToken == 0
NoTap    == [step |-> "idle"]
Carts   == DOMAIN cart
Quantity(rows) == MapThenSumSet(LAMBDA i : rows[i], DOMAIN rows)
TheOrder == 1

\* A row of a cart that was removed has the quantity 0.
FirstRow(rows) == IF \E i \in DOMAIN rows : rows[i] > 0
                  THEN Min({i \in DOMAIN rows : rows[i] > 0}) ELSE 0

EmptyCart(token, kind) ==
    [kind |-> kind, token |-> token, status |-> "draft", client |-> FALSE, old |-> FALSE,
     rows |-> <<>>, added |-> 0, sold |-> FALSE]

NoCap(c) == Max(Quantities)                                         \* mutant

\* Only a sale's cart is held to what can be sold.
Room(c) == IF cart[c].kind = "order" THEN Max(Quantities)
           ELSE Max({0, Stock - Quantity(cart[c].rows)})

-----------------------------------------------------------------------------
(* The page of a new sale and the first tap *)

\* sale_new: a token is made when the session has none.
OpenPage ==
    /\ Len(visit) + taps < MaxBegun
    /\ session' = IF session = NoToken THEN minted + 1 ELSE session
    /\ minted'  = IF session = NoToken THEN minted + 1 ELSE minted
    /\ visit' = Append(visit, [token |-> session', known |-> Len(cart),
                               quiet |-> \A w \in TapWorkers : req[w] = NoTap])
    /\ UNCHANGED <<cart, req, removal, taps, nights, landed, revived, overlap>>

Takes(w, r) ==
    /\ req[w] = NoTap /\ Len(visit) + taps < MaxBegun
    /\ taps' = taps + 1
    /\ req' = [req EXCEPT ![w] = r]
    /\ UNCHANGED <<cart, session, minted, removal, nights, visit, landed, revived, overlap>>

\* item_add_new, with the session as it is when the request starts.
FirstTap(w, v, q) == Takes(w, [step |-> "create", token |-> session, visit |-> v, asked |-> q])

AlwaysNew(token) == {}                                              \* mutant

\* The row that has the token, whatever became of it: its constraint is unique.
WithToken(token) == {c \in Carts : cart[c].token = token /\ cart[c].status # "deleted"}

Held(w) == session                                                  \* mutant

\* The token goes from the session of the request that has used it.
Used(w) == NoToken

\* _get_or_create_pending_draft: a token that is missing is made.
GetOrCreate(w) ==
    /\ req[w].step = "create"
    /\ LET token == IF req[w].token = NoToken THEN minted + 1 ELSE req[w].token
           found == WithToken(token)
           c     == IF found = {} THEN Len(cart) + 1 ELSE Min(found)
           v     == req[w].visit
       IN  /\ cart' = IF found = {} THEN Append(cart, EmptyCart(token, "sale")) ELSE cart
           /\ minted' = Max({minted, token})
           /\ landed' = landed \cup {[visit |-> v, cart |-> c,
                                      own |-> req[w].token = visit[v].token]}
           /\ req' = [req EXCEPT ![w] = [step |-> "read", cart |-> c, token |-> Used(w),
                                         first |-> TRUE, asked |-> req[w].asked]]
    /\ UNCHANGED <<session, removal, taps, nights, visit, revived, overlap>>

-----------------------------------------------------------------------------
(* item_add *)

Tap(w, c, q) ==
    /\ c \in Carts /\ cart[c].status # "deleted"
    /\ Takes(w, [step |-> "read", cart |-> c, token |-> session, first |-> FALSE, asked |-> q])

\* What is there already is read: the room that is left, and the row to add to.
\* A cart that was confirmed or removed is 404, and the session as it was.
ReadCart(w) ==
    /\ req[w].step = "read"
    /\ LET c == req[w].cart
           q == Min({req[w].asked, Room(c)})
           i == FirstRow(cart[c].rows)
       IN  /\ req' = [req EXCEPT ![w] =
                IF cart[c].status # "draft" \/ q = 0
                THEN [step |-> "save", token |-> req[w].token, first |-> req[w].first]
                ELSE [step |-> "write", cart |-> c, token |-> req[w].token,
                      first |-> req[w].first, quantity |-> q, row |-> i,
                      seen |-> IF i = 0 THEN 0 ELSE cart[c].rows[i]]]
           /\ overlap' = IF \E u \in TapWorkers : req[u].step = "write" /\ req[u].cart = c
                         THEN overlap \cup {c} ELSE overlap
    /\ UNCHANGED <<cart, session, minted, removal, taps, nights, visit, landed, revived>>

Overwritten(r) == r.quantity                                        \* mutant

\* What is stored: what was read and what is added, not the sum as it is now.
Stored(r) == r.seen + r.quantity

\* The row or the whole cart may be gone: 500, and the session is not stored.
WriteCart(w) ==
    /\ req[w].step = "write"
    /\ LET r == req[w]
           k == cart[r.cart]
       IN  IF k.status = "deleted" \/ (r.row # 0 /\ k.rows[r.row] = 0)
           THEN req' = [req EXCEPT ![w] = NoTap] /\ UNCHANGED cart
           ELSE /\ cart' = [cart EXCEPT ![r.cart] =
                     [k EXCEPT !.added = @ + r.quantity,
                               !.rows = IF r.row = 0 THEN Append(@, r.quantity)
                                        ELSE [@ EXCEPT ![r.row] = Stored(r)]]]
                /\ req' = [req EXCEPT ![w] = [step |-> "save", token |-> r.token, first |-> r.first]]
    /\ UNCHANGED <<session, minted, removal, taps, nights, visit, landed, revived, overlap>>

\* The request stores its session, over what others have stored since it began.
SaveSession(w) ==
    /\ req[w].step = "save"
    /\ session' = req[w].token
    /\ revived' = (revived \/ (~req[w].first /\ session' # NoToken /\ WithToken(session') # {}))
    /\ req' = [req EXCEPT ![w] = NoTap]
    /\ UNCHANGED <<cart, minted, removal, taps, nights, visit, landed, overlap>>

-----------------------------------------------------------------------------
(* The rest of a cart's life *)

Edit(c, k) ==
    /\ cart' = [cart EXCEPT ![c] = k]
    /\ UNCHANGED <<session, minted, req, removal, taps, nights, visit, landed, revived, overlap>>

\* item_remove
RemoveRow(c) ==
    /\ cart[c].status = "draft" /\ FirstRow(cart[c].rows) # 0
    /\ LET i == FirstRow(cart[c].rows)
       IN  Edit(c, [cart[c] EXCEPT !.rows[i] = 0, !.added = @ - cart[c].rows[i]])

\* client_set
SetClient(c) ==
    /\ cart[c].status = "draft" /\ ~cart[c].client /\ c # TheOrder
    /\ Edit(c, [cart[c] EXCEPT !.client = TRUE])

\* confirm_sale: what is over the stock is refused.
ConfirmCart(c) ==
    /\ cart[c].status = "draft" /\ c # TheOrder
    /\ Quantity(cart[c].rows) \in 1..Stock
    /\ Edit(c, [cart[c] EXCEPT !.status = "confirmed", !.sold = TRUE])

\* A day has passed, which no request lasts.
GrowOld(c) ==
    /\ ~cart[c].old /\ c # TheOrder
    /\ \A w \in TapWorkers : req[w] = NoTap
    /\ Edit(c, [cart[c] EXCEPT !.old = TRUE])

-----------------------------------------------------------------------------
(* cleanup_draft_sales *)

Abandoned(k) ==
    /\ k.kind = "sale" /\ k.status = "draft" /\ k.old /\ ~k.client
    /\ FirstRow(k.rows) = 0

\* The rows to delete are read first,
Select ==
    /\ removal = NoTap /\ nights < MaxNights
    /\ nights' = nights + 1
    /\ \E c \in Carts : Abandoned(cart[c])
    /\ removal' = [step |-> "collect", found |-> {c \in Carts : Abandoned(cart[c])}]
    /\ UNCHANGED <<cart, session, minted, req, taps, visit, landed, revived, overlap>>

Lines(c) == {i \in DOMAIN cart[c].rows : cart[c].rows[i] > 0}

\* then what hangs on them: lines go with them, movements forbid it all,
Collect ==
    /\ removal.step = "collect"
    /\ removal' = IF \E c \in removal.found : cart[c].status = "confirmed" THEN NoTap
                  ELSE [step |-> "delete", found |-> removal.found,
                        lines |-> [c \in removal.found |-> Lines(c)]]
    /\ UNCHANGED <<cart, session, minted, req, taps, nights, visit, landed, revived, overlap>>

\* and then they go, unless a line or a movement came since and the keys fail.
Delete ==
    /\ removal.step = "delete"
    /\ removal' = NoTap
    /\ cart' = IF \E c \in removal.found :
                     cart[c].status = "confirmed" \/ ~(Lines(c) \subseteq removal.lines[c])
               THEN cart
               ELSE [c \in Carts |-> IF c \in removal.found
                                     THEN [cart[c] EXCEPT !.status = "deleted"] ELSE cart[c]]
    /\ UNCHANGED <<session, minted, req, taps, nights, visit, landed, revived, overlap>>

-----------------------------------------------------------------------------
DInit ==
    /\ cart = <<EmptyCart(NoToken, "order")>>
    /\ session = NoToken /\ minted = 0
    /\ req = [w \in TapWorkers |-> NoTap]
    /\ removal = NoTap
    /\ taps = 0 /\ nights = 0
    /\ visit = <<>> /\ landed = {} /\ revived = FALSE /\ overlap = {}

TapStep(w) ==
    \/ \E v \in DOMAIN visit, q \in Quantities : FirstTap(w, v, q)
    \/ \E c \in Carts, q \in Quantities : Tap(w, c, q)
    \/ GetOrCreate(w) \/ ReadCart(w) \/ WriteCart(w) \/ SaveSession(w)

DNext ==
    \/ OpenPage
    \/ \E w \in TapWorkers : TapStep(w)
    \/ \E c \in Carts : RemoveRow(c) \/ SetClient(c) \/ ConfirmCart(c) \/ GrowOld(c)
    \/ Select \/ Collect \/ Delete

DSpec == DInit /\ [][DNext]_dvars

-----------------------------------------------------------------------------
(* Properties *)

DTypeOK ==
    /\ session \in 0..minted /\ minted \in 0..MaxBegun
    /\ \A c \in Carts : Cardinality(Lines(c)) <= Cardinality(TapWorkers)
    /\ \A l \in landed : l.visit \in DOMAIN visit /\ l.cart \in Carts

\* A double tap on the first item of a page makes one sale, provided that both
\* taps found the token of that page in the session: one that starts after the
\* other has stored its session, or after a page of another tab has used the
\* token they shared, makes a sale of its own.
OneDraftPerVisit ==
    \A a, b \in landed :
        a.visit = b.visit /\ a.own /\ b.own /\ ~revived => a.cart = b.cart

\* The first tap of a page never lands in a sale that was there before the page
\* was opened, unless that was while another request had yet to store its session,
\* or a tap on another cart, which had loaded its token, has stored it again.
NewSaleIsNew ==
    \A l \in landed : visit[l.visit].quiet /\ ~revived => l.cart > visit[l.visit].known

\* Whatever taps overlap, no line of a sale asks for more than there is, and a
\* cart of one line holds no more.
LinesWithinStock ==
    \A c \in Carts \ {TheOrder} : \A i \in DOMAIN cart[c].rows : cart[c].rows[i] <= Stock

\* A cart, of a sale or of an order, holds what was added to it and not removed;
\* less only if two requests were adding to it at once, and never more.
AddsAddUp ==
    \A c \in Carts : /\ Quantity(cart[c].rows) <= cart[c].added
                     /\ c \notin overlap => Quantity(cart[c].rows) = cart[c].added

\* A sale that was once confirmed is never removed as an empty draft, whatever came
\* between the look at the drafts, the look at what hangs on them, and their end.
SoldIsKept == \A c \in Carts : cart[c].sold => cart[c].status = "confirmed"

\* What a cart promises to whoever fills it.
CartsAddUp ==
    DTypeOK /\ OneDraftPerVisit /\ NewSaleIsNew /\ LinesWithinStock /\ AddsAddUp /\ SoldIsKept
=============================================================================
