-------------------------------- MODULE Checkout --------------------------------
(***************************************************************************)
(* The till: what the payment panel shows while a seller types, the        *)
(* confirmation of a sale, which checks, confirms and then records the     *)
(* payment, and the repayment of a sale that is confirmed.                 *)
(*                                                                         *)
(* The checks, the confirmation and the record are three steps; between    *)
(* them other workers take theirs, the cart and its client are edited in   *)
(* another tab, and rates change.  A request keeps the client as it was    *)
(* when it loaded the sale.                                                *)
(*                                                                         *)
(* Rates are in thirds of a som (3 is the som itself).  There is one       *)
(* foreign currency.  The cached rate may be older than its row.           *)
(***************************************************************************)
EXTENDS Integers, Sequences, FiniteSets, FiniteSetsExt

CONSTANTS
    Tills,       \* web workers
    Forms,       \* what sellers enter into the panel
    Prices,      \* totals of the cart
    RowRates,    \* rates of the foreign currency
    PaidWithin,  \* PAYMENT_ROUNDING_TOLERANCE
    Step,        \* CHANGE_ROUNDING_STEP
    Large,       \* LARGE_PAYMENT_THRESHOLD_KGS
    LargeChange, \* CHANGE_CONFIRM_THRESHOLD_KGS
    MaxSent,    \* bound: requests
    MaxEdits     \* bound: edits of the cart and the rates

Som == 3

\* An override or an adjustment of 0 is none; change in a currency that is
\* neither the som nor that of the payment is "other".
FormOK(f) ==
    /\ f.amount \in Nat \ {0} /\ f.cur \in {"KGS", "USD"}
    /\ f.excess \in {"none", "change", "credit"} /\ f.changeIn \in {"KGS", "other"}
    /\ {f.override, f.adjust} \subseteq Nat /\ {f.owner, f.ack} \subseteq BOOLEAN

ASSUME CheckoutAssumption ==
    /\ \A f \in Forms : FormOK(f)
    /\ Prices \subseteq Nat \ {0} /\ RowRates \subseteq Nat \ {0}
    /\ PaidWithin \in Nat /\ Step \in Nat \ {0}

VARIABLES
    till,     \* SaleOrder: status, currency, total in it, client or not, total_kgs
    row,      \* ExchangeRate of the foreign currency: 0 when missing, and stale
    cached,   \* rates:current
    panel,    \* what the panel shows: a form, and the change it promises
    post,     \* the request of each worker
    tab,      \* a change of the client that is under way in another tab
    rows,     \* Payment rows of the sale
    sent, edits,
    unsaved   \* history: forms of confirmed sales whose payment was refused

cvars == <<till, row, cached, panel, post, tab, rows, sent, edits, unsaved>>

NoPost  == [step |-> "idle"]
NoPanel == [shown |-> FALSE]
Up(x)   == (x + 2) \div 3
Half(x) == (2 * x + 3) \div 6
Down(x) == x \div 3

\* get_rate and snapshot_rate_to_base read the cache, rate_info reads the row.
GetRate(cur)  == IF cur = "KGS" THEN Som ELSE cached
FrozenAt(cur) == IF GetRate(cur) = 0 THEN Som ELSE GetRate(cur)
RateInfo(cur) == IF cur = "KGS" THEN [rate |-> Som, stale |-> FALSE] ELSE row

-----------------------------------------------------------------------------
(* compute_change_preview and _payment_conversion *)

InSom(f, rate) == IF f.cur = "KGS" THEN f.amount ELSE Down(f.amount * rate)
Converted(f, rate) == IF f.cur = "KGS" THEN f.amount ELSE Half(f.amount * rate)

Preview(f, rate, balance) ==
    LET received == InSom(f, rate)
        excess   == Min({received, Max({0, received - Max({0, balance})})})
    IN  [received |-> received, excess |-> excess > PaidWithin,
         change |-> Step * (excess \div Step)]

Same(f) == f.cur = till.currency

\* The rate of the check, which fails when one is missing.
CheckRate(f) ==
    IF Same(f) THEN FrozenAt(till.currency)
    ELSE IF f.override # 0 THEN f.override ELSE RateInfo(f.cur).rate

ConvertFails(f) == ~Same(f) /\ (CheckRate(f) = 0 \/ GetRate(till.currency) = 0)

\* What has to be acknowledged, of a foreign payment
RisksAt(f, rate, stale) ==
    IF Same(f) THEN {}
    ELSE (IF f.override # 0 THEN {"manual"} ELSE IF stale THEN {"stale"} ELSE {})
         \cup (IF Converted(f, rate) > Large THEN {"large"} ELSE {})

\* and of any that hands back much.
Risks(f, preview) ==
    RisksAt(f, CheckRate(f), RateInfo(f.cur).stale)
    \cup (IF f.excess = "change" /\ preview.excess /\ preview.change > LargeChange
          THEN {"change"} ELSE {})

\* _check_change_override: two steps, and anything for the owner.
MayAdjust(f, preview) ==
    \/ f.adjust = 0 \/ f.owner
    \/ LET auto == IF f.changeIn = "KGS" THEN preview.change ELSE 0
       IN  f.adjust \in (auto - 2 * Step)..(auto + 2 * Step)

\* _draft_balance_kgs, and balance_kgs_before_payment once it is confirmed.
Paid  == MapThenSumSet(LAMBDA p : rows[p].net, DOMAIN rows)
DraftBalance == Half(till.price * FrozenAt(till.currency))
SaleBalance  == till.totalKgs - Paid
Owing        == IF till.status = "draft" THEN DraftBalance ELSE SaleBalance

Shown(f) == Preview(f, CheckRate(f), Owing)

NoRateNeeded(f) ==                                                  \* mutant
    /\ f.override # 0 => f.owner
    /\ Shown(f).excess => f.excess # "none"
    /\ (f.excess = "change" /\ Shown(f).excess) => MayAdjust(f, Shown(f))
    /\ Risks(f, Shown(f)) # {} => f.ack

AcksIgnored(f) ==                                                   \* mutant
    /\ f.override # 0 => f.owner
    /\ ~ConvertFails(f)
    /\ Shown(f).excess => f.excess # "none"
    /\ (f.excess = "change" /\ Shown(f).excess) => MayAdjust(f, Shown(f))

\* The checks that sale_confirm and debt_pay_confirm share, in this order.
Passes(f) ==
    /\ f.override # 0 => f.owner
    /\ ~ConvertFails(f)
    /\ Shown(f).excess => f.excess # "none"
    /\ (f.excess = "change" /\ Shown(f).excess) => MayAdjust(f, Shown(f))
    /\ Risks(f, Shown(f)) # {} => f.ack

-----------------------------------------------------------------------------
(* The panel *)

\* The checks read the row, the record reads the cache.
RatesApart == row.rate # cached


Body(f, preview) == [shown |-> TRUE, form |-> f, change |-> preview.change, moved |-> RatesApart]

\* What the panel of a sale and that of a debt are filled with.
SaleBody(f) == Body(f, Preview(f, CheckRate(f), DraftBalance))
DebtBody(f) == Body(f, Preview(f, CheckRate(f), SaleBalance))

\* Only a form that asks for change is promised any.
Previews(f, body) ==
    /\ f.excess = "change"
    /\ panel.shown => panel.form # f
    /\ f.override # 0 => f.owner
    /\ ~ConvertFails(f)
    /\ panel' = body
    /\ UNCHANGED <<till, row, cached, post, tab, rows, sent, edits, unsaved>>

Recalc(f)        == till.status = "draft" /\ Previews(f, SaleBody(f))
DebtPayRecalc(f) == till.status = "confirmed" /\ till.client /\ Previews(f, DebtBody(f))

\* Something that a request or the panel has read is not so any more.
Outdated(r) == IF "moved" \in DOMAIN r THEN [r EXCEPT !.moved = TRUE] ELSE r
OthersOutdated(w) == [u \in Tills |-> IF u = w THEN post[u] ELSE Outdated(post[u])]
AllOutdated == post' = [u \in Tills |-> Outdated(post[u])] /\ panel' = Outdated(panel)

-----------------------------------------------------------------------------
(* sale_confirm and debt_pay_confirm *)

Promise(f) == IF panel.shown /\ panel.form = f /\ ~panel.moved THEN panel.change ELSE -1

Request(f, next) ==
    [step |-> next, form |-> f, client |-> till.client,
     adjust |-> IF Shown(f).excess THEN f.adjust ELSE 0,
     sells |-> next = "confirm", promise |-> Promise(f), moved |-> RatesApart]

Submits(w, f, next) ==
    /\ post[w] = NoPost /\ sent < MaxSent
    /\ sent' = sent + 1
    /\ Passes(f)
    /\ post' = [post EXCEPT ![w] = Request(f, next)]
    /\ UNCHANGED <<till, row, cached, panel, tab, rows, edits, unsaved>>

SaleConfirm(w, f) ==
    /\ till.status = "draft"
    /\ f.excess = "credit" => till.client
    /\ Submits(w, f, "confirm")

\* _payable_sale_or_404
DebtPayConfirm(w, f) ==
    /\ till.status = "confirmed" /\ till.client
    /\ Submits(w, f, "pay")

LoserPays(w) == "pay"                                               \* mutant

\* A double tap that has lost shows the sale that is there.
AfterLoss(w) == "idle"

\* confirm_sale freezes the total and the rate.
ConfirmSale(w) ==
    /\ post[w].step = "confirm"
    /\ IF till.status = "draft"
       THEN /\ till' = [till EXCEPT !.status = "confirmed",
                          !.totalKgs = Up(till.price * FrozenAt(till.currency))]
            /\ post' = [OthersOutdated(w) EXCEPT ![w].step = "pay"]
            /\ panel' = Outdated(panel)
       ELSE /\ post' = [post EXCEPT ![w] = IF AfterLoss(w) = "idle" THEN NoPost
                                           ELSE [post[w] EXCEPT !.step = AfterLoss(w)]]
            /\ UNCHANGED <<till, panel>>
    /\ UNCHANGED <<row, cached, tab, rows, sent, edits, unsaved>>

\* record_payment: the rate it freezes,
PayRate(f) ==
    IF f.override # 0 THEN f.override ELSE FrozenAt(f.cur)

\* the change it hands back,
Change(r, preview) ==
    IF r.form.excess # "change" THEN 0
    ELSE IF r.adjust # 0 THEN r.adjust ELSE preview.change

UncheckedExcess(r, preview) ==                                      \* mutant
    ~(~Same(r.form) /\ r.form.override = 0 /\ RateInfo(r.form.cur).rate = 0)

\* and what it refuses, with the sale locked and its balance read again.
Accepts(r, preview) ==
    LET f      == r.form
        change == Change(r, preview)
    IN  /\ ~(~Same(f) /\ f.override = 0 /\ RateInfo(f.cur).rate = 0)
        /\ f.excess = "none" => ~preview.excess
        /\ f.excess = "change" =>
              /\ f.changeIn = "KGS"
              /\ change > 0 => Owing - (preview.received - change) <= PaidWithin
              /\ change <= preview.received

StepUp(f, preview, change) == change + Step                         \* mutant

HandedBack(f, preview, change) == change

\* amount_kgs of the row: a rate typed by hand is kept for soms too.
AmountKgs(f) == Half(f.amount * PayRate(f))

\* A request that had no client records nothing; without one any more it fails.
Record(w) ==
    /\ post[w].step = "pay"
    /\ LET r       == post[w]
           preview == Preview(r.form, PayRate(r.form), Owing)
           change  == HandedBack(r.form, preview, Change(r, preview))
       IN  IF ~r.client
           THEN /\ post' = [post EXCEPT ![w] = NoPost]
                /\ UNCHANGED <<rows, panel, unsaved>>
           ELSE IF till.client /\ Accepts(r, preview)
           THEN /\ rows' = Append(rows,
                     [form |-> r.form, rate |-> PayRate(r.form), change |-> change,
                      net |-> AmountKgs(r.form) - change, left |-> Owing - AmountKgs(r.form) + change,
                      promise |-> IF r.adjust = 0 THEN r.promise ELSE -1,
                      sells |-> r.sells, moved |-> r.moved])
                /\ post' = [OthersOutdated(w) EXCEPT ![w] = NoPost]
                /\ panel' = Outdated(panel)
                /\ UNCHANGED unsaved
           ELSE /\ post' = [post EXCEPT ![w] = NoPost]
                /\ unsaved' = IF r.sells THEN unsaved \cup {[form |-> r.form, moved |-> r.moved]}
                              ELSE unsaved
                /\ UNCHANGED <<rows, panel>>
    /\ UNCHANGED <<till, row, cached, tab, sent, edits>>

-----------------------------------------------------------------------------
(* Meanwhile *)

Edits == edits < MaxEdits /\ edits' = edits + 1

SetPrice(p) ==
    /\ till.status = "draft" /\ p # till.price
    /\ Edits
    /\ till' = [till EXCEPT !.price = p] /\ AllOutdated
    /\ UNCHANGED <<row, cached, tab, rows, sent, unsaved>>

\* client_set and client_clear look at the status before they store.
TabStarts ==
    /\ till.status = "draft" /\ tab = "idle"
    /\ Edits
    /\ tab' = IF till.client THEN "clear" ELSE "set"
    /\ UNCHANGED <<till, row, cached, panel, post, rows, sent, unsaved>>

TabStores ==
    /\ tab # "idle" /\ tab' = "idle"
    /\ till' = [till EXCEPT !.client = (tab = "set")] /\ AllOutdated
    /\ UNCHANGED <<row, cached, rows, sent, edits, unsaved>>

\* A rate is set; a reader of the old row may have put it into the cache after
\* the signal had cleared that.
SetRowRate(r) ==
    /\ Edits
    /\ r # row.rate
    /\ row' = [rate |-> r, stale |-> FALSE]
    /\ cached' \in {r, cached} /\ AllOutdated
    /\ UNCHANGED <<till, tab, rows, sent, unsaved>>

\* Days go by without a new rate; the cache has been loaded again long since.
RateAges ==
    /\ Edits
    /\ row.rate # 0 /\ ~row.stale
    /\ row' = [row EXCEPT !.stale = TRUE]
    /\ cached' = row.rate /\ AllOutdated
    /\ UNCHANGED <<till, tab, rows, sent, unsaved>>

-----------------------------------------------------------------------------
TInit ==
    /\ \E cur \in {"KGS", "USD"}, p \in Prices, client \in BOOLEAN :
          till = [status |-> "draft", currency |-> cur, price |-> p, client |-> client,
                  totalKgs |-> 0]
    /\ \E r \in RowRates \cup {0} : row = [rate |-> r, stale |-> FALSE] /\ cached = r
    /\ panel = NoPanel
    /\ post = [w \in Tills |-> NoPost]
    /\ tab = "idle" /\ rows = <<>> /\ sent = 0 /\ edits = 0 /\ unsaved = {}

TNext ==
    \/ \E f \in Forms : Recalc(f) \/ DebtPayRecalc(f)
    \/ \E w \in Tills, f \in Forms : SaleConfirm(w, f) \/ DebtPayConfirm(w, f)
    \/ \E w \in Tills : ConfirmSale(w) \/ Record(w)
    \/ \E p \in Prices : SetPrice(p)
    \/ TabStarts \/ TabStores
    \/ \E r \in RowRates : SetRowRate(r)
    \/ RateAges

TSpec == TInit /\ [][TNext]_cvars

-----------------------------------------------------------------------------
(* Properties *)

\* However often and from wherever a sale is confirmed, that pays it once.
OnePaymentPerConfirm == Cardinality({p \in DOMAIN rows : rows[p].sells}) <= 1

\* A foreign payment that is large at the rate it was recorded at, or has a rate
\* typed by hand, was acknowledged; unless a rate moved between the check, which
\* reads the row, and the record, which reads the cache.
RisksWereAcknowledged ==
    \A p \in DOMAIN rows :
        LET f == rows[p].form
        IN  ~rows[p].moved => f.ack \/ RisksAt(f, rows[p].rate, FALSE) = {}

\* A rate is typed for a payment in another currency.  The field goes when that
\* currency does, but the form of the sale keeps the rate that was in it.
OwnRate(f) == Same(f) /\ f.override # 0
SomRate(f) == f.cur = "KGS" /\ f.override # 0

\* A payment that leaves no word about an excess is none but for the tolerance and
\* the rounding, at whatever rate and total the sale was frozen in the end, and
\* however many were paid at once; unless it is of soms and a rate was typed.
NoExcessUnasked ==
    \A p \in DOMAIN rows :
        rows[p].form.excess = "none" /\ ~SomRate(rows[p].form) =>
            \/ rows[p].left >= -(PaidWithin + 1)
            \/ rows[p].net <= PaidWithin + 1

\* The change that is handed back is what the panel has promised for the same
\* form, or a step less, as the total is rounded up when it is frozen: never more.
\* A rate that was typed, but is not asked for in the sale's currency, the panel ignores.
ChangeAsPromised ==
    \A p \in DOMAIN rows :
        rows[p].promise >= 0 /\ ~rows[p].moved /\ rows[p].form.excess = "change" /\ ~OwnRate(rows[p].form)
            => rows[p].promise - rows[p].change \in {0, Step}

\* A sale is confirmed without the payment that was entered for it only because
\* something moved in between, or the change was adjusted, or its currency cannot
\* be reckoned at the rate of the payment, or a rate is not asked for: the checks
\* before do not look at these.
PaymentIsKept ==
    \A u \in unsaved :
        u.moved \/ u.form.adjust # 0 \/ u.form.changeIn = "other" \/ OwnRate(u.form)

\* What the till told whoever stood at it is what was recorded.
TillKeepsWord ==
    /\ OnePaymentPerConfirm /\ RisksWereAcknowledged /\ NoExcessUnasked
    /\ ChangeAsPromised /\ PaymentIsKept
=============================================================================
