----------------------------- MODULE ExchangeRates -----------------------------
(***************************************************************************)
(* The current rate of one foreign currency: its row, the cached copy that *)
(* conversions read, the audit trail of its changes, and the payments that *)
(* freeze it.                                                              *)
(*                                                                         *)
(* A rate is written by the daily or on-demand refresh and by the owner's  *)
(* dialog in the POS, both with update_or_create and an audit row in a     *)
(* later transaction, and by the panel, in one transaction with the audit  *)
(* row.  Every write clears the cache from a signal, inside its            *)
(* transaction: before other requests see the row.                         *)
(*                                                                         *)
(* Of the audit trail only the new rates are kept, and of the payments the *)
(* one filed last.  Who a rate comes from (its source) is left out.        *)
(***************************************************************************)
EXTENDS Integers, FiniteSets

CONSTANTS
    Workers,    \* web worker processes and the scheduler
    Ops,        \* the requests made in this instance
    Fetched,    \* bound: rates the provider answers
    Typed,      \* bound: rates the owner types
    RedisFails  \* whether calls to the cache may fail, and are then ignored

Writes == {"refresh", "dialog", "panel", "delete"}
AllOps == Writes \cup {"convert", "pay"}

ASSUME RatesAssumption ==
    /\ Ops \subseteq AllOps /\ RedisFails \in BOOLEAN
    /\ Fetched \cup Typed \subseteq Nat \ {0, 1}

VARIABLES
    row,     \* rate of the ExchangeRate row
    cache,   \* the value under rates:current
    logged,  \* new_rate of the RateChangeLog rows
    filed,   \* rate_to_kgs of the last payment
    past,    \* history: every rate that has been on record
    req      \* the request each worker is serving

vars == <<row, cache, logged, filed, past, req>>

None     == 0   \* no row, no rate
Fallback == 1   \* snapshot_rate_to_base without a rate
Miss     == -1  \* nothing cached
Idle     == [op |-> "idle"]

Rates == Fetched \cup Typed

\* `rate` is the one to be written or the one that was read, `old` the one on
\* record when a write began.
Request == [op : AllOps, rate : Rates \cup {None}, old : Rates \cup {None},
            step : {"old", "write", "commit", "log", "check", "get", "load",
                    "fill", "file"}]

TypeOK ==
    /\ row    \in Rates \cup {None}
    /\ cache  \in Rates \cup {None, Miss}
    /\ logged \subseteq Rates
    /\ filed  \in Rates \cup {Fallback, None}
    /\ past   \subseteq Rates
    /\ req    \in [Workers -> Request \cup {Idle}]

-----------------------------------------------------------------------------
At(w, step)    == req[w] # Idle /\ req[w].step = step
GoTo(w, step)  == req' = [req EXCEPT ![w].step = step]
Finish(w)      == req' = [req EXCEPT ![w] = Idle]
Writing(w)     == req[w] # Idle /\ req[w].op \in Writes

\* More than 10% from the last known rate.
TooFar(rate, old) ==
    old # None /\ 10 * (IF rate > old THEN rate - old ELSE old - rate) > old

FillAtOnce(rate) == cache' = rate                                \* mutant

\* The signal; a failed call to the cache is ignored.
ClearCache(rate) ==
    \/ cache' = Miss
    \/ RedisFails /\ UNCHANGED cache

\* A transaction that has written the row holds its lock.
RowFree == \A u \in Workers : ~At(u, "commit")

MovedSinceCached(w) == req[w].rate # cache                       \* mutant

\* Whether a refresh or the dialog leaves an audit row.
Moved(w) == req[w].old = None \/ req[w].old # req[w].rate

-----------------------------------------------------------------------------
(* Writing a rate. *)

Start(w, op, rate, step) ==
    /\ req[w] = Idle /\ op \in Ops
    /\ req' = [req EXCEPT ![w] = [op |-> op, rate |-> rate, old |-> None, step |-> step]]
    /\ UNCHANGED <<row, cache, logged, filed, past>>

\* A refresh whose fetch failed changes nothing.
Refresh(w, rate) == rate \in Fetched /\ Start(w, "refresh", rate, "old")
Dialog(w, rate)  == rate \in Typed   /\ Start(w, "dialog", rate, "old")
Panel(w, rate)   == rate \in Typed   /\ Start(w, "panel", rate, "write")
Delete(w)        == row # None       /\ Start(w, "delete", None, "write")

ReadOld(w) ==
    /\ At(w, "old")
    /\ IF req[w].op = "refresh" /\ TooFar(req[w].rate, row)
         THEN Finish(w)
         ELSE req' = [req EXCEPT ![w].old = row, ![w].step = "write"]
    /\ UNCHANGED <<row, cache, logged, filed, past>>

Write(w) ==
    /\ At(w, "write") /\ RowFree
    /\ ClearCache(req[w].rate)
    /\ GoTo(w, "commit")
    /\ UNCHANGED <<row, logged, filed, past>>

\* The panel's audit row is in the same transaction; a deletion has none.
\* The change form of the panel takes every rate for a new one.
Commit(w) ==
    /\ At(w, "commit")
    /\ row'  = req[w].rate
    /\ past' = past \cup ({req[w].rate} \ {None})
    /\ IF req[w].op \in {"refresh", "dialog"} THEN GoTo(w, "log") ELSE Finish(w)
    /\ logged' = IF req[w].op = "panel" THEN logged \cup {req[w].rate} ELSE logged
    /\ UNCHANGED <<cache, filed>>

\* The transaction fails after the signal.
RollBack(w) ==
    /\ At(w, "commit")
    /\ Finish(w)
    /\ UNCHANGED <<row, cache, logged, filed, past>>

Log(w) ==
    /\ At(w, "log")
    /\ logged' = IF Moved(w) THEN logged \cup {req[w].rate} ELSE logged
    /\ Finish(w)
    /\ UNCHANGED <<row, cache, filed, past>>

-----------------------------------------------------------------------------
(* Reading it: a conversion for display, and a payment that freezes it. *)

Convert(w) == Start(w, "convert", None, "get")
Pay(w)     == Start(w, "pay", None, "check")

\* record_payment refuses a currency without a rate on record.
Check(w) ==
    /\ At(w, "check")
    /\ IF row = None THEN Finish(w) ELSE GoTo(w, "get")
    /\ UNCHANGED <<row, cache, logged, filed, past>>

Got(w, rate) ==
    IF req[w].op = "pay" THEN req' = [req EXCEPT ![w].rate = rate, ![w].step = "file"]
    ELSE Finish(w)

GetUnchecked(w) ==                                               \* mutant
    /\ At(w, "get")
    /\ Got(w, cache)
    /\ UNCHANGED <<row, cache, logged, filed, past>>

Get(w) ==
    /\ At(w, "get")
    /\ \/ cache # Miss /\ Got(w, cache)
       \/ (cache = Miss \/ RedisFails) /\ GoTo(w, "load")
    /\ UNCHANGED <<row, cache, logged, filed, past>>

Load(w) ==
    /\ At(w, "load")
    /\ req' = [req EXCEPT ![w].rate = row, ![w].step = "fill"]
    /\ UNCHANGED <<row, cache, logged, filed, past>>

Fill(w) ==
    /\ At(w, "fill")
    /\ cache' = req[w].rate \/ (RedisFails /\ UNCHANGED cache)
    /\ Got(w, req[w].rate)
    /\ UNCHANGED <<row, logged, filed, past>>

File(w) ==
    /\ At(w, "file")
    /\ filed' = IF req[w].rate = None THEN Fallback ELSE req[w].rate
    /\ Finish(w)
    /\ UNCHANGED <<row, cache, logged, past>>

ExpireNever == FALSE /\ UNCHANGED vars                           \* mutant

\* The hour is over, or Redis evicted the key.
Expire ==
    /\ cache # Miss
    /\ cache' = Miss
    /\ UNCHANGED <<row, logged, filed, past, req>>

-----------------------------------------------------------------------------
Init ==
    /\ row    = None
    /\ cache  = Miss
    /\ logged = {}
    /\ filed  = None
    /\ past   = {}
    /\ req    = [w \in Workers |-> Idle]

Begin(w) ==
    \/ \E rate \in Fetched : Refresh(w, rate)
    \/ \E rate \in Typed : Dialog(w, rate) \/ Panel(w, rate)
    \/ Delete(w)
    \/ Convert(w)
    \/ Pay(w)

Step(w) ==
    \/ ReadOld(w) \/ Write(w) \/ Commit(w) \/ RollBack(w) \/ Log(w)
    \/ Check(w) \/ Get(w) \/ Load(w) \/ Fill(w) \/ File(w)

Next ==
    \/ \E w \in Workers : Begin(w) \/ Step(w)
    \/ Expire

Spec == Init /\ [][Next]_vars

\* A request that has begun goes on, and a cached value expires; that anybody
\* ever asks for anything is not assumed.
FairSpec == Spec /\ (\A w \in Workers : WF_vars(Step(w))) /\ WF_vars(Expire)

-----------------------------------------------------------------------------
(* What the code must keep. *)

\* A payment freezes a rate that was on record at some time, or the fallback,
\* never one that a failed transaction took back: record_payment reads rates
\* from a cache that is cleared while the write is not committed.
FrozenWasOnRecord ==
    filed \in past \cup {Fallback, None}

\* The audit trail names every rate that was ever on record, or its writer is
\* about to: a writer that finds the rate unchanged leaves no row because the
\* one who brought that rate leaves or has left one, however they interleave.
\* (A process killed between the two transactions leaves none, ever.)
EveryRateLogged ==
    \A rate \in past :
       \/ rate \in logged
       \/ \E w \in Workers : At(w, "log") /\ Moved(w) /\ req[w].rate = rate

\* Once nobody writes rates any more, the cache ends up agreeing with the row
\* for good: a reader that raced a write may leave an old rate in the cache,
\* but only until it expires.
StaleRatesExpire ==
    <>[](\A w \in Workers : ~Writing(w)) => <>[](cache \in {Miss, row})
=============================================================================
