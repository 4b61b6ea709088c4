------------------------------ MODULE StockAlerts ------------------------------
(***************************************************************************)
(* Back-in-stock alerts for one variant: clients ask to be told when it is *)
(* there again, and an intake tells everyone who waits.                    *)
(*                                                                         *)
(* Nothing here is locked.  Asking is a query and, when it finds nothing,  *)
(* an insert that a partial unique constraint may refuse.  Telling happens *)
(* after the intake has committed, in the process that served it: one list *)
(* of the waiting, then per alert a message and a row that is marked, with *)
(* a pause in between.  That process may be killed at any point, for one   *)
(* by the time limit on requests.                                          *)
(***************************************************************************)
EXTENDS Integers, FiniteSets, FiniteSetsExt

CONSTANTS
    Waiters,    \* clients who may ask
    Askers,     \* processes that serve a client who asks: the bot's tasks
    Notifiers,  \* workers that can serve an intake
    MaxAlerts,  \* bound: alerts that are ever made
    MaxStock,   \* bound: units that are available at most
    MaxKills    \* bound: notifiers that are killed

ASSUME AlertsAssumption ==
    /\ MaxAlerts \in Nat /\ MaxStock \in Nat \ {0} /\ MaxKills \in Nat
    /\ IsFiniteSet(Notifiers)

VARIABLES
    alert,      \* the rows, in the order of their making
    available,  \* what the ledger has of the variant, less what is promised
    asking,     \* the client an asker is about to insert an alert for
    telling,    \* what each notifier is doing, and the alerts on its list
    pings,      \* history: messages sent for each alert
    doubtful,   \* history: messages whose sender was killed before marking
    cut,        \* history: alerts on the list of a notifier that was killed
    kills

avars == <<alert, available, asking, telling, pings, doubtful, cut, kills>>

Alerts  == 1..MaxAlerts
NoAlert == [client |-> "none"]
Nobody  == [client |-> "none"]
Rest    == [step |-> "idle", todo |-> {}]

ATypeOK ==
    /\ alert     \in [Alerts -> {NoAlert} \cup [client : Waiters, notified : BOOLEAN]]
    /\ available \in 0..MaxStock
    /\ asking    \in [Askers -> {Nobody} \cup [client : Waiters]]
    /\ telling   \in [Notifiers -> [step : {"idle", "check", "send", "mark"},
                                    todo : SUBSET Alerts]]
    /\ pings     \in [Alerts -> Nat]
    /\ doubtful  \in [Alerts -> Nat]
    /\ cut       \subseteq Alerts
    /\ kills     \in 0..MaxKills

Made    == {a \in Alerts : alert[a] # NoAlert}
Waiting == {a \in Made : ~alert[a].notified}

\* uniq_open_stock_alert_per_client
NoConstraint(c) == TRUE                                             \* mutant

MayInsert(c) == \A a \in Waiting : alert[a].client # c

-----------------------------------------------------------------------------
(* register_stock_alert *)

Find(p, c) ==
    /\ asking[p] = Nobody
    /\ \A a \in Waiting : alert[a].client # c
    /\ asking' = [asking EXCEPT ![p] = [client |-> c]]
    /\ UNCHANGED <<alert, available, telling, pings, doubtful, cut, kills>>

\* The insert, or the IntegrityError that ends the bot's task.
Ask(p) ==
    /\ asking[p] # Nobody
    /\ LET c == asking[p].client
       IN  \/ /\ MayInsert(c) /\ Made # Alerts
              /\ alert' = [alert EXCEPT ![Cardinality(Made) + 1] =
                             [client |-> c, notified |-> FALSE]]
           \/ ~MayInsert(c) /\ UNCHANGED alert
    /\ asking' = [asking EXCEPT ![p] = Nobody]
    /\ UNCHANGED <<available, telling, pings, doubtful, cut, kills>>

-----------------------------------------------------------------------------
(* Stock *)

\* A production or a purchase; only these two call notify_back_in_stock.
Intake(w) ==
    /\ telling[w] = Rest
    /\ available < MaxStock
    /\ available' = available + 1
    /\ telling' = [telling EXCEPT ![w].step = "check"]
    /\ UNCHANGED <<alert, asking, pings, doubtful, cut, kills>>

\* A sale or an order, and a return or a cancellation: none of them tells anybody.
Trade ==
    /\ available' \in 0..MaxStock \ {available}
    /\ UNCHANGED <<alert, asking, telling, pings, doubtful, cut, kills>>

-----------------------------------------------------------------------------
(* notify_back_in_stock *)

AllMade == Made                                                     \* mutant

Listed == Waiting

List(w) ==
    /\ telling[w].step = "check"
    /\ telling' = [telling EXCEPT ![w] =
                     IF available > 0 /\ Listed # {}
                     THEN [step |-> "send", todo |-> Listed] ELSE Rest]
    /\ UNCHANGED <<alert, available, asking, pings, doubtful, cut, kills>>

Oldest(w) == Min(telling[w].todo)

\* send_to_client; the answer of the messenger is not looked at.
SendPing(w) ==
    /\ telling[w].step = "send"
    /\ pings' = [pings EXCEPT ![Oldest(w)] = @ + 1]
    /\ telling' = [telling EXCEPT ![w].step = "mark"]
    /\ UNCHANGED <<alert, available, asking, doubtful, cut, kills>>

\* notified_at is written, whoever else has written it meanwhile.
After(w) == LET rest == telling[w].todo \ {Oldest(w)}
            IN  IF rest = {} THEN Rest ELSE [step |-> "send", todo |-> rest]

OnlyFirst(w) == Rest                                                \* mutant

NextOnList(w) == After(w)

Mark(w) ==
    /\ telling[w].step = "mark"
    /\ alert' = [alert EXCEPT ![Oldest(w)].notified = TRUE]
    /\ telling' = [telling EXCEPT ![w] = NextOnList(w)]
    /\ UNCHANGED <<available, asking, pings, doubtful, cut, kills>>

KillNotifier(w) ==
    /\ telling[w] # Rest /\ kills < MaxKills
    /\ kills' = kills + 1
    /\ cut' = cut \cup telling[w].todo
    /\ doubtful' = IF telling[w].step = "mark"
                 THEN [doubtful EXCEPT ![Oldest(w)] = @ + 1] ELSE doubtful
    /\ telling' = [telling EXCEPT ![w] = Rest]
    /\ UNCHANGED <<alert, available, asking, pings>>

-----------------------------------------------------------------------------
AInit ==
    /\ alert     = [a \in Alerts |-> NoAlert]
    /\ available = 0
    /\ asking    = [p \in Askers |-> Nobody]
    /\ telling   = [w \in Notifiers |-> Rest]
    /\ pings     = [a \in Alerts |-> 0]
    /\ doubtful  = [a \in Alerts |-> 0]
    /\ cut       = {}
    /\ kills     = 0

AskStep == \E p \in Askers : Ask(p) \/ \E c \in Waiters : Find(p, c)

NotifierGoesOn(w) == List(w) \/ SendPing(w) \/ Mark(w)

ANext ==
    \/ AskStep
    \/ Trade
    \/ \E w \in Notifiers : Intake(w) \/ NotifierGoesOn(w) \/ KillNotifier(w)

ASpec == AInit /\ [][ANext]_avars

\* A notifier that is not killed goes on; nobody has to ask, produce or buy.
AFairness == \A w \in Notifiers : WF_avars(NotifierGoesOn(w))

-----------------------------------------------------------------------------
(* Properties *)

\* A client waits for a variant once, although two presses of the button look for
\* an open alert before either inserts one.
OneWaitPerClient ==
    \A a, b \in Waiting : alert[a].client = alert[b].client => a = b

\* One wait is told about at most once by every worker, and once more for every
\* worker that was killed between the message and the mark: marking the row is
\* what stops the next intake from telling again.
PingsAccounted == \A a \in Alerts : pings[a] <= Cardinality(Notifiers) + doubtful[a]

\* Who is marked as told has been sent a message.
MarkedWasSent == \A a \in Made : alert[a].notified => pings[a] > 0

\* The rows are accounted for, message by message.
AlertsAccounted == ATypeOK /\ OneWaitPerClient /\ PingsAccounted /\ MarkedWasSent

\* Everyone on the list of an intake is told, unless its worker was killed.
WaitersHear ==
    \A a \in Alerts :
        (\E w \in Notifiers : a \in telling[w].todo)
            ~> (a \in Made /\ alert[a].notified) \/ a \in cut
=============================================================================
