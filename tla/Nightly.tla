------------------------------- MODULE Nightly -------------------------------
(***************************************************************************)
(* The scheduler service: it sleeps until the next time of day that has    *)
(* jobs, runs their commands one after the other, and then looks for the   *)
(* next time again.  A command may take long, fail, or be cut off by a     *)
(* restart; what was due meanwhile is not made up for.  Of the commands,   *)
(* the daily report, the security digest and the purge are modelled by what*)
(* they do to sales and security events, and others only take time.        *)
(***************************************************************************)
EXTENDS Integers, Sequences, FiniteSets, FiniteSetsExt

CONSTANTS
    JobList,     \* what _build_jobs goes through: times of day and commands
    DayTicks,    \* ticks of the clock in a day
    Retain,      \* ticks a security event is kept
    AlertAbove,  \* security events of a day that are let pass
    LastTick,    \* bound: the clock
    MaxLong,     \* ticks that a command takes, if not none
    MaxHappened, \* bound: sales and security events
    MaxStops,    \* bound: restarts of the scheduler
    MaxErrors    \* bound: commands that fail

ASSUME NightlyAssumption ==
    /\ DayTicks \in Nat \ {0} /\ DayTicks <= Retain
    /\ JobList \in Seq([time : 0..(DayTicks - 1), cmd : STRING]) /\ JobList # <<>>
    /\ {Retain, AlertAbove, LastTick, MaxLong, MaxHappened, MaxStops, MaxErrors} \subseteq Nat

VARIABLES
    clock,     \* ticks since midnight of the first day
    sched,     \* what the scheduler does, with what it has yet to run
    ran,       \* history: entries that were begun: for when, when, and whether they failed
    away,      \* history: ticks at which it was running commands or down
    happened,  \* SaleOrder.confirmed_at and SecurityEvent rows
    reported,  \* sales that were in a daily report
    alerted,   \* days of which the owner was alerted
    stops

nvars == <<clock, sched, ran, away, happened, reported, alerted, stops>>

DateOf(t) == t \div DayTicks
Times     == {JobList[i].time : i \in DOMAIN JobList}

-----------------------------------------------------------------------------
(* main *)

\* _build_jobs groups the entries of one time; they run in the order of the list.
Grouped(time) == {j \in DOMAIN JobList : JobList[j].time = time}

On(date, time) == date * DayTicks + time

DueNow(time, t) ==                                                  \* mutant
    IF On(DateOf(t), time) >= t THEN On(DateOf(t), time) ELSE On(DateOf(t) + 1, time)

\* A time that is now is tomorrow's.
NextOccurrence(time, t) ==
    IF On(DateOf(t), time) > t THEN On(DateOf(t), time) ELSE On(DateOf(t) + 1, time)

\* The soonest of all times, with its commands.
Pick ==
    /\ sched.step = "pick"
    /\ \E time \in Times :
          /\ \A other \in Times : NextOccurrence(time, clock) <= NextOccurrence(other, clock)
          /\ sched' = [step |-> "sleep", due |-> NextOccurrence(time, clock), left |-> Grouped(time)]
    /\ UNCHANGED <<clock, ran, away, happened, reported, alerted, stops>>

Wake ==
    /\ sched.step = "sleep" /\ clock >= sched.due
    /\ sched' = [sched EXCEPT !.step = "run"]
    /\ UNCHANGED <<clock, ran, away, happened, reported, alerted, stops>>

Failures == Cardinality({i \in DOMAIN ran : ran[i].failed})

UtcDate(t) == (t + 1) \div DayTicks                                 \* mutant

\* The day of a report: that of the moment at which it is made.
ReportDate(t) == DateOf(t)

OfKind(kind) == {i \in DOMAIN happened : happened[i].kind = kind}

\* What each command makes of the history: today's sales are reported,
SendDailyReport ==
    reported \cup {i \in OfKind("sale") : ReportDate(happened[i].at) = ReportDate(clock)}

\* the owner is alerted when today has too many security events,
SendSecurityDigest ==
    LET today == {i \in OfKind("event") : DateOf(happened[i].at) = DateOf(clock)}
    IN  IF Cardinality(today) > AlertAbove THEN alerted \cup {DateOf(clock)} ELSE alerted

\* and old events are deleted; they stay here as what has been.
PurgeSecurityEvents ==
    [i \in DOMAIN happened |->
        IF happened[i].kind = "event" /\ happened[i].at < clock - Retain
        THEN [happened[i] EXCEPT !.kind = "purged"] ELSE happened[i]]

Effect(cmd) ==
    /\ reported' = IF cmd = "send_daily_report" THEN SendDailyReport ELSE reported
    /\ alerted'  = IF cmd = "send_security_digest" THEN SendSecurityDigest ELSE alerted
    /\ happened' = IF cmd = "purge_security_events" THEN PurgeSecurityEvents ELSE happened

\* _run: the next command, which takes a while; a failure stops no other.
RunCommand(long, failed) ==
    /\ sched.step = "run" /\ sched.left # {}
    /\ clock + long <= LastTick
    /\ failed => Failures < MaxErrors
    /\ LET j == Min(sched.left)
       IN  /\ ran' = Append(ran, [entry |-> j, due |-> sched.due, at |-> clock,
                                  failed |-> failed])
           /\ IF failed THEN UNCHANGED <<reported, alerted, happened>> ELSE Effect(JobList[j].cmd)
           /\ sched' = [sched EXCEPT !.left = @ \ {j}]
    /\ clock' = clock + long
    /\ away' = away \cup (clock + 1)..clock'
    /\ UNCHANGED stops

Finish ==
    /\ sched.step = "run" /\ sched.left = {}
    /\ sched' = [step |-> "pick"]
    /\ UNCHANGED <<clock, ran, away, happened, reported, alerted, stops>>

-----------------------------------------------------------------------------
(* Meanwhile *)

\* The container is stopped; what was left to run is forgotten.
Stop ==
    /\ sched.step # "down" /\ stops < MaxStops
    /\ stops' = stops + 1
    /\ away' = away \cup {clock} \cup (IF sched.step = "run" THEN {sched.due} ELSE {})
    /\ sched' = [step |-> "down"]
    /\ UNCHANGED <<clock, ran, happened, reported, alerted>>

Start ==
    /\ sched.step = "down"
    /\ sched' = [step |-> "pick"]
    /\ UNCHANGED <<clock, ran, away, happened, reported, alerted, stops>>

Pass ==
    /\ clock < LastTick
    /\ \/ sched.step = "sleep" /\ clock < sched.due /\ UNCHANGED away
       \/ sched.step = "down" /\ away' = away \cup {clock + 1}
    /\ clock' = clock + 1
    /\ UNCHANGED <<sched, ran, happened, reported, alerted, stops>>

\* A sale is confirmed, or a login fails.
Happens(kind) ==
    /\ Len(happened) < MaxHappened
    /\ happened' = Append(happened, [kind |-> kind, at |-> clock])
    /\ UNCHANGED <<clock, sched, ran, away, reported, alerted, stops>>

-----------------------------------------------------------------------------
NInit ==
    /\ clock = 0 /\ sched = [step |-> "pick"]
    /\ ran = <<>> /\ away = {0} /\ happened = <<>>
    /\ reported = {} /\ alerted = {} /\ stops = 0

NNext ==
    \/ Pick \/ Wake \/ Finish
    \/ \E long \in {0, MaxLong}, failed \in BOOLEAN : RunCommand(long, failed)
    \/ Stop \/ Start \/ Pass
    \/ \E kind \in {"sale", "event"} : Happens(kind)

NSpec == NInit /\ [][NNext]_nvars

-----------------------------------------------------------------------------
(* Properties *)

\* No job of a time of day runs twice for it, however soon its commands end and
\* whenever the service restarts.
OncePerSlot ==
    \A i, j \in DOMAIN ran :
        ran[i].entry = ran[j].entry /\ ran[i].due = ran[j].due => i = j

Began(j, due) == \E i \in DOMAIN ran : ran[i].entry = j /\ ran[i].due = due

\* Whatever was due and never begun was due while the scheduler was running other
\* commands or was down, or was cut off by a restart: there is no other way to
\* lose a job, also where two jobs have one time.
MissesAccounted ==
    \A j \in DOMAIN JobList, d \in 0..DateOf(clock) :
        LET due == On(d, JobList[j].time)
        IN  due < clock /\ sched.step \in {"sleep", "pick"} /\ ~Began(j, due)
                => due \in away

\* A command ran to its end for a time, and on the day of that time.
InTime(cmd, due) ==
    \E i \in DOMAIN ran : /\ JobList[ran[i].entry].cmd = cmd
                          /\ ran[i].due = due /\ ~ran[i].failed
                          /\ DateOf(ran[i].at) = DateOf(due)

DueOf(cmd, d) ==
    {On(d, JobList[j].time) : j \in {k \in DOMAIN JobList : JobList[k].cmd = cmd}}

\* A sale that was made before the report of its day is in a report, and a day
\* with too many security events before its digest raised the alarm, unless that
\* command failed, was missed, or was held up beyond midnight by those before it.
ReportsAreWhole ==
    /\ \A i \in OfKind("sale") \ reported :
          LET at == happened[i].at
          IN  \A due \in DueOf("send_daily_report", DateOf(at)) :
                 at < due => ~InTime("send_daily_report", due)
    /\ \A d \in (0..DateOf(clock)) \ alerted :
          \A due \in DueOf("send_security_digest", d) :
             Cardinality({i \in DOMAIN happened : /\ happened[i].kind # "sale" /\ happened[i].at < due
                                                  /\ DateOf(happened[i].at) = d}) > AlertAbove
                => ~InTime("send_security_digest", due)

\* What was due is done once, or it is known why not.
JobsAccounted == OncePerSlot /\ MissesAccounted /\ ReportsAreWhole
=============================================================================
