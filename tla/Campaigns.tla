------------------------------- MODULE Campaigns -------------------------------
(***************************************************************************)
(* Marketing campaigns: runs of send_campaign, started by the owner from   *)
(* the panel or from the shell, that message one client after another.     *)
(*                                                                         *)
(* A run decides its audience once, when it starts; then, client by        *)
(* client, it finds or makes the recipient row, sends, and records the     *)
(* outcome, each in a transaction of its own.  It may be killed anywhere,  *)
(* and started again.  The messenger delivers a message, refuses it, asks  *)
(* to come back later, or does not answer, whether or not it delivered.    *)
(* Time goes by in half days; the odd ones are the quiet hours.  Filters   *)
(* of the audience other than consent and the weekly cap are left out.     *)
(***************************************************************************)
EXTENDS Integers, FiniteSets, FiniteSetsExt

CONSTANTS
    Campaigns,   \* ids of the campaigns
    Telegram,    \* those on Telegram; the others are on WhatsApp
    Clients,     \* ids of the clients, in the order of their names
    Runners,     \* processes that can run the command
    MaxPerWeek,  \* MAX_BROADCASTS_PER_CLIENT_PER_WEEK
    Week,        \* seven days, in half days
    MaxRetries,  \* MAX_RETRIES
    Overlapping, \* whether two runs of one campaign may overlap
    MaxClock,    \* bound: half days that go by
    MaxLapses    \* bound: deliveries that go unrecorded

ASSUME CampaignsAssumption ==
    /\ Telegram \subseteq Campaigns /\ Clients \subseteq Nat /\ Overlapping \in BOOLEAN
    /\ IsFiniteSet(Campaigns) /\ IsFiniteSet(Runners)
    /\ {MaxPerWeek, Week} \subseteq Nat \ {0}
    /\ {MaxRetries, MaxClock, MaxLapses} \subseteq Nat

VARIABLES
    status,     \* Campaign.status
    recipient,  \* CampaignRecipient.status
    sentAt,     \* CampaignRecipient.sent_at
    noted,      \* clients with an Interaction for the campaign
    consent,    \* clients reachable on both channels that have given consent
    clock,
    run,        \* what each runner is doing
    delivered,  \* history: messages the client got
    lapses,     \* history: runs that delivered and did not record it
    together    \* history: whether two runs have been going on at once

vars == <<status, recipient, sentAt, noted, consent, clock, run, delivered, lapses,
          together>>

Never == -1
NoRun == [step |-> "none"]
Steps == {"next", "send", "wait", "note", "save"}

\* `got`: whether a message of this run has reached the current client.
Run == [step : Steps, campaign : Campaigns, todo : SUBSET Clients,
        attempts : 0..MaxRetries, ok : BOOLEAN, got : BOOLEAN]

TypeOK ==
    /\ status    \in [Campaigns -> {"draft", "sending", "sent"}]
    /\ recipient \in [Campaigns -> [Clients -> {"none", "pending", "sent", "failed"}]]
    /\ sentAt    \in [Campaigns -> [Clients -> 0..MaxClock \cup {Never}]]
    /\ noted     \in [Campaigns -> SUBSET Clients]
    /\ consent   \subseteq Clients
    /\ clock     \in 0..MaxClock
    /\ run       \in [Runners -> Run \cup {NoRun}]
    /\ delivered \in [Campaigns -> [Clients -> Nat]]
    /\ lapses    \in [Campaigns -> [Clients -> Nat]]
    /\ together  \in BOOLEAN
    /\ \A c \in Campaigns, d \in Clients :
          recipient[c][d] = "sent" => sentAt[c][d] # Never

-----------------------------------------------------------------------------
At(p, step)   == run[p].step = step
GoTo(p, step) == run' = [run EXCEPT ![p].step = step]
QuietHours    == clock % 2 = 1

\* The client whose turn it is; it leaves `todo` when it has been handled.
Current(p) == Min(run[p].todo)

SentThisWeek(d) ==
    {c \in Campaigns : recipient[c][d] = "sent" /\ sentAt[c][d] >= clock - Week}

NeverOver(d) == FALSE                                            \* mutant

OverFrequencyCap(d) == Cardinality(SentThisWeek(d)) >= MaxPerWeek

Audience == {d \in consent : ~OverFrequencyCap(d)}

\* A delivery that this run will not record.
Lapse(p) ==
    IF run[p].got
    THEN lapses' = [lapses EXCEPT ![run[p].campaign][Current(p)] = @ + 1]
    ELSE UNCHANGED lapses

RoomForLapse ==
    MapThenSumSet(LAMBDA cd : lapses[cd[1]][cd[2]], Campaigns \X Clients) < MaxLapses

\* A run of `c` before its next client.
NextOf(c, todo) == [step |-> "next", campaign |-> c, todo |-> todo,
                    attempts |-> 0, ok |-> FALSE, got |-> FALSE]

-----------------------------------------------------------------------------
(* One run. *)

Start(p, c) ==
    /\ run[p] = NoRun
    /\ ~QuietHours
    /\ Overlapping \/ \A q \in Runners : run[q] # NoRun => run[q].campaign # c
    /\ status' = [status EXCEPT ![c] = "sending"]
    /\ run' = [run EXCEPT ![p] = NextOf(c, Audience)]
    /\ together' = (together \/ \E q \in Runners : run[q] # NoRun)
    /\ UNCHANGED <<recipient, sentAt, noted, consent, clock, delivered, lapses>>

\* get_or_create, and the check that nobody is messaged again.
Pick(p) ==
    /\ At(p, "next") /\ run[p].todo # {}
    /\ LET c == run[p].campaign
           d == Current(p)
       IN  /\ recipient' = [recipient EXCEPT ![c][d] = IF @ = "none" THEN "pending" ELSE @]
           /\ run' = [run EXCEPT ![p] =
                        IF recipient[c][d] = "sent"
                        THEN [run[p] EXCEPT !.todo = run[p].todo \ {d}]
                        ELSE [run[p] EXCEPT !.step = "send"]]
    /\ UNCHANGED <<status, sentAt, noted, consent, clock, delivered, lapses,
                   together>>

MayRetryUnanswered(p, answer) ==                                 \* mutant
    answer \in {"later", "timeout"} /\ run[p].attempts < MaxRetries

\* Only an answer "too many requests" is tried again, and only on Telegram.
MayRetry(p, answer) ==
    /\ answer = "later" /\ run[p].campaign \in Telegram
    /\ run[p].attempts < MaxRetries

NotCounted(p) == run[p].attempts                                 \* mutant

Counted(p) == run[p].attempts + 1

SaveAtOnce(answer) == "save"                                     \* mutant

\* A delivery is noted with the client before the outcome is saved.
AfterSending(answer) == IF answer = "ok" THEN "note" ELSE "save"

Answered(p, answer, arrives) ==
    /\ delivered' = IF arrives THEN [delivered EXCEPT ![run[p].campaign][Current(p)] = @ + 1]
                    ELSE delivered
    /\ run' = [run EXCEPT ![p] =
                 IF MayRetry(p, answer)
                 THEN [run[p] EXCEPT !.step = "wait", !.attempts = Counted(p),
                                     !.got = run[p].got \/ arrives]
                 ELSE [run[p] EXCEPT !.step = AfterSending(answer), !.ok = (answer = "ok"),
                                     !.got = run[p].got \/ arrives]]
    /\ UNCHANGED <<status, recipient, sentAt, noted, consent, clock, lapses, together>>

Send(p) ==
    /\ At(p, "send")
    /\ \/ Answered(p, "ok", TRUE)
       \/ \E answer \in {"refused", "later", "timeout"} : Answered(p, answer, FALSE)
       \/ RoomForLapse /\ Answered(p, "timeout", TRUE)

\* The time to wait, as the messenger asked, is over.
Wake(p) ==
    /\ At(p, "wait")
    /\ GoTo(p, "send")
    /\ UNCHANGED <<status, recipient, sentAt, noted, consent, clock, delivered, lapses,
                   together>>

Note(p) ==
    /\ At(p, "note")
    /\ noted' = [noted EXCEPT ![run[p].campaign] = @ \cup {Current(p)}]
    /\ GoTo(p, "save")
    /\ UNCHANGED <<status, recipient, sentAt, consent, clock, delivered, lapses,
                   together>>

NotStamped(p, old) == old                                        \* mutant

SentTime(p, old) == IF run[p].ok THEN clock ELSE old

Save(p) ==
    /\ At(p, "save")
    /\ LET c == run[p].campaign
           d == Current(p)
       IN  /\ recipient' = [recipient EXCEPT ![c][d] = IF run[p].ok THEN "sent" ELSE "failed"]
           /\ sentAt' = [sentAt EXCEPT ![c][d] = SentTime(p, @)]
           /\ run' = [run EXCEPT ![p] = NextOf(c, @.todo \ {d})]
    /\ IF run[p].ok THEN UNCHANGED lapses ELSE Lapse(p)
    /\ UNCHANGED <<status, noted, consent, clock, delivered, together>>

Finish(p) ==
    /\ At(p, "next") /\ run[p].todo = {}
    /\ status' = [status EXCEPT ![run[p].campaign] = "sent"]
    /\ run' = [run EXCEPT ![p] = NoRun]
    /\ UNCHANGED <<recipient, sentAt, noted, consent, clock, delivered, lapses,
                   together>>

\* The process is killed: a deployment, or the web worker's time limit.
Kill(p) ==
    /\ run[p] # NoRun
    /\ run[p].got => RoomForLapse
    /\ Lapse(p)
    /\ run' = [run EXCEPT ![p] = NoRun]
    /\ UNCHANGED <<status, recipient, sentAt, noted, consent, clock, delivered, together>>

-----------------------------------------------------------------------------
Subscribe(d) ==
    /\ d \notin consent
    /\ consent' = consent \cup {d}
    /\ UNCHANGED <<status, recipient, sentAt, noted, clock, run, delivered, lapses,
                   together>>

Unsubscribe(d) ==
    /\ d \in consent
    /\ consent' = consent \ {d}
    /\ UNCHANGED <<status, recipient, sentAt, noted, clock, run, delivered, lapses,
                   together>>

Tick ==
    /\ clock < MaxClock
    /\ clock' = clock + 1
    /\ UNCHANGED <<status, recipient, sentAt, noted, consent, run, delivered, lapses,
                   together>>

Init ==
    /\ status    = [c \in Campaigns |-> "draft"]
    /\ recipient = [c \in Campaigns |-> [d \in Clients |-> "none"]]
    /\ sentAt    = [c \in Campaigns |-> [d \in Clients |-> Never]]
    /\ noted     = [c \in Campaigns |-> {}]
    /\ consent   = Clients
    /\ clock     = 0
    /\ run       = [p \in Runners |-> NoRun]
    /\ delivered = [c \in Campaigns |-> [d \in Clients |-> 0]]
    /\ lapses    = [c \in Campaigns |-> [d \in Clients |-> 0]]
    /\ together  = FALSE

Step(p) == Pick(p) \/ Send(p) \/ Wake(p) \/ Note(p) \/ Save(p) \/ Finish(p)

Next ==
    \/ \E p \in Runners :
          \/ Step(p)
          \/ Kill(p)
          \/ \E c \in Campaigns : Start(p, c)
    \/ \E d \in Clients : Subscribe(d) \/ Unsubscribe(d)
    \/ Tick

Spec == Init /\ [][Next]_vars

\* A run that is going on goes on; nobody has to start one.
FairSpec == Spec /\ \A p \in Runners : WF_vars(Step(p))

-----------------------------------------------------------------------------
(* What the code must keep. *)

\* However often a campaign is run again, a client gets it once, and once more
\* for each run that was killed, or lost the messenger's answer, between a
\* delivery and its record.  Holds while the runs of a campaign do not overlap.
DuplicatesAccounted ==
    ~Overlapping =>
    \A c \in Campaigns, d \in Clients : delivered[c][d] <= 1 + lapses[c][d]

\* The cap counts over all campaigns, but an audience is decided before its
\* messages are sent: it is exact while runs do not overlap, and otherwise a
\* client's week has at most as many messages more as there are other runners.
WeeklyCap ==
    \A d \in Clients :
       Cardinality(SentThisWeek(d)) <=
          MaxPerWeek + (IF together THEN Cardinality(Runners) - 1 ELSE 0)

\* A message that is recorded as sent is in the client's history, and what is
\* there was delivered, wherever a run was killed.
HistoryTellsTruth ==
    \A c \in Campaigns, d \in Clients :
       /\ recipient[c][d] = "sent" => d \in noted[c]
       /\ d \in noted[c] => delivered[c][d] > 0

\* A client gets a campaign once, or it is known why not, and the records say so.
SendsHold == TypeOK /\ DuplicatesAccounted /\ HistoryTellsTruth

\* "One bad chat never stalls a campaign" (send_campaign.py): a run that is
\* not killed comes to its end, whatever the messenger answers.
RunsEnd == \A p \in Runners : run[p] # NoRun ~> run[p] = NoRun
=============================================================================
