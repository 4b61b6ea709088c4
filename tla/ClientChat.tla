------------------------------ MODULE ClientChat ------------------------------
(***************************************************************************)
(* The WhatsApp conversation of one client: webhook calls that are         *)
(* delivered at least once and served by several workers, the automatic    *)
(* replies, the hand-off to a person, STOP, and typed orders, which become *)
(* requests (OrderRequests).                                               *)
(*                                                                         *)
(* A webhook call works in autocommit mode: every step below is a          *)
(* transaction of its own, and the decisions are made on the client row    *)
(* that the call has loaded.  A call that is not answered with 200 is      *)
(* delivered again.  Calls that are turned away before they are read, for  *)
(* size, rate, signature or a cache that is down, change nothing.          *)
(*                                                                         *)
(* Time goes by in ticks of the burst window.  A tick does not fall        *)
(* between the record of a message and the count of the burst: two         *)
(* statements in a row against a window of two minutes.                    *)
(***************************************************************************)
EXTENDS OrderRequests, FiniteSetsExt

CONSTANTS
    Messages,   \* ids of the messages the client writes
    Managers,   \* people who may answer in the panel
    Window,     \* ticks that a message counts for a burst (two minutes)
    Quiet,      \* ticks that a hand-off lasts (six hours)
    Threshold   \* messages that make a burst

ASSUME ChatAssumption ==
    /\ {Window, Quiet} \subseteq Nat /\ Quiet > Window
    /\ Threshold \in Nat \ {0} /\ Cardinality(Buyers) = 1

VARIABLES
    mail,       \* messages: kind, and whether the messenger has its 200
    agreed,     \* Client.marketing_consent and Client.whatsapp_opted_in
    handoff,    \* ticks until Client.human_handoff_until
    recent,     \* logged interactions by age, the young ones
    botRows,    \* messages with a BotMessage row
    call,       \* what each webhook worker is doing (they are the Creators)
    writing,    \* managers that have sent their text
    replied,    \* history: logged messages that got an automatic reply, by age
    wished,     \* history: requests made from each message
    quieted,    \* history: messages that were left to a person
    heeded      \* history: messages that unsubscribed the client

chat  == <<mail, agreed, handoff, recent, botRows, call, writing>>
hist  == <<replied, wished, quieted, heeded>>
cvars == <<chat, hist, rvars>>

Ages   == 0..Window
Kinds  == {"stop", "manager", "wish", "other"}
NoCall == [step |-> "idle"]
ChatSteps  == {"log", "note", "burst", "choose", "optout", "insert", "handover", "reply", "ack"}

\* `seen`: what the loaded row says about the hand-off; `age`: of the interaction.
Call == [step : ChatSteps, msg : Messages, seen : 0..Quiet, age : 0..Window + 1]

CTypeOK ==
    /\ mail \in [Messages -> [kind : Kinds, state : {"unwritten", "sent", "acked"}]]
    /\ agreed \in [marketing : BOOLEAN, whatsapp : BOOLEAN]
    /\ handoff \in 0..Quiet
    /\ recent \in [Ages -> 0..Threshold] /\ replied \in [Ages -> 0..Threshold]
    /\ botRows \subseteq Messages
    /\ call \in [Creators -> {NoCall} \cup Call]
    /\ writing \subseteq Managers
    /\ wished \in [Messages -> Nat]
    /\ quieted \subseteq Messages /\ heeded \subseteq Messages

Client       == CHOOSE c \in Buyers : TRUE
Kind(h)      == mail[call[h].msg].kind
AtStep(h, step)  == call[h].step = step
To(h, step)  == call' = [call EXCEPT ![h].step = step]
Total(f)     == MapThenSumSet(LAMBDA a : f[a], Ages)

\* Counted up to the threshold, which is all that they are compared with.
AddNow(f, a) == IF a \in Ages /\ f[a] < Threshold THEN [f EXCEPT ![a] = @ + 1] ELSE f

\* recent_message_burst
BurstLater  == Total(recent) > Threshold                            \* mutant
BurstIsOver == Total(recent) >= Threshold

-----------------------------------------------------------------------------
(* One call of the webhook *)

Deliver(h, m) ==
    /\ call[h] = NoCall
    /\ mail[m].state = "sent"
    /\ call' = [call EXCEPT ![h] = [step |-> "log", msg |-> m, seen |-> 0, age |-> 0]]
    /\ UNCHANGED <<mail, agreed, handoff, recent, botRows, writing, hist, rvars>>

WithoutNote == "burst"                                              \* mutant

AfterLog == "note"

\* log_whatsapp_interaction: the client by phone, and an Interaction.
Log(h) ==
    /\ AtStep(h, "log")
    /\ recent' = AddNow(recent, 0)
    /\ call' = [call EXCEPT ![h].step = AfterLog, ![h].seen = handoff]
    /\ UNCHANGED <<mail, agreed, handoff, botRows, writing, hist, rvars>>

NoteMessage(h) ==
    /\ AtStep(h, "note")
    /\ botRows' = botRows \cup {call[h].msg}
    /\ To(h, "burst")
    /\ UNCHANGED <<mail, agreed, handoff, recent, writing, hist, rvars>>

\* start_handoff writes the row and the loaded object.
Burst(h) ==
    /\ AtStep(h, "burst")
    /\ IF BurstIsOver
       THEN /\ handoff' = Quiet
            /\ call' = [call EXCEPT ![h].step = "choose", ![h].seen = Quiet]
       ELSE /\ To(h, "choose")
            /\ UNCHANGED handoff
    /\ UNCHANGED <<mail, agreed, recent, botRows, writing, hist, rvars>>

Choose(h) == AtStep(h, "choose") /\ call[h].seen = 0

StaySilent(h) ==
    /\ AtStep(h, "choose") /\ call[h].seen > 0
    /\ quieted' = quieted \cup {call[h].msg}
    /\ To(h, "ack")
    /\ UNCHANGED <<mail, agreed, handoff, recent, botRows, writing, replied, wished, heeded,
                   rvars>>

\* build_client_reply, branch by branch.
ReplyPlain(h) ==
    /\ Choose(h) /\ Kind(h) = "other"
    /\ To(h, "reply")
    /\ UNCHANGED <<mail, agreed, handoff, recent, botRows, writing, hist, rvars>>

ReplyManager(h) ==
    /\ Choose(h) /\ Kind(h) = "manager"
    /\ handoff' = Quiet
    /\ To(h, "reply")
    /\ UNCHANGED <<mail, agreed, recent, botRows, writing, hist, rvars>>

Stop(h) ==
    /\ Choose(h) /\ Kind(h) = "stop"
    /\ agreed' = [agreed EXCEPT !.marketing = FALSE]
    /\ To(h, "optout")
    /\ UNCHANGED <<mail, handoff, recent, botRows, writing, hist, rvars>>

OptOut(h) ==
    /\ AtStep(h, "optout")
    /\ agreed' = [agreed EXCEPT !.whatsapp = FALSE]
    /\ heeded' = heeded \cup {call[h].msg}
    /\ To(h, "reply")
    /\ UNCHANGED <<mail, handoff, recent, botRows, writing, replied, wished, quieted, rvars>>

Wish(h) ==
    /\ Choose(h) /\ Kind(h) = "wish"
    /\ Count(h, Client, FALSE)
    /\ To(h, "insert")
    /\ UNCHANGED <<mail, agreed, handoff, recent, botRows, writing, hist>>

\* Over the limit: nobody catches the ValidationError, and the call ends with 500.
WithError(h) == call' = [call EXCEPT ![h] = NoCall]

Acknowledged(h) == To(h, "ack")                                     \* mutant

TurnedAway(h) == WithError(h)

WishTooMany(h) ==
    /\ Choose(h) /\ Kind(h) = "wish"
    /\ ~BelowLimit(Client)
    /\ TurnedAway(h)
    /\ UNCHANGED <<mail, agreed, handoff, recent, botRows, writing, hist, rvars>>

WishInsert(h) ==
    /\ AtStep(h, "insert")
    /\ Insert(h)
    /\ wished' = [wished EXCEPT ![call[h].msg] = @ + 1]
    /\ To(h, "handover")
    /\ UNCHANGED <<mail, agreed, handoff, recent, botRows, writing, replied, quieted, heeded>>

WishHandOver(h) ==
    /\ AtStep(h, "handover")
    /\ handoff' = Quiet
    /\ To(h, "reply")
    /\ UNCHANGED <<mail, agreed, recent, botRows, writing, hist, rvars>>

\* send_whatsapp_text, best effort, and its BotMessage.
Reply(h) ==
    /\ AtStep(h, "reply")
    /\ replied' = AddNow(replied, call[h].age)
    /\ To(h, "ack")
    /\ UNCHANGED <<mail, agreed, handoff, recent, botRows, writing, wished, quieted, heeded,
                   rvars>>

Ack(h) ==
    /\ AtStep(h, "ack")
    /\ mail' = [mail EXCEPT ![call[h].msg].state = "acked"]
    /\ call' = [call EXCEPT ![h] = NoCall]
    /\ UNCHANGED <<agreed, handoff, recent, botRows, writing, hist, rvars>>

\* A worker killed at its time limit: the transaction of an insert rolls back.
KillCall(h) ==
    /\ call[h] # NoCall
    /\ call' = [call EXCEPT ![h] = NoCall]
    /\ creating' = [creating EXCEPT ![h] = Idle]
    /\ UNCHANGED <<mail, agreed, handoff, recent, botRows, writing, hist,
                   request, orders, told, answering>>

-----------------------------------------------------------------------------
(* The others *)

ClientWrites(m, k) ==
    /\ mail[m].state = "unwritten"
    /\ mail' = [mail EXCEPT ![m] = [kind |-> k, state |-> "sent"]]
    /\ UNCHANGED <<agreed, handoff, recent, botRows, call, writing, hist, rvars>>

\* inbox.reply: the text is sent first, the hand-off starts after it.
ManagerSends(g) ==
    /\ g \notin writing
    /\ writing' = writing \cup {g}
    /\ UNCHANGED <<mail, agreed, handoff, recent, botRows, call, hist, rvars>>

ManagerTakesOver(g) ==
    /\ g \in writing
    /\ writing' = writing \ {g}
    /\ handoff' = Quiet
    /\ UNCHANGED <<mail, agreed, recent, botRows, call, hist, rvars>>

Older(f) == [a \in Ages |-> IF a = 0 THEN 0 ELSE f[a - 1]]

Unbounded(n) == n - 1                                               \* mutant

\* What is left until human_handoff_until; the past counts like none.
Less(n) == IF n = 0 THEN 0 ELSE n - 1

ChatTick ==
    /\ \A h \in Creators : call[h].step \notin {"note", "burst"}
    /\ handoff + Total(recent) > 0
    /\ handoff' = Less(handoff)
    /\ recent' = Older(recent) /\ replied' = Older(replied)
    /\ call' = [h \in Creators |->
                  IF call[h] = NoCall THEN NoCall
                  ELSE [call[h] EXCEPT !.seen = Less(@),
                          !.age = IF @ <= Window /\ ~AtStep(h, "log") THEN @ + 1 ELSE @]]
    /\ UNCHANGED <<mail, agreed, botRows, writing, wished, quieted, heeded, rvars>>

-----------------------------------------------------------------------------
CInit ==
    /\ RInit
    /\ mail    = [m \in Messages |-> [kind |-> "other", state |-> "unwritten"]]
    /\ agreed = [marketing |-> TRUE, whatsapp |-> TRUE]
    /\ handoff = 0
    /\ recent  = [a \in Ages |-> 0] /\ replied = [a \in Ages |-> 0]
    /\ botRows   = {} /\ writing = {} /\ quieted = {} /\ heeded = {}
    /\ call    = [h \in Creators |-> NoCall]
    /\ wished  = [m \in Messages |-> 0]

CallStep(h) ==
    \/ \E m \in Messages : Deliver(h, m)
    \/ Log(h) \/ NoteMessage(h) \/ Burst(h)
    \/ StaySilent(h) \/ ReplyPlain(h) \/ ReplyManager(h) \/ Stop(h) \/ OptOut(h)
    \/ Wish(h) \/ WishTooMany(h) \/ WishInsert(h) \/ WishHandOver(h)
    \/ Reply(h) \/ Ack(h) \/ KillCall(h)

CNext ==
    \/ \E h \in Creators : CallStep(h)
    \/ \E m \in Messages, k \in Kinds : ClientWrites(m, k)
    \/ \E g \in Managers : ManagerSends(g) \/ ManagerTakesOver(g)
    \/ ChatTick

CSpec == CInit /\ [][CNext]_cvars

-----------------------------------------------------------------------------
(* Properties *)

\* The messenger is told 200 only for a message that is in the inbox: what is
\* not recorded is delivered again.
AckedIsInInbox ==
    \A m \in Messages : mail[m].state = "acked" => m \in botRows

\* A client who writes three messages within the window gets automatic replies
\* to two of them at most, although the calls are served at the same time.
BurstGoesQuiet == Total(replied) < Threshold

\* A typed order that the messenger was told 200 for has become a request, or a
\* person had the conversation: it is not lost, not even over the limit.
WishIsKept ==
    \A m \in Messages :
        mail[m].kind = "wish" /\ mail[m].state = "acked" => wished[m] > 0 \/ m \in quieted

\* What was acknowledged is kept, and nobody is flooded with replies.
InboxKeeps == CTypeOK /\ AckedIsInInbox /\ WishIsKept /\ BurstGoesQuiet
=============================================================================
