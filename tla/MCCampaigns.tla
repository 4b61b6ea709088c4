------------------------------ MODULE MCCampaigns ------------------------------
(***************************************************************************)
(* Small instances of the messages that go out to many clients: campaigns, *)
(* and the alerts about what is in stock again.  They do not touch one     *)
(* another's rows, so a behaviour shows one of them (`focus`).             *)
(***************************************************************************)
EXTENDS Campaigns, StockAlerts

VARIABLE focus

OutgoingInit == Init /\ AInit /\ focus \in {"campaigns", "alerts"}

OutgoingNext ==
    /\ focus' = focus
    /\ \/ focus = "campaigns" /\ Next /\ UNCHANGED avars
       \/ focus = "alerts" /\ ANext /\ UNCHANGED vars

OutgoingSpec ==
    /\ OutgoingInit /\ [][OutgoingNext]_<<vars, avars, focus>>
    /\ (\A p \in Runners : WF_vars(Step(p))) /\ AFairness

-----------------------------------------------------------------------------
(* Each property, where its module is what a behaviour shows *)

\* What was sent is on record, twice only where two runs or a crash explain it.
CampaignsSent == focus = "campaigns" => SendsHold

\* No client gets more campaigns in a week than the limit.
CampaignsCapped == focus = "campaigns" => WeeklyCap

\* No alert is told more often than the intakes and the killed workers explain,
\* and none is marked as told that was not.
AlertsSent == focus = "alerts" => AlertsAccounted
=============================================================================
