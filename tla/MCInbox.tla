-------------------------------- MODULE MCInbox --------------------------------
(***************************************************************************)
(* Small instances of what clients reach: the WhatsApp conversation with   *)
(* the requests it makes, the answers of staff, and the dialogs of the     *)
(* Telegram bot.  They meet only in the rows of requests, so a behaviour   *)
(* shows one of them (`part`), and the instance is the sum of the three.   *)
(***************************************************************************)
EXTENDS ClientChat, ClientBot, TLC

VARIABLE part

\* Of the sets that the large one of the three, the conversation, is about.
Symmetry == Permutations(Messages) \cup Permutations(Creators) \cup Permutations(Requests)

InboxInit ==
    /\ CInit /\ BInit
    /\ part \in {"chat", "requests", "bot"}
    /\ part # "bot" => ~known

InboxNext ==
    /\ part' = part
    /\ \/ part = "chat" /\ CNext /\ UNCHANGED bvars
       \/ part = "requests" /\ RNext /\ UNCHANGED <<chat, hist, bvars>>
       \/ part = "bot" /\ BNext /\ UNCHANGED cvars

InboxSpec == InboxInit /\ [][InboxNext]_<<cvars, bvars, part>>
=============================================================================
