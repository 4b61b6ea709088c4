------------------------------- MODULE ClientBot -------------------------------
(***************************************************************************)
(* The dialogs of the client bot on Telegram, for one chat: the menu, the  *)
(* order request in two questions (how many, any note), and a message to   *)
(* the shop.                                                               *)
(*                                                                         *)
(* The bot starts a task per update and does not wait for it.  Within a    *)
(* task the code runs without interruption up to the next call of the      *)
(* database; there the other tasks go on.  The state of the dialog is in   *)
(* memory, and the handlers are tried in the order of their registration:  *)
(* the catalog's button comes before the questions, the other buttons of   *)
(* the menu after them, so that those count as answers.                    *)
(***************************************************************************)
EXTENDS Naturals, FiniteSets

CONSTANTS
    Variants,     \* variants that have a button
    Tasks,        \* updates that can be handled at once
    MaxQuantity,  \* bound: pieces
    MaxWants      \* bound: presses of «Хочу заказать»

ASSUME BotAssumption == {MaxQuantity, MaxWants} \subseteq Nat \ {0} /\ IsFiniteSet(Tasks)

VARIABLES
    dialog,   \* state and data of the conversation
    task,     \* what each task is doing
    known,    \* whether the chat belongs to a client (telegram_chat_id)
    asked,    \* history: questions «Сколько штук» that were asked
    made,     \* history: requests made, with the variant the quantity was given for
    count,    \* history: how many of them
    kept      \* history: messages to the shop that were kept

bvars == <<dialog, task, known, asked, made, count, kept>>

Quantities == 1..MaxQuantity
NoDialog   == [state |-> "none"]
Done       == [step |-> "done"]

\* `of`: the variant that the last question was about when the quantity came.
Dialog ==
    [state : {"quantity"}, variant : Variants]
    \cup [state : {"note"}, variant : Variants, quantity : Quantities, of : Variants]
    \cup [state : {"write"}]

Task ==
    [step : {"want"}, variant : Variants]
    \cup [step : {"create"}, variant : Variants, quantity : Quantities, of : Variants]
    \cup [step : {"keep"}]

BTypeOK ==
    /\ dialog \in {NoDialog} \cup Dialog
    /\ task   \in [Tasks -> {Done} \cup Task]
    /\ known  \in BOOLEAN
    /\ asked  \in 0..MaxWants
    /\ made   \subseteq [variant : Variants, quantity : Quantities, of : Variants]
    /\ count  \in Nat
    /\ kept   \in 0..MaxWants

In(state)  == dialog.state = state
Free(t)    == task[t] = Done
Pending    == Cardinality({t \in Tasks : task[t].step = "want"})

-----------------------------------------------------------------------------
(* The order request *)

\* on_contact, when the number belongs to a client.
ShareContact ==
    /\ ~known /\ known' = TRUE
    /\ UNCHANGED <<dialog, task, asked, made, count, kept>>

\* cb_want looks the variant and the client up before it sets the state.
PressWant(t, v) ==
    /\ Free(t) /\ asked + Pending < MaxWants
    /\ task' = [task EXCEPT ![t] = [step |-> "want", variant |-> v]]
    /\ UNCHANGED <<dialog, known, asked, made, count, kept>>

KeepState(v) ==
    IF In("note") THEN [dialog EXCEPT !.variant = v]
    ELSE [state |-> "quantity", variant |-> v]                      \* mutant

Question(v) == [state |-> "quantity", variant |-> v]

AskQuantity(t) ==
    /\ task[t].step = "want"
    /\ IF known
       THEN dialog' = Question(task[t].variant) /\ asked' = asked + 1
       ELSE UNCHANGED <<dialog, asked>>
    /\ task' = [task EXCEPT ![t] = Done]
    /\ UNCHANGED <<known, made, count, kept>>

\* order_flow_quantity does not touch the database; what is not a number, a
\* button of the menu for one, changes nothing.
AnswerQuantity(n) ==
    /\ In("quantity")
    /\ dialog' = [state |-> "note", variant |-> dialog.variant, quantity |-> n,
                  of |-> dialog.variant]
    /\ UNCHANGED <<task, known, asked, made, count, kept>>

StayInDialog == dialog                                              \* mutant

AfterNote == NoDialog

\* order_flow_note: the data is taken and the state cleared before any query.
\* The text may be the label of a button of the menu.
AnswerNote(t) ==
    /\ Free(t) /\ In("note")
    /\ task' = [task EXCEPT ![t] = [step |-> "create", variant |-> dialog.variant,
                                    quantity |-> dialog.quantity, of |-> dialog.of]]
    /\ dialog' = AfterNote
    /\ UNCHANGED <<known, asked, made, count, kept>>

\* create_order_request, or its refusal over the limit or for a variant that is
\* no longer active.
CreateRequest(t) ==
    /\ task[t].step = "create"
    /\ \/ /\ made' = made \cup {[variant |-> task[t].variant, quantity |-> task[t].quantity,
                                 of |-> task[t].of]}
          /\ count' = count + 1
       \/ UNCHANGED <<made, count>>
    /\ task' = [task EXCEPT ![t] = Done]
    /\ UNCHANGED <<dialog, known, asked, kept>>

-----------------------------------------------------------------------------
(* The menu *)

\* «Каталог» is always heard; the other buttons only outside of a dialog, where
\* there is nothing to clear.
PressCatalog ==
    /\ dialog' = NoDialog
    /\ UNCHANGED <<task, known, asked, made, count, kept>>

\* «Написать нам»
PressWrite ==
    /\ In("none")
    /\ dialog' = [state |-> "write"]
    /\ UNCHANGED <<task, known, asked, made, count, kept>>

WriteMessage(t) ==
    /\ Free(t) /\ In("write")
    /\ dialog' = NoDialog
    /\ task' = [task EXCEPT ![t] = [step |-> "keep"]]
    /\ UNCHANGED <<known, asked, made, count, kept>>

\* Only the messages of known clients are logged and passed on.
KeepMessage(t) ==
    /\ task[t].step = "keep" /\ kept < MaxWants
    /\ kept' = IF known THEN kept + 1 ELSE kept
    /\ task' = [task EXCEPT ![t] = Done]
    /\ UNCHANGED <<dialog, known, asked, made, count>>

\* The bot is restarted: the dialogs and the tasks are gone.
Restart ==
    /\ dialog' = NoDialog
    /\ task' = [t \in Tasks |-> Done]
    /\ UNCHANGED <<known, asked, made, count, kept>>

-----------------------------------------------------------------------------
BInit ==
    /\ dialog = NoDialog
    /\ task = [t \in Tasks |-> Done]
    /\ known \in BOOLEAN
    /\ asked = 0 /\ count = 0 /\ kept = 0
    /\ made = {}

BNext ==
    \/ ShareContact \/ PressCatalog \/ PressWrite \/ Restart
    \/ \E n \in Quantities : AnswerQuantity(n)
    \/ \E t \in Tasks :
          \/ \E v \in Variants : PressWant(t, v)
          \/ AskQuantity(t) \/ AnswerNote(t) \/ CreateRequest(t)
          \/ WriteMessage(t) \/ KeepMessage(t)

BSpec == BInit /\ [][BNext]_bvars

-----------------------------------------------------------------------------
(* Properties *)

\* A request has the quantity that was given for its own variant, also when the
\* client presses another product's button in the middle of the questions.
QuantityFitsVariant == \A r \in made : r.of = r.variant

\* There are never more requests than questions: a note that is sent twice, or
\* while the first one is being filed, makes one request.
OneRequestPerQuestion == count <= asked

\* The requests that the bot files are the ones its questions were about.
BotAnswers == QuantityFitsVariant /\ OneRequestPerQuestion
=============================================================================
