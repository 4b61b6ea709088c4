---------------------------- MODULE OrderRequests ----------------------------
(***************************************************************************)
(* Requests («заявки») that clients send through the bots: created under a *)
(* limit per client, confirmed into a production order or declined by      *)
(* staff, and announced to the client once that is saved.                  *)
(*                                                                         *)
(* A creation counts and inserts in two statements of one transaction that *)
(* locks nothing.  The answers of staff lock the request and look at its   *)
(* status again.  Messages are sent after the commit, by the same process, *)
(* which may be killed before it has sent them (KillStaff).                *)
(***************************************************************************)
EXTENDS Naturals, FiniteSets

CONSTANTS
    Buyers,     \* ids of the clients
    Requests,   \* ids of the requests, all that will be made
    Creators,   \* processes that create requests: webhook workers, the bot
    Staff,      \* workers that serve the inbox in the panel
    MaxOpen     \* MAX_OPEN_REQUESTS_PER_CLIENT

ASSUME RequestsAssumption ==
    /\ MaxOpen \in Nat
    /\ Creators # {} /\ IsFiniteSet(Creators)

VARIABLES
    request,    \* the rows: client, status, whether there are items
    orders,     \* history: production orders made from each request
    told,       \* history: outcomes the client was told of each request
    creating,   \* what each creator is doing
    answering   \* what each staff worker is doing

rvars == <<request, orders, told, creating, answering>>

NoRequest == [status |-> "none"]
Idle      == [step |-> "idle"]
Statuses  == {"new", "confirmed", "declined"}

RTypeOK ==
    /\ request \in [Requests -> {NoRequest} \cup
                      [status : Statuses, client : Buyers, items : BOOLEAN]]
    /\ orders  \in [Requests -> Nat]
    /\ told    \in [Requests -> Nat]
    /\ creating \in [Creators -> {Idle} \cup
                      [step : {"counted"}, client : Buyers, items : BOOLEAN]]
    /\ answering \in [Staff -> {Idle} \cup
                      [step : {"loaded", "tell"}, request : Requests]]

Exists(r) == request[r] # NoRequest

OpenOf(c) == {r \in Requests : Exists(r) /\ request[r].status = "new"
                               /\ request[r].client = c}

OneMore(c) == Cardinality(OpenOf(c)) <= MaxOpen                     \* mutant

\* create_order_request goes on only below the limit.
BelowLimit(c) == Cardinality(OpenOf(c)) < MaxOpen

-----------------------------------------------------------------------------
(* create_order_request *)

\* A request of the menus names an item; one that was typed into WhatsApp has none.
Count(p, c, items) ==
    /\ creating[p] = Idle
    /\ BelowLimit(c)
    /\ creating' = [creating EXCEPT ![p] =
                      [step |-> "counted", client |-> c, items |-> items]]
    /\ UNCHANGED <<request, orders, told, answering>>

Insert(p) ==
    /\ creating[p].step = "counted"
    /\ \E r \in Requests :
          /\ ~Exists(r)
          /\ request' = [request EXCEPT ![r] =
                           [status |-> "new", client |-> creating[p].client,
                            items |-> creating[p].items]]
    /\ creating' = [creating EXCEPT ![p] = Idle]
    /\ UNCHANGED <<orders, told, answering>>

-----------------------------------------------------------------------------
(* The answers of staff *)

\* The view: get_object_or_404, without a lock.
Open(s, r) ==
    /\ answering[s] = Idle
    /\ Exists(r)
    /\ answering' = [answering EXCEPT ![s] = [step |-> "loaded", request |-> r]]
    /\ UNCHANGED <<request, orders, told, creating>>

Loaded(s) == answering[s].step = "loaded"

AnyStatus(r) == Exists(r)                                           \* mutant

\* The check under the lock.
Unhandled(r) == request[r].status = "new"

\* confirm_order_request: a request without items is refused; the order has the
\* items at their current price, and both are saved in one transaction.
Confirm(s) ==
    /\ Loaded(s)
    /\ LET r == answering[s].request
       IN  /\ Unhandled(r) /\ request[r].items
           /\ request' = [request EXCEPT ![r].status = "confirmed"]
           /\ orders' = [orders EXCEPT ![r] = @ + 1]
    /\ answering' = [answering EXCEPT ![s].step = "tell"]
    /\ UNCHANGED <<told, creating>>

Decline(s) ==
    /\ Loaded(s)
    /\ LET r == answering[s].request
       IN  Unhandled(r) /\ request' = [request EXCEPT ![r].status = "declined"]
    /\ answering' = [answering EXCEPT ![s].step = "tell"]
    /\ UNCHANGED <<orders, told, creating>>

\* "This request has already been handled", or it has no items.
Reject(s) ==
    /\ Loaded(s)
    /\ LET r == answering[s].request
       IN  ~Unhandled(r) \/ ~request[r].items
    /\ answering' = [answering EXCEPT ![s] = Idle]
    /\ UNCHANGED <<request, orders, told, creating>>

\* transaction.on_commit: send_to_client.
Tell(s) ==
    /\ answering[s].step = "tell"
    /\ told' = [told EXCEPT ![answering[s].request] = @ + 1]
    /\ answering' = [answering EXCEPT ![s] = Idle]
    /\ UNCHANGED <<request, orders, creating>>

\* The worker is killed, at its time limit or on a restart; an open transaction
\* rolls back.
KillStaff(s) ==
    /\ answering[s] # Idle
    /\ answering' = [answering EXCEPT ![s] = Idle]
    /\ UNCHANGED <<request, orders, told, creating>>

-----------------------------------------------------------------------------
RInit ==
    /\ request   = [r \in Requests |-> NoRequest]
    /\ orders    = [r \in Requests |-> 0]
    /\ told      = [r \in Requests |-> 0]
    /\ creating  = [p \in Creators |-> Idle]
    /\ answering = [s \in Staff |-> Idle]

CreateStep == \E p \in Creators :
    \/ \E c \in Buyers, items \in BOOLEAN : Count(p, c, items)
    \/ Insert(p)

StaffStep == \E s \in Staff :
    \/ \E r \in Requests : Open(s, r)
    \/ Confirm(s) \/ Decline(s) \/ Reject(s) \/ Tell(s) \/ KillStaff(s)

RNext == CreateStep \/ StaffStep

RSpec == RInit /\ [][RNext]_rvars

-----------------------------------------------------------------------------
(* Properties *)

\* A client has at most five open requests, and one more for every other process
\* that was between counting and inserting: the limit counts rows that it does
\* not lock.
OpenWithinLimit ==
    \A c \in Buyers : Cardinality(OpenOf(c)) <= MaxOpen + Cardinality(Creators) - 1

\* Two answers to one request, from two tabs or a double tap, make one order at
\* most, and the client never hears of two outcomes or of one that was not saved.
OneOutcome ==
    \A r \in Requests :
        /\ orders[r] = IF request[r].status = "confirmed" THEN 1 ELSE 0
        /\ told[r] <= 1
        /\ told[r] = 1 => request[r].status \in {"confirmed", "declined"}

\* A request has one outcome, and a client not many requests.
RequestsHold == OneOutcome /\ OpenWithinLimit
=============================================================================
