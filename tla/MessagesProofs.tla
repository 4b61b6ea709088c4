----------------------------- MODULE MessagesProofs -----------------------------
(***************************************************************************)
(* Proofs about what clients send and are sent.  First what reaches the    *)
(* inbox: OrderRequests, for every set of clients, requests and workers    *)
(* and any limit; ClientChat, for every set of messages and managers and   *)
(* any length of the windows; ClientBot.  Then what goes out to many:      *)
(* StockAlerts, for every set of clients and of processes that serve them  *)
(* and any finite set of workers, and Campaigns, for any finite sets of    *)
(* campaigns and of runners, any clients, limits and retries.              *)
(***************************************************************************)
EXTENDS MCInbox, MCCampaigns, SumsProofs

Creating(step) == [step : {step}, client : Buyers, items : BOOLEAN]

-----------------------------------------------------------------------------
(* Types *)

LEMMA RTypeInit == RInit => RTypeOK
    BY DEF RInit, RTypeOK

LEMMA RTypeCreate ==
    ASSUME RTypeOK, CreateStep
    PROVE  RTypeOK'
<1>1. ASSUME NEW p \in Creators, NEW c \in Buyers, NEW items \in BOOLEAN, Count(p, c, items)
      PROVE  RTypeOK'
    BY <1>1 DEF Count, RTypeOK
<1>2. ASSUME NEW p \in Creators, Insert(p) PROVE RTypeOK'
    <2>1. creating[p] \in Creating("counted")
        BY <1>2 DEF Insert, RTypeOK, Idle, Creating
    <2>2. PICK r \in Requests :
              request' = [request EXCEPT ![r] = [status |-> "new", client |-> creating[p].client,
                                                 items |-> creating[p].items]]
        BY <1>2 DEF Insert
    <2>3. [status |-> "new", client |-> creating[p].client, items |-> creating[p].items]
              \in [status : Statuses, client : Buyers, items : BOOLEAN]
        BY <2>1 DEF Creating, Statuses
    <2> QED BY <1>2, <2>2, <2>3 DEF Insert, RTypeOK
<1> QED BY <1>1, <1>2 DEF CreateStep

\* What a staff worker holds while it has a request open, and what the row is.
LEMMA LoadedRequest ==
    ASSUME RTypeOK, NEW s \in Staff, answering[s].step \in {"loaded", "tell"}
    PROVE  answering[s] \in [step : {"loaded", "tell"}, request : Requests]
    BY DEF RTypeOK, Idle

LEMMA NewRequest ==
    ASSUME RTypeOK, NEW r \in Requests, request[r].status \in Statuses
    PROVE  request[r] \in [status : Statuses, client : Buyers, items : BOOLEAN]
    BY DEF RTypeOK, NoRequest, Statuses

LEMMA RTypeStaff ==
    ASSUME RTypeOK, StaffStep
    PROVE  RTypeOK'
<1>1. ASSUME NEW s \in Staff, NEW r \in Requests, Open(s, r) PROVE RTypeOK'
    BY <1>1 DEF Open, RTypeOK
<1>2. ASSUME NEW s \in Staff, Confirm(s) PROVE RTypeOK'
    <2> DEFINE r == answering[s].request
    <2>1. answering[s] \in [step : {"loaded", "tell"}, request : Requests]
        BY <1>2, LoadedRequest DEF Confirm, Loaded
    <2>2. request[r] \in [status : Statuses, client : Buyers, items : BOOLEAN]
        BY <1>2, <2>1, NewRequest DEF Confirm, Unhandled, Statuses
    <2>3. [request[r] EXCEPT !.status = "confirmed"]
              \in [status : Statuses, client : Buyers, items : BOOLEAN]
        BY <2>2 DEF Statuses
    <2>4. [answering[s] EXCEPT !.step = "tell"] \in [step : {"loaded", "tell"}, request : Requests]
        BY <2>1
    <2> QED BY <1>2, <2>1, <2>3, <2>4 DEF Confirm, RTypeOK
<1>3. ASSUME NEW s \in Staff, Decline(s) PROVE RTypeOK'
    <2> DEFINE r == answering[s].request
    <2>1. answering[s] \in [step : {"loaded", "tell"}, request : Requests]
        BY <1>3, LoadedRequest DEF Decline, Loaded
    <2>2. request[r] \in [status : Statuses, client : Buyers, items : BOOLEAN]
        BY <1>3, <2>1, NewRequest DEF Decline, Unhandled, Statuses
    <2>3. [request[r] EXCEPT !.status = "declined"]
              \in [status : Statuses, client : Buyers, items : BOOLEAN]
        BY <2>2 DEF Statuses
    <2>4. [answering[s] EXCEPT !.step = "tell"] \in [step : {"loaded", "tell"}, request : Requests]
        BY <2>1
    <2> QED BY <1>3, <2>1, <2>3, <2>4 DEF Decline, RTypeOK
<1>4. ASSUME NEW s \in Staff, Tell(s) PROVE RTypeOK'
    <2>1. answering[s].request \in Requests
        BY <1>4, LoadedRequest DEF Tell
    <2> QED BY <1>4, <2>1 DEF Tell, RTypeOK
<1>5. ASSUME NEW s \in Staff, Reject(s) \/ KillStaff(s) PROVE RTypeOK'
    BY <1>5 DEF Reject, KillStaff, RTypeOK
<1> QED BY <1>1, <1>2, <1>3, <1>4, <1>5 DEF StaffStep

-----------------------------------------------------------------------------
(* One outcome *)

\* Who is about to tell of a request does so of one that is handled, that nobody
\* has told of, and that nobody else is about to tell of.
TellsOnce ==
    \A s \in Staff :
        answering[s].step = "tell" =>
            /\ request[answering[s].request].status \in {"confirmed", "declined"}
            /\ told[answering[s].request] = 0
            /\ \A t \in Staff \ {s} :
                  answering[t].step = "tell" => answering[t].request # answering[s].request

OutcomeInv == RTypeOK /\ OneOutcome /\ TellsOnce

LEMMA OutcomeInit == RInit => OutcomeInv
    BY RTypeInit DEF RInit, OutcomeInv, OneOutcome, TellsOnce, NoRequest, Idle

\* Both answers of staff, which differ in the new status and the order.
LEMMA OutcomeAnswer ==
    ASSUME OutcomeInv, NEW s \in Staff, NEW r \in Requests,
           Loaded(s), r = answering[s].request, Unhandled(r),
           NEW outcome \in {"confirmed", "declined"},
           request' = [request EXCEPT ![r].status = outcome],
           orders' = IF outcome = "confirmed" THEN [orders EXCEPT ![r] = @ + 1] ELSE orders,
           told' = told,
           answering' = [answering EXCEPT ![s].step = "tell"]
    PROVE  OneOutcome' /\ TellsOnce'
<1> RTypeOK /\ OneOutcome /\ TellsOnce
    BY DEF OutcomeInv
<1>1. request[r] \in [status : Statuses, client : Buyers, items : BOOLEAN]
    BY NewRequest DEF Unhandled, Statuses
<1>2. /\ request'[r].status = outcome
      /\ \A q \in Requests : q # r => request'[q] = request[q]
    BY <1>1 DEF RTypeOK
<1>3. /\ orders[r] = 0 /\ told[r] = 0
    <2>1. request[r].status = "new"
        BY DEF Unhandled
    <2>2. orders[r] = 0 /\ told[r] <= 1 /\ told[r] # 1
        BY <2>1 DEF OneOutcome
    <2>3. told[r] \in Nat
        BY DEF RTypeOK
    <2> QED BY <2>2, <2>3
<1>4. /\ orders'[r] = IF outcome = "confirmed" THEN 1 ELSE 0
      /\ \A q \in Requests : q # r => orders'[q] = orders[q]
    BY <1>3 DEF RTypeOK
<1>5. OneOutcome'
    BY <1>2, <1>3, <1>4 DEF OneOutcome, RTypeOK
<1>6. answering[s] \in [step : {"loaded", "tell"}, request : Requests]
    BY LoadedRequest DEF Loaded
<1>7. /\ answering'[s].step = "tell" /\ answering'[s].request = r
      /\ \A t \in Staff : t # s => answering'[t] = answering[t]
    BY <1>6 DEF RTypeOK
<1>8. \A t \in Staff : answering[t].step = "tell" =>
          answering[t].request \in Requests /\ answering[t].request # r
    BY LoadedRequest DEF TellsOnce, Unhandled
<1>9. ASSUME NEW t \in Staff, answering'[t].step = "tell"
      PROVE  /\ request'[answering'[t].request].status \in {"confirmed", "declined"}
             /\ told'[answering'[t].request] = 0
             /\ \A u \in Staff \ {t} :
                   answering'[u].step = "tell" => answering'[u].request # answering'[t].request
    <2>1. CASE t = s
        BY <1>2, <1>3, <1>7, <1>8, <2>1
    <2>2. CASE t # s
        BY <1>2, <1>7, <1>8, <1>9, <2>2 DEF TellsOnce
    <2> QED BY <2>1, <2>2
<1> QED BY <1>5, <1>9 DEF TellsOnce

LEMMA OutcomeStaff ==
    ASSUME OutcomeInv, StaffStep
    PROVE  OutcomeInv'
<1> RTypeOK /\ OneOutcome /\ TellsOnce
    BY DEF OutcomeInv
<1> SUFFICES OneOutcome' /\ TellsOnce'
    BY RTypeStaff DEF OutcomeInv
<1>1. ASSUME NEW s \in Staff, NEW r \in Requests, Open(s, r) PROVE OneOutcome' /\ TellsOnce'
    <2>1. UNCHANGED <<request, orders, told>> /\ answering'[s].step = "loaded"
        BY <1>1 DEF Open, RTypeOK
    <2>2. \A t \in Staff : t # s => answering'[t] = answering[t]
        BY <1>1 DEF Open, RTypeOK
    <2> QED BY <2>1, <2>2 DEF OneOutcome, TellsOnce
<1>2. ASSUME NEW s \in Staff, Confirm(s) PROVE OneOutcome' /\ TellsOnce'
    <2>1. answering[s].request \in Requests
        BY <1>2, LoadedRequest DEF Confirm, Loaded
    <2> QED BY <1>2, <2>1, OutcomeAnswer DEF Confirm
<1>3. ASSUME NEW s \in Staff, Decline(s) PROVE OneOutcome' /\ TellsOnce'
    <2>1. answering[s].request \in Requests
        BY <1>3, LoadedRequest DEF Decline, Loaded
    <2> QED BY <1>3, <2>1, OutcomeAnswer DEF Decline
<1>4. ASSUME NEW s \in Staff, Tell(s) PROVE OneOutcome' /\ TellsOnce'
    <2> DEFINE r == answering[s].request
    <2>1. r \in Requests
        BY <1>4, LoadedRequest DEF Tell
    <2>2. /\ request[r].status \in {"confirmed", "declined"} /\ told[r] = 0
          /\ \A t \in Staff : t # s /\ answering[t].step = "tell" => answering[t].request # r
        BY <1>4 DEF Tell, TellsOnce
    <2>3. /\ UNCHANGED <<request, orders>> /\ told'[r] = 1
          /\ \A q \in Requests : q # r => told'[q] = told[q]
        BY <1>4, <2>1, <2>2 DEF Tell, RTypeOK
    <2>4. /\ answering'[s].step = "idle"
          /\ \A t \in Staff : t # s => answering'[t] = answering[t]
        BY <1>4 DEF Tell, RTypeOK, Idle
    <2>5. OneOutcome'
        BY <2>2, <2>3 DEF OneOutcome
    <2>6. \A t \in Staff : answering[t].step = "tell" => answering[t].request \in Requests
        BY LoadedRequest
    <2>7. TellsOnce'
        BY <2>2, <2>3, <2>4, <2>6 DEF TellsOnce
    <2> QED BY <2>5, <2>7
<1>5. ASSUME NEW s \in Staff, Reject(s) \/ KillStaff(s) PROVE OneOutcome' /\ TellsOnce'
    <2>1. UNCHANGED <<request, orders, told>> /\ answering'[s].step = "idle"
        BY <1>5 DEF Reject, KillStaff, RTypeOK, Idle
    <2>2. \A t \in Staff : t # s => answering'[t] = answering[t]
        BY <1>5 DEF Reject, KillStaff, RTypeOK
    <2> QED BY <2>1, <2>2 DEF OneOutcome, TellsOnce
<1> QED BY <1>1, <1>2, <1>3, <1>4, <1>5 DEF StaffStep

LEMMA OutcomeCreate ==
    ASSUME OutcomeInv, CreateStep
    PROVE  OutcomeInv'
<1> RTypeOK /\ OneOutcome /\ TellsOnce
    BY DEF OutcomeInv
<1> SUFFICES OneOutcome' /\ TellsOnce'
    BY RTypeCreate DEF OutcomeInv
<1>1. ASSUME NEW p \in Creators, NEW c \in Buyers, NEW items \in BOOLEAN, Count(p, c, items)
      PROVE  OneOutcome' /\ TellsOnce'
    BY <1>1 DEF Count, OneOutcome, TellsOnce
<1>2. ASSUME NEW p \in Creators, Insert(p) PROVE OneOutcome' /\ TellsOnce'
    <2>1. PICK r \in Requests :
              /\ ~Exists(r)
              /\ request' = [request EXCEPT ![r] = [status |-> "new", client |-> creating[p].client,
                                                    items |-> creating[p].items]]
        BY <1>2 DEF Insert
    <2>2. /\ request[r].status = "none" /\ request'[r].status = "new"
          /\ \A q \in Requests : q # r => request'[q] = request[q]
        BY <2>1 DEF Exists, NoRequest, RTypeOK
    <2>3. UNCHANGED <<orders, told, answering>>
        BY <1>2 DEF Insert
    <2>4. OneOutcome'
        BY <2>2, <2>3 DEF OneOutcome
    <2>5. \A s \in Staff : answering[s].step = "tell" =>
              answering[s].request \in Requests /\ answering[s].request # r
        BY <2>2, LoadedRequest DEF TellsOnce
    <2>6. TellsOnce'
        BY <2>2, <2>3, <2>5 DEF TellsOnce
    <2> QED BY <2>4, <2>6
<1> QED BY <1>1, <1>2 DEF CreateStep

-----------------------------------------------------------------------------
(* The limit *)

\* Who has counted for a client and not inserted yet.
AboutToInsert(c) == {p \in Creators : creating[p].step = "counted" /\ creating[p].client = c}

\* Open requests, and those that are about to be: whoever counts adds itself to a
\* number below the limit, and inserting only moves one from here to there.
LimitInv ==
    \A c \in Buyers :
        /\ IsFiniteSet(OpenOf(c))
        /\ Cardinality(OpenOf(c)) + Cardinality(AboutToInsert(c))
             <= MaxOpen + Cardinality(Creators) - 1

LEMMA OneLess ==
    ASSUME NEW S, IsFiniteSet(S), NEW x \in S, NEW T, T = S \ {x}
    PROVE  Cardinality(T) = Cardinality(S) - 1
    BY FS_RemoveElement

LEMMA CreatorsCounted ==
    /\ IsFiniteSet(Creators) /\ Cardinality(Creators) \in Nat \ {0}
    /\ \A c \in Buyers : /\ IsFiniteSet(AboutToInsert(c))
                          /\ Cardinality(AboutToInsert(c)) \in Nat
                          /\ Cardinality(AboutToInsert(c)) <= Cardinality(Creators)
<1>1. IsFiniteSet(Creators) /\ Cardinality(Creators) \in Nat \ {0}
    BY RequestsAssumption, FS_CardinalityType, FS_EmptySet
<1>2. ASSUME NEW c \in Buyers
      PROVE  /\ IsFiniteSet(AboutToInsert(c))
             /\ Cardinality(AboutToInsert(c)) \in Nat
             /\ Cardinality(AboutToInsert(c)) <= Cardinality(Creators)
    <2>1. AboutToInsert(c) \in SUBSET Creators
        BY DEF AboutToInsert
    <2> QED BY <1>1, <2>1, FS_Subset, FS_CardinalityType
<1> QED BY <1>1, <1>2

LEMMA LimitInit == RInit => LimitInv
<1> SUFFICES ASSUME RInit, NEW c \in Buyers
             PROVE  /\ IsFiniteSet(OpenOf(c))
                    /\ Cardinality(OpenOf(c)) + Cardinality(AboutToInsert(c))
                         <= MaxOpen + Cardinality(Creators) - 1
    BY DEF LimitInv
<1>1. OpenOf(c) = {}
    BY DEF RInit, OpenOf, Exists
<1>2. AboutToInsert(c) = {}
    BY DEF RInit, AboutToInsert, Idle
<1>3. MaxOpen \in Nat
    BY RequestsAssumption
<1> QED BY <1>1, <1>2, <1>3, FS_EmptySet, CreatorsCounted

LEMMA LimitCount ==
    ASSUME RTypeOK, LimitInv, NEW p \in Creators, NEW d \in Buyers, NEW items \in BOOLEAN,
           Count(p, d, items)
    PROVE  LimitInv'
<1> SUFFICES ASSUME NEW c \in Buyers
             PROVE  /\ IsFiniteSet(OpenOf(c)')
                    /\ Cardinality(OpenOf(c)') + Cardinality(AboutToInsert(c)')
                         <= MaxOpen + Cardinality(Creators) - 1
    BY DEF LimitInv
<1>1. OpenOf(c)' = OpenOf(c)
    BY DEF Count, OpenOf, Exists
<1>2. IsFiniteSet(OpenOf(c)) /\ Cardinality(OpenOf(c)) \in Nat
    BY FS_CardinalityType DEF LimitInv
<1>3. /\ creating[p].step = "idle"
      /\ creating'[p].step = "counted" /\ creating'[p].client = d
      /\ \A q \in Creators : q # p => creating'[q] = creating[q]
    BY DEF Count, RTypeOK, Idle
<1>4. CASE c = d
    <2>1. Cardinality(OpenOf(c)) < MaxOpen
        BY <1>4 DEF Count, BelowLimit
    <2>2. AboutToInsert(c)' \in SUBSET Creators
        BY DEF AboutToInsert
    <2>3. /\ Cardinality(AboutToInsert(c)') \in Nat
          /\ Cardinality(AboutToInsert(c)') <= Cardinality(Creators)
        BY <2>2, CreatorsCounted, FS_Subset, FS_CardinalityType
    <2>4. MaxOpen \in Nat
        BY RequestsAssumption
    <2> QED BY <1>1, <1>2, <2>1, <2>3, <2>4, CreatorsCounted
<1>5. CASE c # d
    <2>1. AboutToInsert(c)' = AboutToInsert(c)
        BY <1>3, <1>5 DEF AboutToInsert
    <2> QED BY <1>1, <2>1 DEF LimitInv
<1> QED BY <1>4, <1>5

LEMMA LimitInsert ==
    ASSUME RTypeOK, LimitInv, NEW p \in Creators, Insert(p)
    PROVE  LimitInv'
<1> SUFFICES ASSUME NEW c \in Buyers
             PROVE  /\ IsFiniteSet(OpenOf(c)')
                    /\ Cardinality(OpenOf(c)') + Cardinality(AboutToInsert(c)')
                         <= MaxOpen + Cardinality(Creators) - 1
    BY DEF LimitInv
<1>1. PICK r \in Requests :
          /\ ~Exists(r)
          /\ request' = [request EXCEPT ![r] = [status |-> "new", client |-> creating[p].client,
                                                items |-> creating[p].items]]
    BY DEF Insert
<1>2. /\ ~Exists(r)
      /\ request'[r] = [status |-> "new", client |-> creating[p].client,
                        items |-> creating[p].items]
      /\ \A q \in Requests : q # r => request'[q] = request[q]
    BY <1>1 DEF RTypeOK
<1>3. /\ creating[p].step = "counted" /\ creating'[p].step = "idle"
      /\ \A q \in Creators : q # p => creating'[q] = creating[q]
    BY DEF Insert, RTypeOK, Idle
<1>4. /\ IsFiniteSet(OpenOf(c)) /\ Cardinality(OpenOf(c)) \in Nat
      /\ Cardinality(OpenOf(c)) + Cardinality(AboutToInsert(c))
           <= MaxOpen + Cardinality(Creators) - 1
    BY FS_CardinalityType DEF LimitInv
<1>5. CASE c = creating[p].client
    <2>1. OpenOf(c)' = OpenOf(c) \cup {r} /\ r \notin OpenOf(c)
        BY <1>2, <1>5 DEF OpenOf, Exists, NoRequest
    <2>2. /\ IsFiniteSet(OpenOf(c)')
          /\ Cardinality(OpenOf(c)') = Cardinality(OpenOf(c)) + 1
        BY <1>4, <2>1, FS_AddElement
    <2>3. AboutToInsert(c)' = AboutToInsert(c) \ {p} /\ p \in AboutToInsert(c)
        BY <1>3, <1>5 DEF AboutToInsert
    <2>4. Cardinality(AboutToInsert(c)') = Cardinality(AboutToInsert(c)) - 1
        <3>1. IsFiniteSet(AboutToInsert(c))
            BY CreatorsCounted
        <3> QED BY <2>3, <3>1, OneLess
    <2>5. MaxOpen \in Nat
        BY RequestsAssumption
    <2> QED BY <1>4, <2>2, <2>4, <2>5, CreatorsCounted
<1>6. CASE c # creating[p].client
    <2>1. OpenOf(c)' = OpenOf(c)
        BY <1>2, <1>6 DEF OpenOf, Exists, NoRequest
    <2>2. AboutToInsert(c)' = AboutToInsert(c)
        BY <1>3, <1>6 DEF AboutToInsert
    <2> QED BY <1>4, <2>1, <2>2
<1> QED BY <1>5, <1>6

\* A step that opens no request and lets nobody count keeps the limit.
LEMMA LimitShrinks ==
    ASSUME LimitInv,
           \A c \in Buyers : /\ OpenOf(c)' \in SUBSET OpenOf(c)
                              /\ AboutToInsert(c)' \in SUBSET AboutToInsert(c)
    PROVE  LimitInv'
<1> SUFFICES ASSUME NEW c \in Buyers
             PROVE  /\ IsFiniteSet(OpenOf(c)')
                    /\ Cardinality(OpenOf(c)') + Cardinality(AboutToInsert(c)')
                         <= MaxOpen + Cardinality(Creators) - 1
    BY DEF LimitInv
<1>1. IsFiniteSet(OpenOf(c)) /\ Cardinality(OpenOf(c)) \in Nat
    BY FS_CardinalityType DEF LimitInv
<1>2. /\ IsFiniteSet(OpenOf(c)') /\ Cardinality(OpenOf(c)') \in Nat
      /\ Cardinality(OpenOf(c)') <= Cardinality(OpenOf(c))
    BY <1>1, FS_Subset, FS_CardinalityType
<1>3. /\ Cardinality(AboutToInsert(c)') \in Nat
      /\ Cardinality(AboutToInsert(c)') <= Cardinality(AboutToInsert(c))
    BY CreatorsCounted, FS_Subset, FS_CardinalityType
<1>4. /\ Cardinality(OpenOf(c)) + Cardinality(AboutToInsert(c))
           <= MaxOpen + Cardinality(Creators) - 1
      /\ MaxOpen \in Nat
    BY RequestsAssumption DEF LimitInv
<1> QED BY <1>1, <1>2, <1>3, <1>4, CreatorsCounted

LEMMA LimitStaff ==
    ASSUME RTypeOK, LimitInv, StaffStep
    PROVE  LimitInv'
<1> SUFFICES \A c \in Buyers : /\ OpenOf(c)' \in SUBSET OpenOf(c)
                                /\ AboutToInsert(c)' \in SUBSET AboutToInsert(c)
    BY LimitShrinks
<1>1. UNCHANGED creating
    BY DEF StaffStep, Open, Confirm, Decline, Reject, Tell, KillStaff
<1>2. \A r \in Requests : request'[r] = request[r] \/ request'[r].status \in {"confirmed", "declined"}
    <2>1. ASSUME NEW s \in Staff, Confirm(s) \/ Decline(s), NEW r \in Requests
          PROVE  request'[r] = request[r] \/ request'[r].status \in {"confirmed", "declined"}
        <3>1. answering[s].request \in Requests
            BY <2>1, LoadedRequest DEF Confirm, Decline, Loaded
        <3>2. CASE r = answering[s].request
            <4>1. request[r] \in [status : Statuses, client : Buyers, items : BOOLEAN]
                BY <2>1, <3>1, <3>2, NewRequest DEF Confirm, Decline, Unhandled, Statuses
            <4> QED BY <2>1, <3>2, <4>1 DEF Confirm, Decline, RTypeOK
        <3>3. CASE r # answering[s].request
            BY <2>1, <3>3 DEF Confirm, Decline, RTypeOK
        <3> QED BY <3>2, <3>3
    <2>2. ASSUME NEW s \in Staff, (\E r \in Requests : Open(s, r)) \/ Reject(s) \/ Tell(s) \/ KillStaff(s)
          PROVE  request' = request
        BY <2>2 DEF Open, Reject, Tell, KillStaff
    <2> QED BY <2>1, <2>2 DEF StaffStep
<1> QED BY <1>1, <1>2 DEF OpenOf, Exists, AboutToInsert

-----------------------------------------------------------------------------
(* Together *)

RequestsInv == OutcomeInv /\ LimitInv

LEMMA RequestsStep ==
    RequestsInv /\ [RNext]_rvars => RequestsInv'
<1> SUFFICES ASSUME RequestsInv, [RNext]_rvars
             PROVE  OutcomeInv' /\ LimitInv'
    BY DEF RequestsInv
<1> OutcomeInv /\ LimitInv /\ RTypeOK
    BY DEF RequestsInv, OutcomeInv
<1>1. CASE CreateStep
    BY <1>1, OutcomeCreate, LimitCount, LimitInsert DEF CreateStep
<1>2. CASE StaffStep
    BY <1>2, OutcomeStaff, LimitStaff
<1>3. CASE UNCHANGED rvars
    BY <1>3 DEF rvars, OutcomeInv, RTypeOK, OneOutcome, TellsOnce, LimitInv, OpenOf, Exists,
                AboutToInsert
<1> QED BY <1>1, <1>2, <1>3 DEF RNext

LEMMA RequestsImply == RequestsInv => RequestsHold
<1> SUFFICES ASSUME RequestsInv, NEW c \in Buyers
             PROVE  Cardinality(OpenOf(c)) <= MaxOpen + Cardinality(Creators) - 1
    BY DEF RequestsInv, OutcomeInv, RequestsHold, OpenWithinLimit
<1>1. /\ IsFiniteSet(OpenOf(c))
      /\ Cardinality(OpenOf(c)) + Cardinality(AboutToInsert(c))
           <= MaxOpen + Cardinality(Creators) - 1
    BY DEF RequestsInv, LimitInv
<1>2. Cardinality(OpenOf(c)) \in Nat /\ MaxOpen \in Nat
    BY <1>1, FS_CardinalityType, RequestsAssumption
<1> QED BY <1>1, <1>2, CreatorsCounted

\* Requests of clients: whatever creations and answers of staff overlap, and
\* whoever is killed, a request makes one order at most and its client hears of
\* one outcome, the saved one; and the limit that create_order_request counts
\* without a lock is missed by no more than the other processes that create.
THEOREM RequestsAreKept == RSpec => []RequestsHold
<1>1. RInit => RequestsInv
    BY OutcomeInit, LimitInit DEF RequestsInv
<1> QED BY <1>1, RequestsStep, RequestsImply, PTL DEF RSpec

-----------------------------------------------------------------------------
(* The conversation and the requests it makes *)

LEMMA ClientExists == Client \in Buyers
<1>1. Buyers # {}
    BY ChatAssumption, FS_EmptySet
<1> QED BY <1>1 DEF Client

\* A webhook call takes only the steps of a creator, or is killed.
LEMMA ChatMakesRequests ==
    ASSUME [CNext]_cvars
    PROVE  \/ CreateStep
           \/ \E h \in Creators : /\ creating' = [creating EXCEPT ![h] = Idle]
                                  /\ UNCHANGED <<request, orders, told, answering>>
           \/ UNCHANGED rvars
<1>1. ASSUME NEW h \in Creators, Wish(h) PROVE CreateStep
    BY <1>1, ClientExists DEF Wish, CreateStep
<1>2. ASSUME NEW h \in Creators, WishInsert(h) PROVE CreateStep
    BY <1>2 DEF WishInsert, CreateStep
<1>3. ASSUME NEW h \in Creators, CallStep(h)
      PROVE  \/ Wish(h) \/ WishInsert(h)
             \/ /\ creating' = [creating EXCEPT ![h] = Idle]
                /\ UNCHANGED <<request, orders, told, answering>>
             \/ UNCHANGED rvars
    <2>1. ASSUME \/ \E m \in Messages : Deliver(h, m)
                 \/ Log(h) \/ NoteMessage(h) \/ Burst(h) \/ StaySilent(h) \/ ReplyPlain(h)
                 \/ ReplyManager(h) \/ Stop(h) \/ OptOut(h) \/ WishTooMany(h)
                 \/ WishHandOver(h) \/ Reply(h) \/ Ack(h)
          PROVE  UNCHANGED rvars
        BY <2>1 DEF Deliver, Log, NoteMessage, Burst, StaySilent, ReplyPlain, ReplyManager, Stop, OptOut,
                    WishTooMany, WishHandOver, Reply, Ack
    <2>2. ASSUME KillCall(h)
          PROVE  /\ creating' = [creating EXCEPT ![h] = Idle]
                 /\ UNCHANGED <<request, orders, told, answering>>
        BY <2>2 DEF KillCall
    <2> QED BY <1>3, <2>1, <2>2 DEF CallStep
<1>4. ASSUME \/ \E m \in Messages, k \in Kinds : ClientWrites(m, k)
             \/ \E g \in Managers : ManagerSends(g) \/ ManagerTakesOver(g)
             \/ ChatTick
      PROVE  UNCHANGED rvars
    BY <1>4 DEF ClientWrites, ManagerSends, ManagerTakesOver, ChatTick
<1>5. CASE UNCHANGED cvars
    BY <1>5 DEF cvars
<1> QED BY <1>1, <1>2, <1>3, <1>4, <1>5 DEF CNext

LEMMA KillKeepsRequests ==
    ASSUME RequestsInv, NEW h \in Creators,
           creating' = [creating EXCEPT ![h] = Idle],
           UNCHANGED <<request, orders, told, answering>>
    PROVE  RequestsInv'
<1> OutcomeInv /\ LimitInv /\ RTypeOK
    BY DEF RequestsInv, OutcomeInv
<1>1. OutcomeInv'
    BY DEF OutcomeInv, RTypeOK, OneOutcome, TellsOnce
<1>2. \A c \in Buyers : OpenOf(c)' = OpenOf(c)
    BY DEF OpenOf, Exists
<1>3. \A c \in Buyers : AboutToInsert(c)' \in SUBSET AboutToInsert(c)
    BY DEF AboutToInsert, RTypeOK, Idle
<1>4. LimitInv'
    BY <1>2, <1>3, LimitShrinks
<1> QED BY <1>1, <1>4 DEF RequestsInv

LEMMA ChatStepKeepsRequests ==
    ASSUME RequestsInv, [CNext]_cvars
    PROVE  RequestsInv'
<1>1. CASE CreateStep
    BY <1>1, RequestsStep DEF RNext
<1>2. CASE UNCHANGED rvars
    BY <1>2, RequestsStep
<1> QED BY <1>1, <1>2, ChatMakesRequests, KillKeepsRequests

\* The conversation keeps what OrderRequests keeps: messages that are typed twice,
\* delivered again or served at once make requests within the same limit.
THEOREM ChatKeepsRequests == CSpec => []RequestsHold
<1>1. CInit => RequestsInv
    BY OutcomeInit, LimitInit DEF CInit, RequestsInv
<1> QED BY <1>1, ChatStepKeepsRequests, RequestsImply, PTL DEF CSpec

-----------------------------------------------------------------------------
(* What is acknowledged *)

\* What the steps below need of the types.
MailTypes ==
    /\ mail \in [Messages -> [kind : Kinds, state : {"unwritten", "sent", "acked"}]]
    /\ call \in [Creators -> {NoCall} \cup
                   [step : ChatSteps, msg : Messages, seen : Nat, age : Nat]]
    /\ wished \in [Messages -> Nat]
    /\ handoff \in Nat

\* A call is about a message that was written, which is in the inbox from `burst`
\* on, and whose wish is a request or with a person once the answer is on its way.
CallsAreAbout ==
    \A h \in Creators :
        call[h] # NoCall =>
            LET m == call[h].msg
            IN  /\ mail[m].state # "unwritten"
                /\ call[h].step \notin {"log", "note"} => m \in botRows
                /\ call[h].step = "optout" => mail[m].kind = "stop"
                /\ call[h].step \in {"handover", "reply", "ack"} /\ mail[m].kind = "wish"
                      => wished[m] > 0 \/ m \in quieted

MailInv == MailTypes /\ CallsAreAbout /\ AckedIsInInbox /\ WishIsKept

LEMMA MailInit == CInit => MailInv
    BY DEF CInit, MailInv, MailTypes, CallsAreAbout, AckedIsInInbox, WishIsKept, Kinds

\* Most steps of a call only move on, and what is on record only grows.
LEMMA MailMovesOn ==
    ASSUME MailInv, NEW h \in Creators, call[h] # NoCall,
           NEW step \in ChatSteps, NEW seen \in Nat, NEW age \in Nat,
           call' = [call EXCEPT ![h] = [step |-> step, msg |-> call[h].msg,
                                        seen |-> seen, age |-> age]],
           UNCHANGED mail, botRows \subseteq botRows', quieted \subseteq quieted',
           wished' \in [Messages -> Nat], \A m \in Messages : wished'[m] >= wished[m],
           handoff' \in Nat,
           step \notin {"log", "note"} => call[h].msg \in botRows',
           step = "optout" => Kind(h) = "stop",
           step \in {"handover", "reply", "ack"} /\ Kind(h) = "wish" =>
               wished'[call[h].msg] > 0 \/ call[h].msg \in quieted'
    PROVE  MailInv'
<1> MailTypes /\ CallsAreAbout /\ AckedIsInInbox /\ WishIsKept
    BY DEF MailInv
<1>1. call[h] \in [step : ChatSteps, msg : Messages, seen : Nat, age : Nat]
    BY DEF MailTypes
<1>2. MailTypes'
    BY <1>1 DEF MailTypes
<1>3. /\ call'[h] = [step |-> step, msg |-> call[h].msg, seen |-> seen, age |-> age]
      /\ \A g \in Creators : g # h => call'[g] = call[g]
    BY DEF MailTypes
<1>4. \A m \in Messages : wished[m] \in Nat /\ wished'[m] \in Nat
    BY DEF MailTypes
<1>5. CallsAreAbout'
    <2> SUFFICES ASSUME NEW g \in Creators, call'[g] # NoCall
                 PROVE  LET m == call'[g].msg
                        IN  /\ mail[m].state # "unwritten"
                            /\ call'[g].step \notin {"log", "note"} => m \in botRows'
                            /\ call'[g].step = "optout" => mail[m].kind = "stop"
                            /\ call'[g].step \in {"handover", "reply", "ack"} /\ mail[m].kind = "wish"
                                  => wished'[m] > 0 \/ m \in quieted'
        BY DEF CallsAreAbout
    <2>1. CASE g = h
        BY <1>3, <2>1 DEF CallsAreAbout, Kind
    <2>2. CASE g # h
        <3>1. call[g] # NoCall /\ call'[g] = call[g]
            BY <1>3, <2>2
        <3>2. call[g].msg \in Messages
            BY <3>1 DEF MailTypes
        <3> QED BY <1>4, <3>1, <3>2 DEF CallsAreAbout
    <2> QED BY <2>1, <2>2
<1>6. AckedIsInInbox' /\ WishIsKept'
    BY <1>4 DEF AckedIsInInbox, WishIsKept
<1> QED BY <1>2, <1>5, <1>6 DEF MailInv

LEMMA MailCall ==
    ASSUME MailInv, NEW h \in Creators, CallStep(h)
    PROVE  MailInv'
<1> MailTypes /\ CallsAreAbout /\ AckedIsInInbox /\ WishIsKept
    BY DEF MailInv
<1>a. Quiet \in Nat
    BY ChatAssumption
<1>b. ASSUME call[h] # NoCall
      PROVE  /\ call[h] \in [step : ChatSteps, msg : Messages, seen : Nat, age : Nat]
             /\ mail[call[h].msg].state # "unwritten"
    BY <1>b DEF MailTypes, CallsAreAbout
<1>c. \A step \in ChatSteps : AtStep(h, step) => call[h] # NoCall
    BY DEF AtStep, NoCall, ChatSteps
<1>d. ASSUME NEW step, call[h] # NoCall
      PROVE  [call EXCEPT ![h].step = step] =
             [call EXCEPT ![h] = [step |-> step, msg |-> call[h].msg, seen |-> call[h].seen,
                                  age |-> call[h].age]]
    <2>1. [call[h] EXCEPT !.step = step] =
              [step |-> step, msg |-> call[h].msg, seen |-> call[h].seen, age |-> call[h].age]
        BY <1>b, <1>d
    <2> QED BY <2>1
<1>e. \A m \in Messages : wished[m] \in Nat /\ wished[m] >= wished[m]
    BY DEF MailTypes
<1>1. ASSUME NEW m \in Messages, Deliver(h, m) PROVE MailInv'
    <2>1. /\ call'[h] = [step |-> "log", msg |-> m, seen |-> 0, age |-> 0]
          /\ \A g \in Creators : g # h => call'[g] = call[g]
          /\ UNCHANGED <<mail, botRows, quieted, wished, handoff>>
          /\ mail[m].state = "sent"
        BY <1>1 DEF Deliver, MailTypes, hist
    <2>2. MailTypes'
        BY <1>1, <2>1 DEF Deliver, MailTypes, ChatSteps
    <2>3. CallsAreAbout'
        BY <2>1 DEF CallsAreAbout
    <2>4. AckedIsInInbox' /\ WishIsKept'
        BY <2>1 DEF AckedIsInInbox, WishIsKept
    <2> QED BY <2>2, <2>3, <2>4 DEF MailInv
<1>2. ASSUME Log(h) PROVE MailInv'
    <2>1. call[h] # NoCall
        BY <1>2, <1>c DEF Log, ChatSteps
    <2>2. call' = [call EXCEPT ![h] = [step |-> "note", msg |-> call[h].msg, seen |-> handoff,
                                       age |-> call[h].age]]
        <3>1. call' = [call EXCEPT ![h].step = "note", ![h].seen = handoff]
            BY <1>2 DEF Log, AfterLog
        <3> DEFINE noting == [call EXCEPT ![h].step = "note"]
        <3>2. noting = [call EXCEPT ![h] = [step |-> "note", msg |-> call[h].msg,
                                            seen |-> call[h].seen, age |-> call[h].age]]
            BY <1>d, <2>1
        <3>3. call' = [noting EXCEPT ![h].seen = handoff]
            BY <3>1
        <3> HIDE DEF noting
        <3>4. noting[h] = [step |-> "note", msg |-> call[h].msg,
                           seen |-> call[h].seen, age |-> call[h].age]
            BY <3>2 DEF MailTypes
        <3>5. [noting[h] EXCEPT !.seen = handoff] =
                  [step |-> "note", msg |-> call[h].msg, seen |-> handoff, age |-> call[h].age]
            BY <3>4
        <3> QED BY <3>2, <3>3, <3>5 DEF MailTypes
    <2>3. UNCHANGED <<mail, botRows, quieted, wished, handoff>>
        BY <1>2 DEF Log, hist
    <2>4. handoff \in Nat /\ wished \in [Messages -> Nat] /\ "note" \in ChatSteps
        BY DEF MailTypes, ChatSteps
    <2> QED BY <1>b, <1>e, <2>1, <2>2, <2>3, <2>4, MailMovesOn
<1>3. ASSUME NoteMessage(h) PROVE MailInv'
    <2>1. call[h] # NoCall
        BY <1>3, <1>c DEF NoteMessage, ChatSteps
    <2>2. call' = [call EXCEPT ![h] = [step |-> "burst", msg |-> call[h].msg,
                                       seen |-> call[h].seen, age |-> call[h].age]]
        BY <1>3, <1>d, <2>1 DEF NoteMessage, To
    <2> QED BY <1>3, <1>b, <1>e, <2>1, <2>2, MailMovesOn DEF NoteMessage, hist, MailTypes, ChatSteps
<1>4. ASSUME Burst(h) PROVE MailInv'
    <2>1. call[h] # NoCall /\ call[h].msg \in botRows
        BY <1>4, <1>c DEF Burst, ChatSteps, AtStep, CallsAreAbout
    <2>2. PICK seen \in Nat :
              call' = [call EXCEPT ![h] = [step |-> "choose", msg |-> call[h].msg,
                                           seen |-> seen, age |-> call[h].age]]
        <3>1. CASE BurstIsOver
            <4>1. call' = [call EXCEPT ![h] = [step |-> "choose", msg |-> call[h].msg,
                                               seen |-> Quiet, age |-> call[h].age]]
                BY <1>4, <1>b, <2>1, <3>1 DEF Burst, MailTypes
            <4> QED BY <1>a, <4>1
        <3>2. CASE ~BurstIsOver
            BY <1>4, <1>b, <1>d, <2>1, <3>2 DEF Burst, To
        <3> QED BY <3>1, <3>2
    <2>3. handoff' \in Nat
        BY <1>4, <1>a DEF Burst, MailTypes
    <2> QED BY <1>4, <1>b, <1>e, <2>1, <2>2, <2>3, MailMovesOn DEF Burst, hist, MailTypes, ChatSteps
<1>5. ASSUME NEW step \in ChatSteps \ {"log", "note"}, call[h] # NoCall, To(h, step),
             call[h].step \notin {"log", "note"},
             UNCHANGED <<mail, botRows>>, handoff' \in Nat, quieted \subseteq quieted',
             wished' \in [Messages -> Nat], \A m \in Messages : wished'[m] >= wished[m],
             step = "optout" => Kind(h) = "stop",
             step \in {"handover", "reply", "ack"} /\ Kind(h) = "wish" =>
                 wished'[call[h].msg] > 0 \/ call[h].msg \in quieted'
      PROVE  MailInv'
    <2>1. call' = [call EXCEPT ![h] = [step |-> step, msg |-> call[h].msg,
                                       seen |-> call[h].seen, age |-> call[h].age]]
        BY <1>5, <1>d DEF To
    <2>2. call[h].msg \in botRows
        BY <1>5 DEF CallsAreAbout
    <2> QED BY <1>5, <1>b, <2>1, <2>2, MailMovesOn
<1>6. ASSUME StaySilent(h) PROVE MailInv'
    BY <1>6, <1>5, <1>c, <1>e DEF StaySilent, AtStep, ChatSteps, MailTypes
<1>7. ASSUME ReplyPlain(h) PROVE MailInv'
    BY <1>7, <1>5, <1>c, <1>e DEF ReplyPlain, Choose, AtStep, ChatSteps, hist, MailTypes
<1>8. ASSUME ReplyManager(h) PROVE MailInv'
    BY <1>8, <1>5, <1>a, <1>c, <1>e DEF ReplyManager, Choose, AtStep, ChatSteps, hist, MailTypes
<1>9. ASSUME Stop(h) PROVE MailInv'
    BY <1>9, <1>5, <1>c, <1>e DEF Stop, Choose, AtStep, ChatSteps, hist, MailTypes
<1>10. ASSUME OptOut(h) PROVE MailInv'
    <2>1. call[h] # NoCall /\ Kind(h) = "stop"
        BY <1>10, <1>c DEF OptOut, AtStep, ChatSteps, CallsAreAbout, Kind
    <2> QED BY <1>10, <1>5, <1>e, <2>1 DEF OptOut, AtStep, ChatSteps, MailTypes
<1>11. ASSUME Wish(h) PROVE MailInv'
    BY <1>11, <1>5, <1>c, <1>e DEF Wish, Choose, AtStep, ChatSteps, hist, MailTypes
<1>12. ASSUME NEW drop \in {TRUE}, call' = [call EXCEPT ![h] = NoCall],
              UNCHANGED <<mail, botRows, wished, quieted, handoff>>
       PROVE  MailInv'
    <2>1. call'[h] = NoCall /\ \A g \in Creators : g # h => call'[g] = call[g]
        BY <1>12 DEF MailTypes
    <2>2. MailTypes'
        BY <1>12 DEF MailTypes
    <2> QED BY <1>12, <2>1, <2>2 DEF MailInv, CallsAreAbout, AckedIsInInbox, WishIsKept
<1>13. ASSUME WishTooMany(h) PROVE MailInv'
    BY <1>13, <1>12 DEF WishTooMany, TurnedAway, WithError, hist
<1>14. ASSUME WishInsert(h) PROVE MailInv'
    <2>1. call[h] # NoCall /\ call[h].msg \in Messages
        BY <1>14, <1>b, <1>c DEF WishInsert, ChatSteps
    <2>2. /\ wished' \in [Messages -> Nat]
          /\ wished'[call[h].msg] > 0
          /\ \A m \in Messages : wished'[m] >= wished[m]
        BY <1>14, <2>1 DEF WishInsert, MailTypes
    <2> QED BY <1>14, <1>5, <2>1, <2>2 DEF WishInsert, AtStep, ChatSteps, MailTypes
<1>15. ASSUME WishHandOver(h) PROVE MailInv'
    <2>1. call[h] # NoCall
        BY <1>15, <1>c DEF WishHandOver, ChatSteps
    <2>2. Kind(h) = "wish" => wished[call[h].msg] > 0 \/ call[h].msg \in quieted
        BY <1>15, <2>1 DEF WishHandOver, AtStep, CallsAreAbout, Kind
    <2> QED BY <1>15, <1>5, <1>a, <1>e, <2>1, <2>2 DEF WishHandOver, AtStep, ChatSteps, hist, MailTypes
<1>16. ASSUME Reply(h) PROVE MailInv'
    <2>1. call[h] # NoCall
        BY <1>16, <1>c DEF Reply, ChatSteps
    <2>2. Kind(h) = "wish" => wished[call[h].msg] > 0 \/ call[h].msg \in quieted
        BY <1>16, <2>1 DEF Reply, AtStep, CallsAreAbout, Kind
    <2> QED BY <1>16, <1>5, <1>e, <2>1, <2>2 DEF Reply, AtStep, ChatSteps, MailTypes
<1>17. ASSUME Ack(h) PROVE MailInv'
    <2> DEFINE m == call[h].msg
    <2>1. call[h] # NoCall
        BY <1>17, <1>c DEF Ack, ChatSteps
    <2>2. /\ m \in Messages /\ m \in botRows
          /\ mail[m].kind = "wish" => wished[m] > 0 \/ m \in quieted
        BY <1>17, <1>b, <2>1 DEF Ack, AtStep, CallsAreAbout
    <2>3. /\ mail'[m].state = "acked" /\ mail'[m].kind = mail[m].kind
          /\ \A n \in Messages : n # m => mail'[n] = mail[n]
          /\ UNCHANGED <<botRows, wished, quieted, handoff>>
        BY <1>17, <2>2 DEF Ack, hist, MailTypes
    <2>4. call'[h] = NoCall /\ \A g \in Creators : g # h => call'[g] = call[g]
        BY <1>17 DEF Ack, MailTypes
    <2>5. MailTypes'
        BY <1>17, <2>2 DEF Ack, hist, MailTypes
    <2>6. \A g \in Creators : call[g] # NoCall => call[g].msg \in Messages
        BY DEF MailTypes
    <2>7. CallsAreAbout'
        BY <2>3, <2>4, <2>6 DEF CallsAreAbout
    <2>8. AckedIsInInbox' /\ WishIsKept'
        BY <2>2, <2>3 DEF AckedIsInInbox, WishIsKept
    <2> QED BY <2>5, <2>7, <2>8 DEF MailInv
<1>18. ASSUME KillCall(h) PROVE MailInv'
    BY <1>18, <1>12 DEF KillCall, hist
<1> QED BY <1>1, <1>2, <1>3, <1>4, <1>6, <1>7, <1>8, <1>9, <1>10, <1>11, <1>13, <1>14, <1>15,
           <1>16, <1>17, <1>18 DEF CallStep

\* The client writes, managers answer, and time goes by.
LEMMA MailOthers ==
    ASSUME MailInv,
           \/ \E m \in Messages, k \in Kinds : ClientWrites(m, k)
           \/ \E g \in Managers : ManagerSends(g) \/ ManagerTakesOver(g)
           \/ ChatTick
    PROVE  MailInv'
<1> MailTypes /\ CallsAreAbout /\ AckedIsInInbox /\ WishIsKept
    BY DEF MailInv
<1>1. Quiet \in Nat
    BY ChatAssumption
<1>2. ASSUME NEW m \in Messages, NEW k \in Kinds, ClientWrites(m, k) PROVE MailInv'
    <2>1. /\ mail[m].state = "unwritten" /\ mail'[m] = [kind |-> k, state |-> "sent"]
          /\ \A n \in Messages : n # m => mail'[n] = mail[n]
          /\ UNCHANGED <<botRows, call, wished, quieted, handoff>>
        BY <1>2 DEF ClientWrites, MailTypes, hist
    <2>2. MailTypes'
        BY <1>2, <2>1 DEF ClientWrites, MailTypes
    <2>3. \A h \in Creators : call[h] # NoCall => call[h].msg \in Messages
        BY DEF MailTypes
    <2>4. CallsAreAbout'
        BY <2>1, <2>3 DEF CallsAreAbout
    <2>5. AckedIsInInbox' /\ WishIsKept'
        BY <2>1 DEF AckedIsInInbox, WishIsKept
    <2> QED BY <2>2, <2>4, <2>5 DEF MailInv
<1>3. ASSUME NEW g \in Managers, ManagerSends(g) \/ ManagerTakesOver(g) PROVE MailInv'
    <2>1. UNCHANGED <<mail, botRows, call, wished, quieted>> /\ handoff' \in Nat
        BY <1>1, <1>3 DEF ManagerSends, ManagerTakesOver, hist, MailTypes
    <2> QED BY <2>1 DEF MailInv, MailTypes, CallsAreAbout, AckedIsInInbox, WishIsKept
<1>4. ASSUME ChatTick PROVE MailInv'
    <2>1. \A n \in Nat : Less(n) \in Nat
        BY DEF Less
    <2>2. /\ UNCHANGED <<mail, botRows, wished, quieted>>
          /\ handoff' \in Nat
        BY <1>4, <2>1 DEF ChatTick, MailTypes
    <2>3. ASSUME NEW h \in Creators
          PROVE  \/ call[h] = NoCall /\ call'[h] = NoCall
                 \/ /\ call[h] # NoCall
                    /\ call'[h] \in [step : ChatSteps, msg : Messages, seen : Nat, age : Nat]
                    /\ call'[h].step = call[h].step /\ call'[h].msg = call[h].msg
        <3>1. call'[h] = IF call[h] = NoCall THEN NoCall
                         ELSE [call[h] EXCEPT !.seen = Less(@),
                                 !.age = IF @ <= Window /\ ~AtStep(h, "log") THEN @ + 1 ELSE @]
            BY <1>4 DEF ChatTick
        <3>2. CASE call[h] = NoCall
            BY <3>1, <3>2
        <3>3. CASE call[h] # NoCall
            <4>1. call[h] \in [step : ChatSteps, msg : Messages, seen : Nat, age : Nat]
                BY <3>3 DEF MailTypes
            <4>2. Less(call[h].seen) \in Nat
                BY <2>1, <4>1
            <4>3. (IF call[h].age <= Window /\ ~AtStep(h, "log") THEN call[h].age + 1
                   ELSE call[h].age) \in Nat
                BY <4>1
            <4> QED BY <3>1, <3>3, <4>1, <4>2, <4>3
        <3> QED BY <3>2, <3>3
    <2>4. call' = [h \in Creators |-> call'[h]]
        BY <1>4 DEF ChatTick
    <2>5. MailTypes'
        BY <2>2, <2>3, <2>4 DEF MailTypes
    <2>6. CallsAreAbout'
        BY <2>2, <2>3 DEF CallsAreAbout
    <2>7. AckedIsInInbox' /\ WishIsKept'
        BY <2>2 DEF AckedIsInInbox, WishIsKept
    <2> QED BY <2>5, <2>6, <2>7 DEF MailInv
<1> QED BY <1>2, <1>3, <1>4

LEMMA MailStep == MailInv /\ [CNext]_cvars => MailInv'
<1> SUFFICES ASSUME MailInv, [CNext]_cvars PROVE MailInv'
    OBVIOUS
<1>1. CASE UNCHANGED cvars
    BY <1>1 DEF cvars, chat, hist, MailInv, MailTypes, CallsAreAbout, AckedIsInInbox, WishIsKept
<1> QED BY <1>1, MailCall, MailOthers DEF CNext

\* The messenger is told 200 only for what is in the inbox, and a typed order that
\* it was told 200 for is a request or with a person: also when calls of one
\* message overlap, are killed at any statement and delivered again.
THEOREM AcknowledgedIsKept == CSpec => [](AckedIsInInbox /\ WishIsKept)
<1>1. MailInv => AckedIsInInbox /\ WishIsKept
    BY DEF MailInv
<1> QED BY <1>1, MailInit, MailStep, PTL DEF CSpec

-----------------------------------------------------------------------------
(* Bursts: no more replies than the threshold allows *)

\* Calls that may still reply, as far as their step goes.
Late     == {"optout", "insert", "handover", "reply"}
Answers  == {"choose"} \cup Late
Unsettled == {"note", "burst"} \cup Answers

\* The first ages, up to k.
SumTo(f, k) == SumOf(f, 0..k)

Within(k) == {h \in Creators : call[h].step \in Unsettled /\ call[h].age <= k}

\* Those that found no burst and know of no hand-off that outlasts the window.
MayReply ==
    {h \in Creators : /\ call[h].step \in Answers /\ call[h].age <= Window
                      /\ call[h].seen + call[h].age < Quiet}

\* Who replies, or may yet, has logged its message before; unless there is a burst.
RepliesLogged ==
    \A k \in Ages :
       \/ SumTo(recent, k) >= Threshold
       \/ SumTo(replied, k) + Cardinality(Within(k)) <= SumTo(recent, k)

RepliesFew == SumTo(replied, Window) + Cardinality(MayReply) < Threshold

LateSeesNone == \A h \in Creators : call[h].step \in Late => call[h].seen = 0

BurstInv == CTypeOK /\ RepliesLogged /\ RepliesFew /\ LateSeesNone

LEMMA ChatConstants ==
    /\ Window \in Nat /\ Quiet \in Nat /\ Quiet > Window /\ Threshold \in Nat /\ Threshold > 0
    /\ Ages = 0..Window
BY ChatAssumption DEF Ages

LEMMA CreatorSets ==
    \A S, T : T \subseteq Creators /\ S \subseteq T =>
       /\ IsFiniteSet(T) /\ Cardinality(S) \in Nat /\ Cardinality(T) \in Nat
       /\ Cardinality(S) <= Cardinality(T)
<1> SUFFICES ASSUME NEW S, NEW T, T \subseteq Creators, S \subseteq T
             PROVE  /\ IsFiniteSet(T) /\ Cardinality(S) \in Nat /\ Cardinality(T) \in Nat
                    /\ Cardinality(S) <= Cardinality(T)
    OBVIOUS
<1>1. IsFiniteSet(T) /\ IsFiniteSet(S)
    BY RequestsAssumption, FS_Subset
<1> QED BY <1>1, FS_Subset, FS_CardinalityType

LEMMA CallSets ==
    /\ \A k : Within(k) \subseteq Creators /\ Within(k)' \subseteq Creators
    /\ MayReply \subseteq Creators /\ MayReply' \subseteq Creators
BY DEF Within, MayReply

LEMMA Intervals ==
    /\ \A a, b \in Int : IsFiniteSet(a..b)
    /\ \A k \in Ages : k \in Nat /\ 0..k \subseteq Ages
<1>1. ASSUME NEW a \in Int, NEW b \in Int PROVE IsFiniteSet(a..b)
    BY FS_Interval
<1>2. \A k \in Ages : k \in Nat /\ 0..k \subseteq Ages
    BY ChatConstants
<1> QED BY <1>1, <1>2

\* Counts by age, and their sums.
LEMMA AgeSums ==
    ASSUME NEW f \in [Ages -> 0..Threshold]
    PROVE  /\ \A k \in Ages : SumTo(f, k) \in Nat
           /\ SumTo(f, Window) = Total(f)
<1>1. \A a \in Ages : f[a] \in Nat
    BY ChatConstants
<1>2. ASSUME NEW k \in Ages PROVE SumTo(f, k) \in Nat
    <2>1. 0..k \subseteq Ages /\ IsFiniteSet(0..k)
        BY Intervals
    <2> QED BY <1>1, <2>1, SumNat DEF SumTo
<1>3. SumTo(f, Window) = Total(f)
    BY ChatConstants DEF SumTo, SumOf, Total, MapThenSumSet, MapThenFoldSet
<1> QED BY <1>2, <1>3

\* One more at an age, unless the count is at the threshold.
LEMMA AgeAdds ==
    ASSUME NEW f \in [Ages -> 0..Threshold], NEW a, a \in Nat, NEW g, g = AddNow(f, a)
    PROVE  /\ g \in [Ages -> 0..Threshold]
           /\ \A k \in Ages : /\ SumTo(g, k) >= SumTo(f, k)
                              /\ SumTo(g, k) <= SumTo(f, k) + (IF a <= k THEN 1 ELSE 0)
           /\ a \in Ages =>
                 \A k \in Ages :
                    a <= k => SumTo(g, k) = SumTo(f, k) + 1 \/ SumTo(f, k) >= Threshold
<1>0. \A k \in Ages : 0..k \subseteq Ages /\ IsFiniteSet(0..k) /\ k \in Nat /\ SumTo(f, k) \in Nat
    BY Intervals, AgeSums
<1>1. \A b \in Ages : f[b] \in Nat /\ f[b] <= Threshold
    BY ChatConstants
<1>2. CASE a \in Ages /\ f[a] < Threshold
    <2>1. g = [f EXCEPT ![a] = f[a] + 1]
        BY <1>2 DEF AddNow
    <2>2. f[a] + 1 \in 0..Threshold
        BY <1>1, <1>2, ChatConstants
    <2>3. g \in [Ages -> 0..Threshold] /\ g[a] = f[a] + 1 /\ \A b \in Ages \ {a} : g[b] = f[b]
        BY <1>2, <2>1, <2>2
    <2>4. \A b \in Ages : f[b] \in Int /\ g[b] \in Int
        BY <1>1, <2>3
    <2>5. ASSUME NEW k \in Ages
          PROVE  SumTo(g, k) = SumTo(f, k) + (IF a <= k THEN 1 ELSE 0)
        <3>1. CASE a <= k
            <4>1. a \in 0..k /\ \A b \in 0..k : f[b] \in Int /\ g[b] \in Int
                BY <1>0, <2>4, <3>1
            <4>2. \A b \in (0..k) \ {a} : f[b] = g[b]
                BY <1>0, <2>3
            <4>3. SumTo(g, k) = SumTo(f, k) - f[a] + g[a]
                <5>1. PICK D, x : D = 0..k /\ x = a
                    OBVIOUS
                <5>2. /\ IsFiniteSet(D) /\ x \in D
                      /\ \A y \in D : f[y] \in Int /\ g[y] \in Int
                      /\ \A y \in D \ {x} : f[y] = g[y]
                    BY <1>0, <4>1, <4>2, <5>1
                <5>3. SumOf(g, D) = SumOf(f, D) - f[x] + g[x]
                    BY <5>2, SumChange
                <5> QED BY <5>1, <5>3 DEF SumTo
            <4> QED BY <1>0, <1>1, <1>2, <2>3, <3>1, <4>3
        <3>2. CASE ~(a <= k)
            <4>1. \A b \in 0..k : g[b] = f[b]
                BY <1>0, <2>3, <3>2
            <4>2. SumTo(g, k) = SumTo(f, k)
                BY <1>0, <4>1, SumSame DEF SumTo
            <4> QED BY <1>0, <3>2, <4>2
        <3> QED BY <3>1, <3>2
    <2> QED BY <1>0, <2>3, <2>5
<1>3. CASE ~(a \in Ages /\ f[a] < Threshold)
    <2>1. g = f
        BY <1>3 DEF AddNow
    <2>2. ASSUME a \in Ages, NEW k \in Ages, a <= k PROVE SumTo(f, k) >= Threshold
        <3>1. f[a] = Threshold
            BY <1>1, <1>3, <2>2, ChatConstants
        <3>2. {a} \subseteq 0..k /\ \A b \in 0..k : f[b] \in Nat
            BY <1>0, <1>1, <2>2
        <3>3. SumOf(f, {a}) <= SumOf(f, 0..k)
            BY <1>0, <3>2, SumPart
        <3>4. SumOf(f, {a}) = f[a]
            <4>1. {a} \ {a} = {} /\ IsFiniteSet({a}) /\ a \in {a} /\ f[a] \in Int
                <5>1. IsFiniteSet({a})
                    BY FS_Singleton
                <5> QED BY <1>1, <2>2, <5>1
            <4>2. SumOf(f, {a}) = f[a] + SumOf(f, {a} \ {a})
                BY <4>1, SumRemove
            <4> QED BY <4>1, <4>2, SumEmpty
        <3> QED BY <3>1, <3>3, <3>4 DEF SumTo
    <2> QED BY <1>0, <2>1, <2>2
<1> QED BY <1>2, <1>3

\* A tick moves everything to the next age.
LEMMA AgeShifts ==
    ASSUME NEW f \in [Ages -> 0..Threshold], NEW g, g = Older(f)
    PROVE  /\ g \in [Ages -> 0..Threshold]
           /\ SumTo(g, 0) = 0
           /\ \A k \in Ages : k > 0 => k - 1 \in Ages /\ SumTo(g, k) = SumTo(f, k - 1)
           /\ SumTo(g, Window) <= SumTo(f, Window)
<1>1. \A a \in Ages : a # 0 => a - 1 \in Ages
    BY ChatConstants
<1>2. g \in [Ages -> 0..Threshold] /\ g[0] = 0 /\ \A a \in Ages : a # 0 => g[a] = f[a - 1]
    BY <1>1, ChatConstants DEF Older
<1>3. \A a \in Ages : f[a] \in Nat /\ g[a] \in Nat
    BY <1>2, ChatConstants
<1>4. SumTo(g, 0) = 0
    <2>1. 0..0 = {0} /\ \A a \in {0} : g[a] = 0
        BY <1>2
    <2> QED BY <2>1, SumZero, FS_Singleton DEF SumTo
<1>5. ASSUME NEW k \in Ages, k > 0
      PROVE  k - 1 \in Ages /\ SumTo(g, k) = SumTo(f, k - 1)
    <2> DEFINE S == 0..(k - 1)
               h == [a \in S |-> a + 1]
    <2>1. k - 1 \in Ages /\ S \subseteq Ages /\ IsFiniteSet(S) /\ k \in Nat
        <3>1. k \in Nat /\ k - 1 \in Ages
            BY <1>5, ChatConstants
        <3> QED BY <3>1, Intervals
    <2>2. \A a \in S : h[a] = a + 1 /\ h[a] \in Ages /\ h[a] # 0 /\ h[a] - 1 = a
        BY <1>5, ChatConstants
    <2>3. \A a \in S : f[a] \in Int /\ g[h[a]] = f[a]
        BY <1>2, <1>3, <2>1, <2>2
    <2>4. \A a, b \in S : h[a] = h[b] => a = b
        BY <2>2
    <2>5. {h[a] : a \in S} = 1..k
        <3>1. ASSUME NEW b \in 1..k PROVE \E a \in S : h[a] = b
            <4>1. b - 1 \in S
                BY <2>1
            <4> QED BY <4>1, <2>2
        <3>2. \A a \in S : h[a] \in 1..k
            BY <2>1
        <3> QED BY <3>1, <3>2
    <2>6. SumOf(g, 1..k) = SumOf(f, S)
        <3>1. PICK D, m : D = S /\ m = h
            OBVIOUS
        <3> HIDE DEF h, S
        <3>2. /\ IsFiniteSet(D) /\ \A x, y \in D : m[x] = m[y] => x = y
              /\ \A x \in D : f[x] \in Int /\ g[m[x]] = f[x]
              /\ {m[x] : x \in D} = 1..k
            BY <2>1, <2>3, <2>4, <2>5, <3>1
        <3>3. SumOf(g, {m[x] : x \in D}) = SumOf(f, D)
            BY <3>2, SumRenamed
        <3> QED BY <3>1, <3>2, <3>3
    <2>7. SumOf(g, 0..k) = g[0] + SumOf(g, 1..k)
        <3>1. 0..k = (1..k) \cup {0} /\ 0 \notin 1..k /\ IsFiniteSet(1..k)
            <4>1. 0..k = (1..k) \cup {0} /\ 0 \notin 1..k
                BY <2>1
            <4> QED BY <2>1, <4>1, Intervals
        <3>2. \A a \in (1..k) \cup {0} : g[a] \in Int
            BY <1>3, <2>1, ChatConstants
        <3> QED BY <3>1, <3>2, SumAdd
    <2>8. SumOf(f, S) \in Nat
        BY <1>3, <2>1, SumNat
    <2> QED BY <1>2, <2>1, <2>6, <2>7, <2>8 DEF SumTo
<1>6. SumTo(g, Window) <= SumTo(f, Window)
    <2>1. CASE Window = 0
        BY <1>4, <2>1, AgeSums, ChatConstants
    <2>2. CASE Window > 0
        <3>1. SumTo(g, Window) = SumTo(f, Window - 1) /\ Window - 1 \in Ages
            BY <1>5, <2>2, ChatConstants
        <3>2. 0..(Window - 1) \subseteq 0..Window /\ IsFiniteSet(0..Window)
            BY ChatConstants, Intervals
        <3> QED BY <1>3, <3>1, <3>2, SumPart, ChatConstants DEF SumTo
    <2> QED BY <2>1, <2>2, ChatConstants
<1> QED BY <1>2, <1>4, <1>5, <1>6

\* The calls that still count, when one of them changes.
LEMMA CallChanges ==
    ASSUME CTypeOK, NEW h \in Creators, NEW r, call' = [call EXCEPT ![h] = r]
    PROVE  /\ \A k : Within(k)' = (Within(k) \ {h}) \cup
                                     {g \in {h} : r.step \in Unsettled /\ r.age <= k}
           /\ MayReply' = (MayReply \ {h}) \cup
                             {g \in {h} : /\ r.step \in Answers /\ r.age <= Window
                                          /\ r.seen + r.age < Quiet}
           /\ (r.step \in Late => r.seen = 0) /\ LateSeesNone => LateSeesNone'
<1>1. call'[h] = r /\ \A g \in Creators : g # h => call'[g] = call[g]
    BY DEF CTypeOK
<1>2. ASSUME NEW k
      PROVE  Within(k)' = (Within(k) \ {h}) \cup {g \in {h} : r.step \in Unsettled /\ r.age <= k}
    BY <1>1 DEF Within
<1>3. MayReply' = (MayReply \ {h}) \cup
                     {g \in {h} : /\ r.step \in Answers /\ r.age <= Window
                                  /\ r.seen + r.age < Quiet}
    BY <1>1 DEF MayReply
<1>4. (r.step \in Late => r.seen = 0) /\ LateSeesNone => LateSeesNone'
    BY <1>1 DEF LateSeesNone
<1> QED BY <1>2, <1>3, <1>4

LEMMA SumsPrimed ==
    \A k : SumTo(recent, k)' = SumTo(recent', k) /\ SumTo(replied, k)' = SumTo(replied', k)
<1> SUFFICES ASSUME NEW k
             PROVE  SumTo(recent, k)' = SumTo(recent', k) /\ SumTo(replied, k)' = SumTo(replied', k)
    OBVIOUS
<1>1. SumTo(recent, k)' = SumTo(recent', k)
    BY DEF SumTo, SumOf, MapThenSumSet, MapThenFoldSet
<1>2. SumTo(replied, k)' = SumTo(replied', k)
    BY DEF SumTo, SumOf, MapThenSumSet, MapThenFoldSet
<1> QED BY <1>1, <1>2

\* A step of a call that neither logs nor replies, and is no better off than before.
LEMMA BurstMovesOn ==
    ASSUME BurstInv, CTypeOK', NEW h \in Creators, NEW r, call' = [call EXCEPT ![h] = r],
           UNCHANGED <<recent, replied>>,
           r.step \in Unsettled => call[h].step \in Unsettled /\ call[h].age = r.age,
           r.step \in Late => r.seen = 0,
           r.step \in Answers /\ r.seen + r.age < Quiet =>
               call[h].step \in Answers /\ call[h].seen = r.seen
    PROVE  BurstInv'
<1> CTypeOK /\ RepliesLogged /\ RepliesFew /\ LateSeesNone
    BY DEF BurstInv
<1>1. \A k : Within(k)' \subseteq Within(k)
    BY CallChanges DEF Within
<1>2. MayReply' \subseteq MayReply
    BY CallChanges DEF MayReply, Unsettled
<1>3. /\ \A k : /\ Cardinality(Within(k)) \in Nat /\ Cardinality(Within(k)') \in Nat
                /\ Cardinality(Within(k)') <= Cardinality(Within(k))
      /\ Cardinality(MayReply) \in Nat /\ Cardinality(MayReply') \in Nat
      /\ Cardinality(MayReply') <= Cardinality(MayReply)
    BY <1>1, <1>2, CallSets, CreatorSets
<1>4. /\ \A k \in Ages : SumTo(recent, k) \in Nat /\ SumTo(replied, k) \in Nat
      /\ \A k : SumTo(recent, k)' = SumTo(recent, k) /\ SumTo(replied, k)' = SumTo(replied, k)
      /\ Window \in Ages /\ Threshold \in Nat
    <2>1. recent \in [Ages -> 0..Threshold] /\ replied \in [Ages -> 0..Threshold]
        BY DEF CTypeOK
    <2>2. \A k \in Ages : SumTo(recent, k) \in Nat /\ SumTo(replied, k) \in Nat
        BY <2>1, AgeSums
    <2>3. \A k : SumTo(recent, k)' = SumTo(recent, k) /\ SumTo(replied, k)' = SumTo(replied, k)
        BY SumsPrimed
    <2> QED BY <2>2, <2>3, ChatConstants
<1>5. RepliesLogged'
    <2> SUFFICES ASSUME NEW k \in Ages
                 PROVE  \/ SumTo(recent, k)' >= Threshold
                        \/ SumTo(replied, k)' + Cardinality(Within(k)') <= SumTo(recent, k)'
        BY DEF RepliesLogged
    <2>1. \/ SumTo(recent, k) >= Threshold
          \/ SumTo(replied, k) + Cardinality(Within(k)) <= SumTo(recent, k)
        BY DEF RepliesLogged
    <2> QED BY <1>3, <1>4, <2>1
<1>6. RepliesFew'
    BY <1>3, <1>4 DEF RepliesFew
<1>7. LateSeesNone'
    BY CallChanges
<1> QED BY <1>5, <1>6, <1>7 DEF BurstInv

\* A message that is logged counts for every age from now on; its call may
\* reply only after it has looked for a burst.
LEMMA BurstLogs ==
    ASSUME BurstInv, CTypeOK', NEW h \in Creators, NEW r, call' = [call EXCEPT ![h] = r],
           recent' = AddNow(recent, 0), UNCHANGED replied, r.step = "note"
    PROVE  BurstInv'
<1> CTypeOK /\ RepliesLogged /\ RepliesFew /\ LateSeesNone
    BY DEF BurstInv
<1>1. ASSUME NEW k \in Ages
      PROVE  /\ Cardinality(Within(k)) \in Nat /\ Cardinality(Within(k)') \in Nat
             /\ Cardinality(Within(k)') <= Cardinality(Within(k)) + 1
    <2>1. Within(k)' \subseteq Within(k) \cup {h}
        BY CallChanges DEF Within
    <2>2. IsFiniteSet(Within(k)) /\ Within(k) \cup {h} \subseteq Creators
        BY CallSets, CreatorSets
    <2>3. Cardinality(Within(k) \cup {h}) <= Cardinality(Within(k)) + 1
        <3>1. PICK W : W = Within(k)
            OBVIOUS
        <3>2. Cardinality(W \cup {h}) = IF h \in W THEN Cardinality(W) ELSE Cardinality(W) + 1
            BY <2>2, <3>1, FS_AddElement
        <3>3. Cardinality(W) \in Nat
            BY <2>2, <3>1, FS_CardinalityType
        <3> QED BY <3>1, <3>2, <3>3
    <2>4. /\ Cardinality(Within(k)') <= Cardinality(Within(k) \cup {h})
          /\ Cardinality(Within(k)') \in Nat /\ Cardinality(Within(k)) \in Nat
          /\ Cardinality(Within(k) \cup {h}) \in Nat
        BY <2>1, <2>2, CallSets, CreatorSets
    <2> QED BY <2>3, <2>4
<1>2. /\ MayReply' \subseteq MayReply
      /\ Cardinality(MayReply) \in Nat /\ Cardinality(MayReply') \in Nat
      /\ Cardinality(MayReply') <= Cardinality(MayReply)
    <2>1. MayReply' \subseteq MayReply
        BY CallChanges DEF Answers, Late
    <2> QED BY <2>1, CallSets, CreatorSets
<1>3. /\ recent \in [Ages -> 0..Threshold] /\ recent' \in [Ages -> 0..Threshold]
      /\ replied \in [Ages -> 0..Threshold] /\ Window \in Ages /\ Threshold \in Nat
    BY ChatConstants DEF CTypeOK
<1>4. ASSUME NEW k \in Ages
      PROVE  /\ SumTo(recent, k) \in Nat /\ SumTo(recent', k) \in Nat /\ SumTo(replied, k) \in Nat
             /\ SumTo(recent', k) >= SumTo(recent, k)
             /\ SumTo(recent', k) = SumTo(recent, k) + 1 \/ SumTo(recent, k) >= Threshold
    <2>1. 0 \in Nat /\ 0 \in Ages /\ 0 <= k
        BY ChatConstants
    <2>2. SumTo(recent, k) \in Nat /\ SumTo(recent', k) \in Nat /\ SumTo(replied, k) \in Nat
        BY <1>3, AgeSums
    <2> QED BY <1>3, <2>1, <2>2, AgeAdds
<1>5. \A k : SumTo(replied, k)' = SumTo(replied, k) /\ SumTo(recent, k)' = SumTo(recent', k)
    BY SumsPrimed
<1>6. RepliesLogged'
    <2> SUFFICES ASSUME NEW k \in Ages
                 PROVE  \/ SumTo(recent, k)' >= Threshold
                        \/ SumTo(replied, k)' + Cardinality(Within(k)') <= SumTo(recent, k)'
        BY DEF RepliesLogged
    <2>1. \/ SumTo(recent, k) >= Threshold
          \/ SumTo(replied, k) + Cardinality(Within(k)) <= SumTo(recent, k)
        BY DEF RepliesLogged
    <2> QED BY <1>1, <1>3, <1>4, <1>5, <2>1
<1>7. RepliesFew'
    BY <1>2, <1>3, <1>4, <1>5 DEF RepliesFew
<1>8. LateSeesNone'
    BY CallChanges DEF Late
<1> QED BY <1>6, <1>7, <1>8 DEF BurstInv

\* A call that finds fewer messages than the threshold may reply: those that may,
\* and those that have, are among the logged ones.
LEMMA BurstIsChecked ==
    ASSUME BurstInv, CTypeOK', NEW h \in Creators, NEW r, call' = [call EXCEPT ![h] = r],
           UNCHANGED <<recent, replied>>, ~BurstIsOver,
           call[h].step = "burst", r.step = "choose", r.age = call[h].age
    PROVE  BurstInv'
<1> CTypeOK /\ RepliesLogged /\ RepliesFew /\ LateSeesNone
    BY DEF BurstInv
<1>1. /\ recent \in [Ages -> 0..Threshold] /\ replied \in [Ages -> 0..Threshold]
      /\ Window \in Ages /\ Threshold \in Nat
    BY ChatConstants DEF CTypeOK
<1>2. /\ \A k \in Ages : SumTo(recent, k) \in Nat /\ SumTo(replied, k) \in Nat
      /\ SumTo(recent, Window) = Total(recent)
    BY <1>1, AgeSums
<1>3. \A k : SumTo(replied, k)' = SumTo(replied, k) /\ SumTo(recent, k)' = SumTo(recent, k)
    BY SumsPrimed
<1>4. \A k : Within(k)' \subseteq Within(k)
    BY CallChanges DEF Within, Unsettled
<1>5. MayReply' \subseteq Within(Window)
    <2>1. ASSUME NEW g \in MayReply \ {h} PROVE g \in Within(Window)
        BY <2>1 DEF MayReply, Within, Unsettled
    <2>2. r.age <= Window => h \in Within(Window)
        BY DEF Within, Unsettled
    <2>3. MayReply' \subseteq (MayReply \ {h}) \cup {g \in {h} : r.age <= Window}
        BY CallChanges
    <2> QED BY <2>1, <2>2, <2>3
<1>6. /\ \A k : /\ Cardinality(Within(k)) \in Nat /\ Cardinality(Within(k)') \in Nat
                /\ Cardinality(Within(k)') <= Cardinality(Within(k))
      /\ Cardinality(MayReply') \in Nat /\ Cardinality(MayReply') <= Cardinality(Within(Window))
    BY <1>4, <1>5, CallSets, CreatorSets
<1>7. RepliesLogged'
    <2> SUFFICES ASSUME NEW k \in Ages
                 PROVE  \/ SumTo(recent, k)' >= Threshold
                        \/ SumTo(replied, k)' + Cardinality(Within(k)') <= SumTo(recent, k)'
        BY DEF RepliesLogged
    <2>1. \/ SumTo(recent, k) >= Threshold
          \/ SumTo(replied, k) + Cardinality(Within(k)) <= SumTo(recent, k)
        BY DEF RepliesLogged
    <2> QED BY <1>1, <1>2, <1>3, <1>6, <2>1
<1>8. RepliesFew'
    <2>1. ~(SumTo(recent, Window) >= Threshold)
        BY <1>2 DEF BurstIsOver
    <2>2. SumTo(replied, Window) + Cardinality(Within(Window)) <= SumTo(recent, Window)
        BY <1>1, <2>1 DEF RepliesLogged
    <2> QED BY <1>1, <1>2, <1>3, <1>6, <2>1, <2>2 DEF RepliesFew
<1>9. LateSeesNone'
    BY CallChanges DEF Late
<1> QED BY <1>7, <1>8, <1>9 DEF BurstInv

\* A reply counts where its call stops to.
LEMMA BurstReplies ==
    ASSUME BurstInv, CTypeOK', NEW h \in Creators, NEW r, call' = [call EXCEPT ![h] = r],
           UNCHANGED recent, replied' = AddNow(replied, call[h].age),
           call[h].step = "reply", r.step = "ack"
    PROVE  BurstInv'
<1> CTypeOK /\ RepliesLogged /\ RepliesFew /\ LateSeesNone
    BY DEF BurstInv
<1>0. \A k : Within(k)' = Within(k) \ {h}
    <2>1. r.step \notin Unsettled
        BY DEF Unsettled, Answers, Late
    <2>2. \A k : Within(k)' = (Within(k) \ {h}) \cup
                                  {g \in {h} : r.step \in Unsettled /\ r.age <= k}
        BY CallChanges
    <2>3. \A k : {g \in {h} : r.step \in Unsettled /\ r.age <= k} = {}
        BY <2>1
    <2> QED BY <2>2, <2>3
<1>1. /\ recent \in [Ages -> 0..Threshold] /\ replied \in [Ages -> 0..Threshold]
      /\ replied' \in [Ages -> 0..Threshold]
      /\ Window \in Ages /\ Threshold \in Nat /\ Window \in Nat /\ Quiet > Window /\ Quiet \in Nat
      /\ \A k \in Ages : k \in Nat /\ k <= Window
    BY ChatConstants DEF CTypeOK
<1>2. call[h].age \in Nat /\ call[h].seen = 0
    <2>1. call[h] # NoCall
        BY DEF NoCall
    <2> QED BY <1>1, <2>1 DEF CTypeOK, Call, LateSeesNone, Late
<1>3. ASSUME NEW k \in Ages
      PROVE  /\ SumTo(recent, k) \in Nat /\ SumTo(replied, k) \in Nat /\ SumTo(replied', k) \in Nat
             /\ SumTo(replied', k) <= SumTo(replied, k) + (IF call[h].age <= k THEN 1 ELSE 0)
    <2>1. SumTo(recent, k) \in Nat /\ SumTo(replied, k) \in Nat /\ SumTo(replied', k) \in Nat
        BY <1>1, AgeSums
    <2>2. SumTo(replied', k) <= SumTo(replied, k) + (IF call[h].age <= k THEN 1 ELSE 0)
        <3>1. PICK a : a = call[h].age
            OBVIOUS
        <3>2. a \in Nat /\ replied' = AddNow(replied, a)
            BY <1>2, <3>1
        <3>3. SumTo(replied', k) <= SumTo(replied, k) + (IF a <= k THEN 1 ELSE 0)
            BY <1>1, <3>2, AgeAdds
        <3> QED BY <3>1, <3>3
    <2> QED BY <2>1, <2>2
<1>4. \A k : SumTo(recent, k)' = SumTo(recent, k) /\ SumTo(replied, k)' = SumTo(replied', k)
    BY SumsPrimed
<1>5. ASSUME NEW k \in Ages
      PROVE  /\ Cardinality(Within(k)) \in Nat /\ Cardinality(Within(k)') \in Nat
             /\ Cardinality(Within(k)') <=
                  Cardinality(Within(k)) - (IF call[h].age <= k THEN 1 ELSE 0)
    <2>1. Within(k)' = Within(k) \ {h}
        BY <1>0
    <2>2. call[h].age <= k => h \in Within(k)
        BY DEF Within, Unsettled, Answers, Late
    <2>3. IsFiniteSet(Within(k)) /\ Cardinality(Within(k)) \in Nat
        BY CallSets, CreatorSets
    <2>4. /\ Cardinality(Within(k)') \in Nat /\ Cardinality(Within(k)') <= Cardinality(Within(k))
        BY <2>1, CallSets, CreatorSets
    <2>5. h \in Within(k) => Cardinality(Within(k)') = Cardinality(Within(k)) - 1
        BY <2>1, <2>3, FS_RemoveElement
    <2> QED BY <2>2, <2>3, <2>4, <2>5
<1>6. /\ Cardinality(MayReply) \in Nat /\ Cardinality(MayReply') \in Nat
      /\ Cardinality(MayReply') <= Cardinality(MayReply) - (IF call[h].age <= Window THEN 1 ELSE 0)
    <2>1. MayReply' = MayReply \ {h}
        BY CallChanges DEF Answers, Late
    <2>2. call[h].age <= Window => h \in MayReply
        BY <1>1, <1>2 DEF MayReply, Answers, Late
    <2>3. IsFiniteSet(MayReply) /\ Cardinality(MayReply) \in Nat
        BY CallSets, CreatorSets
    <2>4. /\ Cardinality(MayReply') \in Nat /\ Cardinality(MayReply') <= Cardinality(MayReply)
        BY <2>1, CallSets, CreatorSets
    <2>5. h \in MayReply => Cardinality(MayReply') = Cardinality(MayReply) - 1
        BY <2>1, <2>3, FS_RemoveElement
    <2> QED BY <2>2, <2>3, <2>4, <2>5
<1>7. RepliesLogged'
    <2> SUFFICES ASSUME NEW k \in Ages
                 PROVE  \/ SumTo(recent, k)' >= Threshold
                        \/ SumTo(replied, k)' + Cardinality(Within(k)') <= SumTo(recent, k)'
        BY DEF RepliesLogged
    <2>1. \/ SumTo(recent, k) >= Threshold
          \/ SumTo(replied, k) + Cardinality(Within(k)) <= SumTo(recent, k)
        BY DEF RepliesLogged
    <2> QED BY <1>1, <1>3, <1>4, <1>5, <2>1
<1>8. RepliesFew'
    <2>1. SumTo(replied, Window) + Cardinality(MayReply) < Threshold
        BY DEF RepliesFew
    <2>2. SumTo(replied', Window) + Cardinality(MayReply') < Threshold
        BY <1>1, <1>3, <1>6, <2>1
    <2> QED BY <1>4, <2>2 DEF RepliesFew
<1>9. LateSeesNone'
    BY CallChanges DEF Late
<1> QED BY <1>7, <1>8, <1>9 DEF BurstInv

\* A tick makes every call older, and brings it no nearer to the end of the
\* hand-off it knows of.
LEMMA BurstTicks ==
    ASSUME BurstInv, CTypeOK', ChatTick
    PROVE  BurstInv'
<1> CTypeOK /\ RepliesLogged /\ RepliesFew /\ LateSeesNone
    BY DEF BurstInv
<1>1. /\ recent \in [Ages -> 0..Threshold] /\ replied \in [Ages -> 0..Threshold]
      /\ recent' = Older(recent) /\ replied' = Older(replied)
      /\ Window \in Ages /\ Threshold \in Nat /\ Window \in Nat /\ Quiet > Window /\ Quiet \in Nat
      /\ \A k \in Ages : k \in Nat /\ k <= Window
    <2>1. recent \in [Ages -> 0..Threshold] /\ replied \in [Ages -> 0..Threshold]
        BY DEF CTypeOK
    <2>2. recent' = Older(recent) /\ replied' = Older(replied)
        BY DEF ChatTick
    <2>3. \A k \in Ages : k \in Nat /\ k <= Window
        BY ChatConstants
    <2>4. Window \in Ages
        BY ChatConstants
    <2> QED BY <2>1, <2>2, <2>3, <2>4, ChatConstants
<1>2. /\ recent' \in [Ages -> 0..Threshold] /\ replied' \in [Ages -> 0..Threshold]
      /\ SumTo(recent', 0) = 0 /\ SumTo(replied', 0) = 0
      /\ SumTo(replied', Window) <= SumTo(replied, Window)
      /\ \A k \in Ages : k > 0 => /\ k - 1 \in Ages
                                  /\ SumTo(recent', k) = SumTo(recent, k - 1)
                                  /\ SumTo(replied', k) = SumTo(replied, k - 1)
    BY <1>1, AgeShifts
<1>3. \A k : SumTo(recent, k)' = SumTo(recent', k) /\ SumTo(replied, k)' = SumTo(replied', k)
    BY SumsPrimed
<1>4. ASSUME NEW k \in Ages
      PROVE  /\ SumTo(recent, k) \in Nat /\ SumTo(replied, k) \in Nat
             /\ SumTo(recent', k) \in Nat /\ SumTo(replied', k) \in Nat
    BY <1>1, <1>2, AgeSums
<1>5. ASSUME NEW h \in Creators, call'[h].step \in Unsettled
      PROVE  /\ call[h].step = call'[h].step
             /\ call[h].age \in Nat /\ call'[h].age \in Nat /\ call'[h].age >= call[h].age
             /\ call'[h].age <= Window => call'[h].age = call[h].age + 1
             /\ call[h].seen \in Nat /\ call'[h].seen = Less(call[h].seen)
    <2>1. call'[h] = IF call[h] = NoCall THEN NoCall
                     ELSE [call[h] EXCEPT !.seen = Less(@),
                             !.age = IF @ <= Window /\ ~AtStep(h, "log") THEN @ + 1 ELSE @]
        BY DEF ChatTick
    <2>2. call[h] # NoCall
        BY <1>5, <2>1 DEF NoCall, Unsettled, Answers, Late
    <2>3. call[h] \in [step : ChatSteps, msg : Messages, seen : 0..Quiet, age : 0..Window + 1]
        BY <2>2 DEF CTypeOK, Call
    <2>4. /\ call'[h].step = call[h].step /\ call'[h].seen = Less(call[h].seen)
          /\ call'[h].age = IF call[h].age <= Window /\ ~AtStep(h, "log") THEN call[h].age + 1
                            ELSE call[h].age
        BY <2>1, <2>2, <2>3
    <2>5. ~AtStep(h, "log")
        BY <1>5, <2>4 DEF AtStep, Unsettled, Answers, Late
    <2> QED BY <1>1, <2>3, <2>4, <2>5
<1>6. Within(0)' = {}
    BY <1>5, <1>1 DEF Within
<1>7. ASSUME NEW k \in Ages, k > 0 PROVE Within(k)' \subseteq Within(k - 1)
    BY <1>1, <1>5 DEF Within
<1>8. MayReply' \subseteq MayReply
    <2> SUFFICES ASSUME NEW h \in MayReply' PROVE h \in MayReply
        OBVIOUS
    <2>1. /\ h \in Creators /\ call'[h].step \in Answers /\ call'[h].age <= Window
          /\ call'[h].seen + call'[h].age < Quiet
        BY DEF MayReply
    <2>2. /\ call[h].step \in Answers /\ call[h].age \in Nat /\ call[h].seen \in Nat
          /\ call'[h].age = call[h].age + 1 /\ call'[h].seen = Less(call[h].seen)
        BY <1>5, <2>1 DEF Unsettled
    <2>3. call[h].age <= Window
        BY <1>1, <2>1, <2>2
    <2>4. call[h].seen + call[h].age < Quiet
        BY <1>1, <2>1, <2>2, <2>3 DEF Less
    <2> QED BY <2>1, <2>2, <2>3, <2>4 DEF MayReply
<1>9. /\ Cardinality(MayReply) \in Nat /\ Cardinality(MayReply') \in Nat
      /\ Cardinality(MayReply') <= Cardinality(MayReply)
    BY <1>8, CallSets, CreatorSets
<1>10. RepliesLogged'
    <2> SUFFICES ASSUME NEW k \in Ages
                 PROVE  \/ SumTo(recent, k)' >= Threshold
                        \/ SumTo(replied, k)' + Cardinality(Within(k)') <= SumTo(recent, k)'
        BY DEF RepliesLogged
    <2>1. CASE k = 0
        <3>1. Cardinality(Within(k)') = 0
            BY <1>6, <2>1, FS_EmptySet
        <3> QED BY <1>2, <1>3, <2>1, <3>1
    <2>2. CASE k > 0
        <3>1. /\ k - 1 \in Ages /\ SumTo(recent', k) = SumTo(recent, k - 1)
              /\ SumTo(replied', k) = SumTo(replied, k - 1)
            BY <1>2, <2>2
        <3>2. \/ SumTo(recent, k - 1) >= Threshold
              \/ SumTo(replied, k - 1) + Cardinality(Within(k - 1)) <= SumTo(recent, k - 1)
            BY <3>1 DEF RepliesLogged
        <3>3. /\ Cardinality(Within(k - 1)) \in Nat /\ Cardinality(Within(k)') \in Nat
              /\ Cardinality(Within(k)') <= Cardinality(Within(k - 1))
            BY <1>7, <2>2, CallSets, CreatorSets
        <3>4. SumTo(recent, k - 1) \in Nat /\ SumTo(replied, k - 1) \in Nat
            BY <1>4, <3>1
        <3> QED BY <1>1, <1>3, <3>1, <3>2, <3>3, <3>4
    <2> QED BY <1>1, <2>1, <2>2
<1>11. RepliesFew'
    <2>1. SumTo(replied, Window) + Cardinality(MayReply) < Threshold
        BY DEF RepliesFew
    <2>2. SumTo(replied', Window) + Cardinality(MayReply') < Threshold
        BY <1>1, <1>2, <1>4, <1>9, <2>1
    <2> QED BY <1>3, <2>2 DEF RepliesFew
<1>12. LateSeesNone'
    <2> SUFFICES ASSUME NEW h \in Creators, call'[h].step \in Late PROVE call'[h].seen = 0
        BY DEF LateSeesNone
    <2>1. call[h].step \in Late /\ call'[h].seen = Less(call[h].seen)
        BY <1>5 DEF Unsettled, Answers
    <2> QED BY <2>1 DEF LateSeesNone, Less
<1> QED BY <1>10, <1>11, <1>12 DEF BurstInv

\* The types, without the calls and what is counted by age.
RestOK ==
    /\ mail \in [Messages -> [kind : Kinds, state : {"unwritten", "sent", "acked"}]]
    /\ agreed \in [marketing : BOOLEAN, whatsapp : BOOLEAN]
    /\ handoff \in 0..Quiet
    /\ botRows \subseteq Messages /\ writing \subseteq Managers
    /\ wished \in [Messages -> Nat]
    /\ quieted \subseteq Messages /\ heeded \subseteq Messages

LEMMA CallRecords ==
    ASSUME CTypeOK, NEW h \in Creators, call[h] # NoCall
    PROVE  /\ call[h] \in Call
           /\ call[h].msg \in Messages /\ call[h].seen \in 0..Quiet
           /\ call[h].age \in 0..Window + 1
           /\ \A step : [call EXCEPT ![h].step = step] =
                 [call EXCEPT ![h] = [step |-> step, msg |-> call[h].msg, seen |-> call[h].seen,
                                      age |-> call[h].age]]
<1>1. call[h] \in Call
    BY DEF CTypeOK
<1>2. ASSUME NEW step
      PROVE  [call EXCEPT ![h].step = step] =
             [call EXCEPT ![h] = [step |-> step, msg |-> call[h].msg, seen |-> call[h].seen,
                                  age |-> call[h].age]]
    <2>1. [call[h] EXCEPT !.step = step] =
              [step |-> step, msg |-> call[h].msg, seen |-> call[h].seen, age |-> call[h].age]
        BY <1>1 DEF Call
    <2> QED BY <2>1
<1> QED BY <1>1, <1>2 DEF Call

\* A call that only moves on to another step.
LEMMA BurstSteps ==
    ASSUME BurstInv, NEW h \in Creators, NEW step \in ChatSteps, call[h] # NoCall, To(h, step),
           RestOK', UNCHANGED <<recent, replied>>,
           step \in Unsettled => call[h].step \in Unsettled,
           step \in Late => call[h].seen = 0,
           step \in Answers => call[h].step \in Answers
    PROVE  BurstInv'
<1> DEFINE r == [step |-> step, msg |-> call[h].msg, seen |-> call[h].seen, age |-> call[h].age]
<1> CTypeOK
    BY DEF BurstInv
<1>1. call' = [call EXCEPT ![h] = r] /\ r \in Call
    BY CallRecords DEF To, Call
<1>2. /\ r.step = step /\ r.seen = call[h].seen /\ r.age = call[h].age
    OBVIOUS
<1> HIDE DEF r
<1>3. CTypeOK'
    BY <1>1 DEF CTypeOK, RestOK
<1> QED BY <1>1, <1>2, <1>3, BurstMovesOn

LEMMA BurstLeaves ==
    ASSUME BurstInv, NEW h \in Creators, call' = [call EXCEPT ![h] = NoCall],
           RestOK', UNCHANGED <<recent, replied>>
    PROVE  BurstInv'
<1> CTypeOK
    BY DEF BurstInv
<1>1. CTypeOK'
    BY DEF CTypeOK, RestOK
<1>2. NoCall.step \notin Unsettled /\ NoCall.step \notin Late /\ NoCall.step \notin Answers
    BY DEF NoCall, Unsettled, Answers, Late
<1> QED BY <1>1, <1>2, BurstMovesOn

LEMMA RestIsKept ==
    ASSUME CTypeOK, CNext
    PROVE  RestOK'
<1> RestOK
    BY DEF CTypeOK, RestOK
<1>1. Quiet \in Nat /\ Quiet \in 0..Quiet /\ \A n \in 0..Quiet : Less(n) \in 0..Quiet
    BY ChatConstants DEF Less
<1>2. ASSUME NEW h \in Creators, CallStep(h) PROVE RestOK'
    <2>1. \A step \in ChatSteps : AtStep(h, step) => call[h] # NoCall
        BY DEF AtStep, NoCall, ChatSteps
    <2>2. call[h] # NoCall => call[h].msg \in Messages
        BY CallRecords
    <2>3. ASSUME NEW m \in Messages, Deliver(h, m) PROVE RestOK'
        BY <2>3 DEF Deliver, hist, RestOK
    <2>4. ASSUME Log(h) PROVE RestOK'
        BY <2>4 DEF Log, hist, RestOK
    <2>5. ASSUME NoteMessage(h) PROVE RestOK'
        BY <2>1, <2>2, <2>5 DEF NoteMessage, hist, RestOK, ChatSteps
    <2>6. ASSUME Burst(h) PROVE RestOK'
        BY <1>1, <2>6 DEF Burst, hist, RestOK
    <2>7. ASSUME StaySilent(h) PROVE RestOK'
        BY <2>1, <2>2, <2>7 DEF StaySilent, RestOK, ChatSteps
    <2>8. ASSUME ReplyPlain(h) \/ ReplyManager(h) \/ WishHandOver(h) PROVE RestOK'
        BY <1>1, <2>8 DEF ReplyPlain, ReplyManager, WishHandOver, hist, RestOK
    <2>9. ASSUME Stop(h) PROVE RestOK'
        BY <2>9 DEF Stop, hist, RestOK
    <2>10. ASSUME OptOut(h) PROVE RestOK'
        BY <2>1, <2>2, <2>10 DEF OptOut, RestOK, ChatSteps
    <2>11. ASSUME Wish(h) \/ WishTooMany(h) PROVE RestOK'
        BY <2>11 DEF Wish, WishTooMany, hist, RestOK
    <2>12. ASSUME WishInsert(h) PROVE RestOK'
        <3>1. call[h].msg \in Messages
            BY <2>1, <2>2, <2>12 DEF WishInsert, ChatSteps
        <3>2. wished' \in [Messages -> Nat]
            BY <2>12, <3>1 DEF WishInsert, RestOK
        <3> QED BY <2>12, <3>2 DEF WishInsert, RestOK
    <2>13. ASSUME Reply(h) PROVE RestOK'
        BY <2>13 DEF Reply, RestOK
    <2>14. ASSUME Ack(h) PROVE RestOK'
        <3>1. call[h].msg \in Messages
            BY <2>1, <2>2, <2>14 DEF Ack, ChatSteps
        <3>2. mail' \in [Messages -> [kind : Kinds, state : {"unwritten", "sent", "acked"}]]
            BY <2>14, <3>1 DEF Ack, RestOK
        <3> QED BY <2>14, <3>2 DEF Ack, hist, RestOK
    <2>15. ASSUME KillCall(h) PROVE RestOK'
        BY <2>15 DEF KillCall, hist, RestOK
    <2> QED BY <1>2, <2>3, <2>4, <2>5, <2>6, <2>7, <2>8, <2>9, <2>10, <2>11, <2>12, <2>13, <2>14,
               <2>15 DEF CallStep
<1>3. ASSUME NEW m \in Messages, NEW k \in Kinds, ClientWrites(m, k) PROVE RestOK'
    BY <1>3 DEF ClientWrites, hist, RestOK
<1>4. ASSUME NEW g \in Managers, ManagerSends(g) \/ ManagerTakesOver(g) PROVE RestOK'
    BY <1>1, <1>4 DEF ManagerSends, ManagerTakesOver, hist, RestOK
<1>5. ASSUME ChatTick PROVE RestOK'
    BY <1>1, <1>5 DEF ChatTick, RestOK
<1> QED BY <1>2, <1>3, <1>4, <1>5 DEF CNext

LEMMA StepAndSeen ==
    ASSUME NEW c \in Call, NEW s, NEW n
    PROVE  [[c EXCEPT !.step = s] EXCEPT !.seen = n] =
               [step |-> s, msg |-> c.msg, seen |-> n, age |-> c.age]
<1>1. PICK d : d = [c EXCEPT !.step = s]
    OBVIOUS
<1>2. d = [step |-> s, msg |-> c.msg, seen |-> c.seen, age |-> c.age]
    BY <1>1 DEF Call
<1>3. [d EXCEPT !.seen = n] = [step |-> s, msg |-> c.msg, seen |-> n, age |-> c.age]
    BY <1>2
<1> QED BY <1>1, <1>3

LEMMA BurstCall ==
    ASSUME BurstInv, NEW h \in Creators, CallStep(h), RestOK'
    PROVE  BurstInv'
<1> CTypeOK /\ LateSeesNone
    BY DEF BurstInv
<1>1. \A step \in ChatSteps : AtStep(h, step) => call[h] # NoCall /\ call[h].step = step
    BY DEF AtStep, NoCall, ChatSteps
<1>2. /\ recent \in [Ages -> 0..Threshold] /\ replied \in [Ages -> 0..Threshold]
      /\ 0..Quiet \subseteq Nat /\ Quiet \in 0..Quiet /\ 0 \in 0..Quiet /\ 0 \in 0..Window + 1
      /\ handoff \in 0..Quiet
    BY ChatConstants DEF CTypeOK
<1>3. ASSUME NEW m \in Messages, Deliver(h, m) PROVE BurstInv'
    <2> DEFINE r == [step |-> "log", msg |-> m, seen |-> 0, age |-> 0]
    <2>1. call' = [call EXCEPT ![h] = r] /\ UNCHANGED <<recent, replied>>
        BY <1>3 DEF Deliver, hist
    <2>2. r \in Call
        BY <1>2 DEF Call, ChatSteps
    <2>3. r.step \notin Unsettled /\ r.step \notin Late /\ r.step \notin Answers
        BY DEF Unsettled, Answers, Late
    <2> HIDE DEF r
    <2>4. CTypeOK'
        BY <2>1, <2>2 DEF CTypeOK, RestOK
    <2> QED BY <2>1, <2>3, <2>4, BurstMovesOn
<1>4. ASSUME Log(h) PROVE BurstInv'
    <2> DEFINE r == [step |-> "note", msg |-> call[h].msg, seen |-> handoff, age |-> call[h].age]
    <2>1. call[h] # NoCall
        BY <1>1, <1>4 DEF Log, ChatSteps
    <2>2. call' = [call EXCEPT ![h] = r]
        <3>1. call' = [call EXCEPT ![h].step = "note", ![h].seen = handoff]
            BY <1>4 DEF Log, AfterLog
        <3>2. call[h] \in Call
            BY <2>1, CallRecords
        <3>3. [[call[h] EXCEPT !.step = "note"] EXCEPT !.seen = handoff] = r
            BY <3>2, StepAndSeen
        <3>4. call' = [call EXCEPT ![h] = [[call[h] EXCEPT !.step = "note"] EXCEPT !.seen = handoff]]
            BY <3>1 DEF CTypeOK
        <3> HIDE DEF r
        <3> QED BY <3>3, <3>4
    <2>3. r \in Call /\ r.step = "note"
        BY <1>2, <2>1, CallRecords DEF Call, ChatSteps
    <2>4. recent' = AddNow(recent, 0) /\ UNCHANGED replied
        BY <1>4 DEF Log, hist
    <2> HIDE DEF r
    <2>5. recent' \in [Ages -> 0..Threshold]
        <3>1. 0 \in Nat
            OBVIOUS
        <3> QED BY <1>2, <2>4, <3>1, AgeAdds
    <2>6. CTypeOK'
        BY <1>2, <2>2, <2>3, <2>4, <2>5 DEF CTypeOK, RestOK
    <2> QED BY <2>2, <2>3, <2>4, <2>6, BurstLogs
<1>5. ASSUME NoteMessage(h) PROVE BurstInv'
    <2>1. /\ call[h] # NoCall /\ To(h, "burst") /\ UNCHANGED <<recent, replied>>
          /\ call[h].step = "note"
        BY <1>1, <1>5 DEF NoteMessage, ChatSteps, hist
    <2> QED BY <2>1, BurstSteps DEF Unsettled, Answers, Late, ChatSteps
<1>6. ASSUME Burst(h) PROVE BurstInv'
    <2>1. call[h] # NoCall /\ call[h].step = "burst" /\ UNCHANGED <<recent, replied>>
        BY <1>1, <1>6 DEF Burst, ChatSteps, hist
    <2>2. CASE BurstIsOver
        <3> DEFINE r == [step |-> "choose", msg |-> call[h].msg, seen |-> Quiet, age |-> call[h].age]
        <3>1. call' = [call EXCEPT ![h] = r]
            <4>1. call' = [call EXCEPT ![h].step = "choose", ![h].seen = Quiet]
                BY <1>6, <2>2 DEF Burst
            <4>2. call[h] \in Call
                BY <2>1, CallRecords
            <4>3. [[call[h] EXCEPT !.step = "choose"] EXCEPT !.seen = Quiet] = r
                BY <4>2, StepAndSeen
            <4>4. call' = [call EXCEPT ![h] =
                              [[call[h] EXCEPT !.step = "choose"] EXCEPT !.seen = Quiet]]
                BY <4>1 DEF CTypeOK
            <4> HIDE DEF r
            <4> QED BY <4>3, <4>4
        <3>2. /\ r \in Call /\ r.step = "choose" /\ r.age = call[h].age /\ r.age \in Nat
              /\ r.seen = Quiet
            BY <1>2, <2>1, CallRecords, ChatConstants DEF Call, ChatSteps
        <3> HIDE DEF r
        <3>3. CTypeOK'
            BY <2>1, <3>1, <3>2 DEF CTypeOK, RestOK
        <3>4. ~(r.seen + r.age < Quiet) /\ r.step \notin Late /\ call[h].step \in Unsettled
            BY <2>1, <3>2, ChatConstants DEF Late, Unsettled
        <3> QED BY <2>1, <3>1, <3>2, <3>3, <3>4, BurstMovesOn
    <2>3. CASE ~BurstIsOver
        <3> DEFINE r == [step |-> "choose", msg |-> call[h].msg, seen |-> call[h].seen,
                         age |-> call[h].age]
        <3>1. call' = [call EXCEPT ![h] = r]
            BY <1>6, <2>1, <2>3, CallRecords DEF Burst, To
        <3>2. r \in Call /\ r.step = "choose" /\ r.age = call[h].age
            BY <2>1, CallRecords DEF Call, ChatSteps
        <3> HIDE DEF r
        <3>3. CTypeOK'
            BY <2>1, <3>1, <3>2 DEF CTypeOK, RestOK
        <3> QED BY <2>1, <2>3, <3>1, <3>2, <3>3, BurstIsChecked
    <2> QED BY <2>2, <2>3
<1>7. ASSUME StaySilent(h) PROVE BurstInv'
    <2>1. call[h] # NoCall /\ To(h, "ack") /\ UNCHANGED <<recent, replied>>
        BY <1>1, <1>7 DEF StaySilent, ChatSteps
    <2> QED BY <2>1, BurstSteps DEF Unsettled, Answers, Late, ChatSteps
<1>8. ASSUME NEW step \in Late, To(h, step), UNCHANGED <<recent, replied>>,
             call[h].step \in Answers, call[h].seen = 0
      PROVE  BurstInv'
    <2>1. call[h] # NoCall /\ step \in ChatSteps /\ call[h].step \in Unsettled
        BY <1>8 DEF NoCall, Unsettled, Answers, Late, ChatSteps
    <2> QED BY <1>8, <2>1, BurstSteps DEF Answers
<1>9. ASSUME ReplyPlain(h) \/ ReplyManager(h) \/ Stop(h) \/ Wish(h) PROVE BurstInv'
    <2>1. PICK step \in {"reply", "optout", "insert"} :
              To(h, step) /\ UNCHANGED <<recent, replied>> /\ Choose(h)
        BY <1>9 DEF ReplyPlain, ReplyManager, Stop, Wish, hist
    <2>2. call[h].step \in Answers /\ call[h].seen = 0 /\ step \in Late
        BY <2>1 DEF Choose, AtStep, Answers, Late
    <2> QED BY <1>8, <2>1, <2>2
<1>10. ASSUME OptOut(h) \/ WishInsert(h) \/ WishHandOver(h) PROVE BurstInv'
    <2>1. PICK step \in {"reply", "handover"} :
              /\ To(h, step) /\ UNCHANGED <<recent, replied>>
              /\ call[h].step \in {"optout", "insert", "handover"}
        BY <1>10 DEF OptOut, WishInsert, WishHandOver, AtStep, hist
    <2>2. call[h].step \in Answers /\ call[h].seen = 0 /\ step \in Late
        BY <2>1 DEF LateSeesNone, Answers, Late
    <2> QED BY <1>8, <2>1, <2>2
<1>11. ASSUME WishTooMany(h) \/ Ack(h) \/ KillCall(h) PROVE BurstInv'
    <2>1. call' = [call EXCEPT ![h] = NoCall] /\ UNCHANGED <<recent, replied>>
        BY <1>11 DEF WishTooMany, TurnedAway, WithError, Ack, KillCall, hist
    <2> QED BY <2>1, BurstLeaves
<1>12. ASSUME Reply(h) PROVE BurstInv'
    <2> DEFINE r == [step |-> "ack", msg |-> call[h].msg, seen |-> call[h].seen,
                     age |-> call[h].age]
    <2>1. /\ call[h] # NoCall /\ call[h].step = "reply" /\ UNCHANGED recent
          /\ replied' = AddNow(replied, call[h].age) /\ To(h, "ack")
        BY <1>1, <1>12 DEF Reply, ChatSteps
    <2>2. call' = [call EXCEPT ![h] = r] /\ r \in Call /\ r.step = "ack"
        BY <2>1, CallRecords DEF To, Call, ChatSteps
    <2> HIDE DEF r
    <2>3. replied' \in [Ages -> 0..Threshold]
        <3>1. PICK a : a = call[h].age
            OBVIOUS
        <3>2. a \in Nat /\ replied' = AddNow(replied, a)
            BY <2>1, <3>1, CallRecords, ChatConstants
        <3> QED BY <1>2, <3>2, AgeAdds
    <2>4. CTypeOK'
        BY <1>2, <2>1, <2>2, <2>3 DEF CTypeOK, RestOK
    <2> QED BY <2>1, <2>2, <2>4, BurstReplies
<1> QED BY <1>3, <1>4, <1>5, <1>6, <1>7, <1>9, <1>10, <1>11, <1>12 DEF CallStep

LEMMA BurstOthers ==
    ASSUME BurstInv, RestOK',
           \/ \E m \in Messages, k \in Kinds : ClientWrites(m, k)
           \/ \E g \in Managers : ManagerSends(g) \/ ManagerTakesOver(g)
           \/ ChatTick
    PROVE  BurstInv'
<1> CTypeOK
    BY DEF BurstInv
<1>1. ASSUME UNCHANGED <<call, recent, replied>> PROVE BurstInv'
    <2>1. CTypeOK'
        BY <1>1 DEF CTypeOK, RestOK
    <2>2. /\ \A k : Within(k)' = Within(k)
          /\ MayReply' = MayReply
          /\ LateSeesNone' <=> LateSeesNone
        BY <1>1 DEF Within, MayReply, LateSeesNone
    <2>3. \A k : SumTo(recent, k)' = SumTo(recent, k) /\ SumTo(replied, k)' = SumTo(replied, k)
        BY <1>1, SumsPrimed
    <2> QED BY <2>1, <2>2, <2>3 DEF BurstInv, RepliesLogged, RepliesFew
<1>2. ASSUME ChatTick PROVE CTypeOK'
    <2>1. recent' \in [Ages -> 0..Threshold] /\ replied' \in [Ages -> 0..Threshold]
        BY <1>2, AgeShifts DEF ChatTick, CTypeOK
    <2>2. ASSUME NEW h \in Creators PROVE call'[h] \in {NoCall} \cup Call
        <3>1. call'[h] = IF call[h] = NoCall THEN NoCall
                         ELSE [call[h] EXCEPT !.seen = Less(@),
                                 !.age = IF @ <= Window /\ ~AtStep(h, "log") THEN @ + 1 ELSE @]
            BY <1>2 DEF ChatTick
        <3>2. CASE call[h] # NoCall
            <4>1. call[h] \in [step : ChatSteps, msg : Messages, seen : 0..Quiet, age : 0..Window + 1]
                BY <3>2, CallRecords DEF Call
            <4>2. Less(call[h].seen) \in 0..Quiet
                BY <4>1, ChatConstants DEF Less
            <4>3. (IF call[h].age <= Window /\ ~AtStep(h, "log") THEN call[h].age + 1
                   ELSE call[h].age) \in 0..Window + 1
                BY <4>1, ChatConstants
            <4> QED BY <3>1, <3>2, <4>1, <4>2, <4>3 DEF Call
        <3> QED BY <3>1, <3>2
    <2>3. call' = [h \in Creators |-> call'[h]]
        BY <1>2 DEF ChatTick
    <2>4. call' \in [Creators -> {NoCall} \cup Call]
        BY <2>2, <2>3
    <2> QED BY <2>1, <2>4 DEF CTypeOK, RestOK
<1>3. ASSUME \/ \E m \in Messages, k \in Kinds : ClientWrites(m, k)
             \/ \E g \in Managers : ManagerSends(g) \/ ManagerTakesOver(g)
      PROVE  UNCHANGED <<call, recent, replied>>
    BY <1>3 DEF ClientWrites, ManagerSends, ManagerTakesOver, hist
<1> QED BY <1>1, <1>2, <1>3, BurstTicks

LEMMA BurstInit == CInit => BurstInv
<1> SUFFICES ASSUME CInit PROVE BurstInv
    OBVIOUS
<1>1. /\ recent \in [Ages -> 0..Threshold] /\ replied \in [Ages -> 0..Threshold]
      /\ \A a \in Ages : recent[a] = 0 /\ replied[a] = 0
      /\ Window \in Ages /\ Threshold > 0 /\ Threshold \in Nat
    BY ChatConstants DEF CInit
<1>2. CTypeOK
    <2>1. 0 \in 0..Quiet /\ "other" \in Kinds
        BY ChatConstants DEF Kinds
    <2> QED BY <1>1, <2>1 DEF CInit, CTypeOK
<1>3. /\ \A k : Within(k) = {}
      /\ MayReply = {}
      /\ LateSeesNone
    BY DEF CInit, NoCall, Within, MayReply, LateSeesNone, Unsettled, Answers, Late
<1>4. ASSUME NEW k \in Ages PROVE SumTo(recent, k) = 0 /\ SumTo(replied, k) = 0
    <2>1. IsFiniteSet(0..k) /\ 0..k \subseteq Ages
        BY Intervals
    <2>2. \A a \in 0..k : recent[a] = 0 /\ replied[a] = 0
        BY <1>1, <2>1
    <2> QED BY <2>1, <2>2, SumZero DEF SumTo
<1>5. Cardinality({}) = 0
    BY FS_EmptySet
<1> QED BY <1>1, <1>2, <1>3, <1>4, <1>5 DEF BurstInv, RepliesLogged, RepliesFew

LEMMA BurstStep == BurstInv /\ [CNext]_cvars => BurstInv'
<1> SUFFICES ASSUME BurstInv, [CNext]_cvars PROVE BurstInv'
    OBVIOUS
<1>1. CASE CNext
    <2>1. RestOK'
        BY <1>1, RestIsKept DEF BurstInv
    <2> QED BY <1>1, <2>1, BurstCall, BurstOthers DEF CNext
<1>2. CASE UNCHANGED cvars
    <2>1. UNCHANGED <<mail, agreed, handoff, recent, botRows, call, writing, replied, wished,
                      quieted, heeded>>
        BY <1>2 DEF cvars, chat, hist
    <2>2. CTypeOK' /\ (LateSeesNone' <=> LateSeesNone) /\ MayReply' = MayReply
          /\ \A k : Within(k)' = Within(k)
        BY <2>1 DEF CTypeOK, BurstInv, LateSeesNone, MayReply, Within
    <2>3. \A k : SumTo(recent, k)' = SumTo(recent, k) /\ SumTo(replied, k)' = SumTo(replied, k)
        BY <2>1, SumsPrimed
    <2> QED BY <2>2, <2>3 DEF BurstInv, RepliesLogged, RepliesFew
<1> QED BY <1>1, <1>2

LEMMA BurstImplies == BurstInv => CTypeOK /\ BurstGoesQuiet
<1> SUFFICES ASSUME BurstInv PROVE Total(replied) < Threshold
    BY DEF BurstInv, BurstGoesQuiet
<1>1. replied \in [Ages -> 0..Threshold] /\ Window \in Ages
    BY ChatConstants DEF BurstInv, CTypeOK
<1>2. Total(replied) \in Nat /\ SumTo(replied, Window) = Total(replied)
    BY <1>1, AgeSums
<1>3. Cardinality(MayReply) \in Nat /\ Threshold \in Nat
    BY CallSets, CreatorSets, ChatConstants
<1> QED BY <1>2, <1>3 DEF BurstInv, RepliesFew

\* A client who writes as many messages as make a burst, within the window, gets
\* automatic replies to fewer than that: also when the calls are served at once,
\* each with the client row it has loaded, while time goes by between their steps.
\* With this, what the conversation must keep is kept.
THEOREM InboxIsKept == CSpec => []InboxKeeps
<1>1. MailInv /\ BurstInv => InboxKeeps
    BY BurstImplies DEF MailInv, InboxKeeps
<1> QED BY <1>1, MailInit, MailStep, BurstInit, BurstStep, PTL DEF CSpec

-----------------------------------------------------------------------------
(* The client bot *)

\* Tasks that file a request, or ask the first question.
Filing == {t \in Tasks : task[t].step = "create"}
Asking == {t \in Tasks : task[t].step = "want"}

\* A dialog that a question has opened, and no note has ended.
Answering == IF dialog.state \in {"quantity", "note"} THEN 1 ELSE 0

\* The quantity stays with its variant.
OfItsVariant ==
    /\ dialog.state = "note" => dialog.of = dialog.variant
    /\ \A t \in Filing : task[t].of = task[t].variant
    /\ QuantityFitsVariant

\* A question is a request, a task that files one, or the dialog; or it was dropped.
EachAsked == count + Cardinality(Filing) + Answering <= asked

WantsCounted == asked + Cardinality(Asking) <= MaxWants

BotInv == BTypeOK /\ OfItsVariant /\ EachAsked /\ WantsCounted

LEMMA BotSets ==
    /\ IsFiniteSet(Filing) /\ IsFiniteSet(Asking)
    /\ Cardinality(Filing) \in Nat /\ Cardinality(Asking) \in Nat
    /\ MaxWants \in Nat /\ Answering \in Nat /\ Cardinality({}) = 0
<1>1. IsFiniteSet(Filing) /\ IsFiniteSet(Asking)
    BY BotAssumption, FS_Subset DEF Filing, Asking
<1>2. Answering \in Nat
    BY DEF Answering
<1> QED BY <1>1, <1>2, FS_CardinalityType, FS_EmptySet, BotAssumption

LEMMA TaskTurns ==
    ASSUME BTypeOK, NEW t \in Tasks, NEW r, task' = [task EXCEPT ![t] = r]
    PROVE  /\ task'[t] = r /\ \A u \in Tasks : u # t => task'[u] = task[u]
           /\ r.step = "create" => Filing' = Filing \cup {t}
           /\ r.step # "create" => Filing' = Filing \ {t}
           /\ r.step = "want" => Asking' = Asking \cup {t}
           /\ r.step # "want" => Asking' = Asking \ {t}
<1>1. task'[t] = r /\ \A u \in Tasks : u # t => task'[u] = task[u]
    BY DEF BTypeOK
<1> QED BY <1>1 DEF Filing, Asking

\* What a step does to the tasks, counted.
LEMMA TaskCounts ==
    ASSUME BTypeOK, NEW t \in Tasks, NEW r, task' = [task EXCEPT ![t] = r]
    PROVE  /\ Cardinality(Filing') \in Nat /\ Cardinality(Asking') \in Nat
           /\ r.step = "create" => Cardinality(Filing') <= Cardinality(Filing) + 1
           /\ r.step # "create" =>
                 Cardinality(Filing') = Cardinality(Filing) - (IF t \in Filing THEN 1 ELSE 0)
           /\ r.step = "want" => Cardinality(Asking') <= Cardinality(Asking) + 1
           /\ r.step # "want" =>
                 Cardinality(Asking') = Cardinality(Asking) - (IF t \in Asking THEN 1 ELSE 0)
<1>1. /\ Cardinality(Filing) \in Nat
      /\ Cardinality(Filing \cup {t}) \in Nat
      /\ Cardinality(Filing \cup {t}) <= Cardinality(Filing) + 1
      /\ Cardinality(Filing \ {t}) = Cardinality(Filing) - (IF t \in Filing THEN 1 ELSE 0)
    BY BotSets, Joined
<1>2. /\ Cardinality(Asking) \in Nat
      /\ Cardinality(Asking \cup {t}) \in Nat
      /\ Cardinality(Asking \cup {t}) <= Cardinality(Asking) + 1
      /\ Cardinality(Asking \ {t}) = Cardinality(Asking) - (IF t \in Asking THEN 1 ELSE 0)
    BY BotSets, Joined
<1>3. /\ Cardinality(Filing \ {t}) \in Nat
      /\ Cardinality(Asking \ {t}) \in Nat
    <2>1. IsFiniteSet(Filing \ {t}) /\ IsFiniteSet(Asking \ {t})
        BY BotSets, FS_Subset
    <2> QED BY <2>1, FS_CardinalityType
<1>4. CASE r.step = "create"
    <2>1. Filing' = Filing \cup {t} /\ Asking' = Asking \ {t}
        BY <1>4, TaskTurns
    <2> QED BY <1>1, <1>2, <1>3, <1>4, <2>1
<1>5. CASE r.step = "want"
    <2>1. Filing' = Filing \ {t} /\ Asking' = Asking \cup {t}
        BY <1>5, TaskTurns
    <2> QED BY <1>1, <1>2, <1>3, <1>5, <2>1
<1>6. CASE r.step # "create" /\ r.step # "want"
    <2>1. Filing' = Filing \ {t} /\ Asking' = Asking \ {t}
        BY <1>6, TaskTurns
    <2> QED BY <1>1, <1>2, <1>3, <1>6, <2>1
<1> QED BY <1>4, <1>5, <1>6

LEMMA TaskRecords ==
    ASSUME BTypeOK, NEW t \in Tasks
    PROVE  /\ task[t].step = "want" => task[t].variant \in Variants
           /\ task[t].step = "create" => task[t].variant \in Variants /\ task[t].of \in Variants
                                         /\ task[t].quantity \in Quantities
<1>1. task[t] \in {Done} \cup Task
    BY DEF BTypeOK
<1> QED BY <1>1 DEF Done, Task

LEMMA DialogRecords ==
    ASSUME BTypeOK
    PROVE  /\ In("quantity") => dialog.variant \in Variants
           /\ In("note") => dialog.variant \in Variants /\ dialog.of \in Variants
                            /\ dialog.quantity \in Quantities
<1>1. dialog \in {NoDialog} \cup Dialog
    BY DEF BTypeOK
<1> QED BY <1>1 DEF NoDialog, Dialog, In

\* A step of the dialog alone.
LEMMA BotTalks ==
    ASSUME BotInv, UNCHANGED <<task, asked, made, count, kept>>, known' \in BOOLEAN,
           dialog' \in {NoDialog} \cup Dialog, Answering' <= Answering,
           dialog'.state = "note" => dialog'.of = dialog'.variant
    PROVE  BotInv'
<1>1. BTypeOK'
    BY DEF BotInv, BTypeOK
<1>2. Filing' = Filing /\ Asking' = Asking
    BY DEF Filing, Asking
<1>3. OfItsVariant'
    BY <1>2 DEF BotInv, OfItsVariant, QuantityFitsVariant
<1>4. count \in Nat /\ asked \in Nat
    BY BotSets DEF BotInv, BTypeOK
<1>5. Answering' \in Nat
    BY DEF Answering
<1>6. EachAsked'
    BY <1>2, <1>4, <1>5, BotSets DEF BotInv, EachAsked
<1>7. WantsCounted'
    BY <1>2 DEF BotInv, WantsCounted
<1> QED BY <1>1, <1>3, <1>6, <1>7 DEF BotInv

LEMMA BotStepKept ==
    ASSUME BotInv, BNext
    PROVE  BotInv'
<1> BTypeOK /\ OfItsVariant /\ EachAsked /\ WantsCounted
    BY DEF BotInv
<1>1. /\ count \in Nat /\ asked \in Nat /\ MaxWants \in Nat /\ kept \in 0..MaxWants
      /\ Answering \in {0, 1} /\ Answering' \in {0, 1}
    BY BotSets DEF BTypeOK, Answering
<1>2. ASSUME ShareContact PROVE BotInv'
    BY <1>1, <1>2, BotTalks DEF ShareContact, BTypeOK, Answering, OfItsVariant
<1>3. ASSUME PressCatalog PROVE BotInv'
    <2>1. Answering' = 0
        BY <1>3 DEF PressCatalog, Answering, NoDialog
    <2> QED BY <1>1, <1>3, <2>1, BotTalks DEF PressCatalog, NoDialog, BTypeOK
<1>4. ASSUME PressWrite PROVE BotInv'
    <2>1. Answering' = 0
        BY <1>4 DEF PressWrite, Answering
    <2> QED BY <1>1, <1>4, <2>1, BotTalks DEF PressWrite, Dialog, BTypeOK
<1>5. ASSUME NEW n \in Quantities, AnswerQuantity(n) PROVE BotInv'
    <2> DEFINE d == [state |-> "note", variant |-> dialog.variant, quantity |-> n,
                     of |-> dialog.variant]
    <2>1. dialog' = d /\ In("quantity") /\ UNCHANGED <<task, known, asked, made, count, kept>>
        BY <1>5 DEF AnswerQuantity
    <2>2. d \in Dialog /\ d.state = "note" /\ d.of = d.variant
        BY <2>1, DialogRecords DEF Dialog
    <2> HIDE DEF d
    <2>3. Answering = 1
        BY <2>1 DEF Answering, In
    <2> QED BY <1>1, <2>1, <2>2, <2>3, BotTalks DEF BTypeOK
<1>6. ASSUME Restart PROVE BotInv'
    <2>1. Filing' = {} /\ Asking' = {} /\ Answering' = 0 /\ dialog' = NoDialog
        BY <1>6 DEF Restart, Filing, Asking, Answering, Done, NoDialog
    <2>2. BTypeOK'
        BY <1>6 DEF Restart, BTypeOK
    <2>3. OfItsVariant'
        BY <1>6, <2>1 DEF Restart, OfItsVariant, QuantityFitsVariant, NoDialog
    <2>4. EachAsked'
        BY <1>1, <1>6, <2>1, BotSets DEF Restart, EachAsked
    <2>5. WantsCounted'
        BY <1>1, <1>6, <2>1, BotSets DEF Restart, WantsCounted
    <2> QED BY <2>2, <2>3, <2>4, <2>5 DEF BotInv
<1>7. ASSUME NEW t \in Tasks, NEW v \in Variants, PressWant(t, v) PROVE BotInv'
    <2> DEFINE r == [step |-> "want", variant |-> v]
    <2>1. /\ task' = [task EXCEPT ![t] = r] /\ r \in Task /\ r.step = "want"
          /\ task[t].step = "done"
          /\ asked + Cardinality(Asking) < MaxWants
          /\ UNCHANGED <<dialog, known, asked, made, count, kept>>
        BY <1>7 DEF PressWant, Task, Free, Done, Pending, Asking
    <2> HIDE DEF r
    <2>2. /\ Filing' = Filing \ {t} /\ Cardinality(Filing') = Cardinality(Filing)
          /\ Cardinality(Asking') <= Cardinality(Asking) + 1 /\ Cardinality(Asking') \in Nat
        <3>1. t \notin Filing
            BY <2>1 DEF Filing
        <3>2. Filing' = Filing \ {t}
            BY <2>1, TaskTurns
        <3>3. Cardinality(Filing') = Cardinality(Filing) - 0
            BY <2>1, <3>1, TaskCounts
        <3>4. Cardinality(Asking') <= Cardinality(Asking) + 1 /\ Cardinality(Asking') \in Nat
            BY <2>1, TaskCounts
        <3> QED BY <3>2, <3>3, <3>4, BotSets
    <2>3. BTypeOK'
        BY <2>1 DEF BTypeOK
    <2>4. OfItsVariant'
        BY <2>1, <2>2, TaskTurns DEF OfItsVariant, QuantityFitsVariant
    <2>5. Answering' = Answering
        BY <2>1 DEF Answering
    <2>6. EachAsked'
        BY <2>1, <2>2, <2>5 DEF EachAsked
    <2>7. WantsCounted'
        BY <1>1, <2>1, <2>2, BotSets DEF WantsCounted
    <2> QED BY <2>3, <2>4, <2>6, <2>7 DEF BotInv
<1>8. Done.step = "done" /\ Done \in {Done} \cup Task
    BY DEF Done
<1>9. ASSUME NEW t \in Tasks, task' = [task EXCEPT ![t] = Done]
      PROVE  /\ Filing' = Filing \ {t}
             /\ Cardinality(Filing') = Cardinality(Filing) - (IF t \in Filing THEN 1 ELSE 0)
             /\ Cardinality(Asking') = Cardinality(Asking) - (IF t \in Asking THEN 1 ELSE 0)
             /\ Cardinality(Filing') \in Nat /\ Cardinality(Asking') \in Nat
             /\ task' \in [Tasks -> {Done} \cup Task]
             /\ \A u \in Filing' : task'[u] = task[u]
    <2>1. Filing' = Filing \ {t} /\ \A u \in Tasks : u # t => task'[u] = task[u]
        BY <1>8, <1>9, TaskTurns
    <2>2. task' \in [Tasks -> {Done} \cup Task]
        BY <1>9 DEF BTypeOK
    <2>3. /\ Cardinality(Filing') = Cardinality(Filing) - (IF t \in Filing THEN 1 ELSE 0)
          /\ Cardinality(Asking') = Cardinality(Asking) - (IF t \in Asking THEN 1 ELSE 0)
          /\ Cardinality(Filing') \in Nat /\ Cardinality(Asking') \in Nat
        BY <1>8, <1>9, TaskCounts
    <2> QED BY <2>1, <2>2, <2>3 DEF Filing
<1>10. ASSUME NEW t \in Tasks, AskQuantity(t) PROVE BotInv'
    <2>1. /\ task' = [task EXCEPT ![t] = Done] /\ task[t].step = "want" /\ t \in Asking
          /\ t \notin Filing /\ UNCHANGED <<known, made, count, kept>>
        BY <1>10 DEF AskQuantity, Asking, Filing
    <2>2. /\ Filing' = Filing \ {t} /\ Cardinality(Filing') = Cardinality(Filing)
          /\ Cardinality(Asking') = Cardinality(Asking) - 1
          /\ Cardinality(Asking') \in Nat /\ Cardinality(Filing) \in Nat /\ Cardinality(Asking) \in Nat
          /\ task' \in [Tasks -> {Done} \cup Task]
          /\ \A u \in Filing' : task'[u] = task[u]
        <3>1. /\ Filing' = Filing \ {t} /\ \A u \in Filing' : task'[u] = task[u]
              /\ Cardinality(Filing') = Cardinality(Filing) - (IF t \in Filing THEN 1 ELSE 0)
              /\ Cardinality(Asking') = Cardinality(Asking) - (IF t \in Asking THEN 1 ELSE 0)
              /\ Cardinality(Filing') \in Nat /\ Cardinality(Asking') \in Nat
              /\ task' \in [Tasks -> {Done} \cup Task]
            BY <1>9, <2>1
        <3>2. Cardinality(Filing) \in Nat /\ Cardinality(Asking) \in Nat
            BY BotSets
        <3> QED BY <2>1, <3>1, <3>2
    <2>3. CASE known
        <3>1. dialog' = [state |-> "quantity", variant |-> task[t].variant] /\ asked' = asked + 1
            BY <1>10, <2>3 DEF AskQuantity, Question
        <3>2. dialog' \in Dialog /\ dialog'.state = "quantity"
            BY <2>1, <3>1, TaskRecords DEF Dialog
        <3>3. asked' \in 0..MaxWants /\ WantsCounted'
            BY <1>1, <2>2, <3>1 DEF WantsCounted
        <3>4. BTypeOK'
            BY <2>1, <2>2, <3>2, <3>3 DEF BTypeOK
        <3>5. OfItsVariant'
            BY <2>1, <2>2, <3>2 DEF OfItsVariant, QuantityFitsVariant
        <3>6. EachAsked'
            BY <1>1, <2>1, <2>2, <3>1 DEF EachAsked
        <3> QED BY <3>3, <3>4, <3>5, <3>6 DEF BotInv
    <2>4. CASE ~known
        <3>1. UNCHANGED <<dialog, asked>>
            BY <1>10, <2>4 DEF AskQuantity
        <3>2. BTypeOK'
            BY <2>1, <2>2, <3>1 DEF BTypeOK
        <3>3. OfItsVariant'
            BY <2>1, <2>2, <3>1 DEF OfItsVariant, QuantityFitsVariant
        <3>4. Answering' = Answering
            BY <3>1 DEF Answering
        <3>5. EachAsked' /\ WantsCounted'
            BY <1>1, <2>1, <2>2, <3>1, <3>4 DEF EachAsked, WantsCounted
        <3> QED BY <3>2, <3>3, <3>5 DEF BotInv
    <2> QED BY <2>3, <2>4
<1>11. ASSUME NEW t \in Tasks, AnswerNote(t) PROVE BotInv'
    <2> DEFINE r == [step |-> "create", variant |-> dialog.variant,
                     quantity |-> dialog.quantity, of |-> dialog.of]
    <2>1. /\ task' = [task EXCEPT ![t] = r] /\ In("note") /\ dialog' = NoDialog
          /\ task[t].step = "done"
          /\ UNCHANGED <<known, asked, made, count, kept>>
        BY <1>11 DEF AnswerNote, AfterNote, Free, Done
    <2>2. r \in Task /\ r.step = "create" /\ r.of = r.variant
        BY <2>1, DialogRecords DEF Task, OfItsVariant, In
    <2> HIDE DEF r
    <2>3. /\ Filing' = Filing \cup {t} /\ task'[t] = r
          /\ \A u \in Tasks : u # t => task'[u] = task[u]
        BY <2>1, <2>2, TaskTurns
    <2>4. /\ Cardinality(Filing') \in Nat /\ Cardinality(Filing') <= Cardinality(Filing) + 1
          /\ Cardinality(Asking') = Cardinality(Asking)
        <3>1. t \notin Asking
            BY <2>1 DEF Asking
        <3>2. /\ Cardinality(Filing') \in Nat /\ Cardinality(Filing') <= Cardinality(Filing) + 1
              /\ Cardinality(Asking') = Cardinality(Asking) - 0
            BY <2>1, <2>2, <3>1, TaskCounts
        <3> QED BY <3>2, BotSets
    <2>5. Answering = 1 /\ Answering' = 0
        BY <2>1 DEF Answering, In, NoDialog
    <2>6. BTypeOK'
        BY <2>1, <2>2 DEF BTypeOK
    <2>7. OfItsVariant'
        BY <2>1, <2>2, <2>3 DEF OfItsVariant, QuantityFitsVariant, NoDialog, Filing
    <2>8. EachAsked' /\ WantsCounted'
        BY <1>1, <2>1, <2>4, <2>5, BotSets DEF EachAsked, WantsCounted
    <2> QED BY <2>6, <2>7, <2>8 DEF BotInv
<1>12. ASSUME NEW t \in Tasks, CreateRequest(t) PROVE BotInv'
    <2>1. /\ task' = [task EXCEPT ![t] = Done] /\ task[t].step = "create" /\ t \in Filing
          /\ t \notin Asking /\ UNCHANGED <<dialog, known, asked, kept>>
        BY <1>12 DEF CreateRequest, Asking, Filing
    <2>2. /\ Filing' = Filing \ {t} /\ Cardinality(Filing') = Cardinality(Filing) - 1
          /\ Cardinality(Asking') = Cardinality(Asking)
          /\ Cardinality(Filing') \in Nat /\ Cardinality(Filing) \in Nat /\ Cardinality(Asking) \in Nat
          /\ task' \in [Tasks -> {Done} \cup Task]
          /\ \A u \in Filing' : task'[u] = task[u]
        <3>1. /\ Filing' = Filing \ {t} /\ \A u \in Filing' : task'[u] = task[u]
              /\ Cardinality(Filing') = Cardinality(Filing) - (IF t \in Filing THEN 1 ELSE 0)
              /\ Cardinality(Asking') = Cardinality(Asking) - (IF t \in Asking THEN 1 ELSE 0)
              /\ Cardinality(Filing') \in Nat /\ Cardinality(Asking') \in Nat
              /\ task' \in [Tasks -> {Done} \cup Task]
            BY <1>9, <2>1
        <3>2. Cardinality(Filing) \in Nat /\ Cardinality(Asking) \in Nat
            BY BotSets
        <3> QED BY <2>1, <3>1, <3>2
    <2>3. /\ count' \in Nat /\ count' <= count + 1
          /\ made' \subseteq [variant : Variants, quantity : Quantities, of : Variants]
          /\ QuantityFitsVariant'
        <3> DEFINE r == [variant |-> task[t].variant, quantity |-> task[t].quantity,
                         of |-> task[t].of]
        <3>1. /\ r \in [variant : Variants, quantity : Quantities, of : Variants]
              /\ r.of = r.variant
            BY <2>1, TaskRecords DEF OfItsVariant
        <3>2. \/ made' = made \cup {r} /\ count' = count + 1
              \/ UNCHANGED <<made, count>>
            BY <1>12 DEF CreateRequest
        <3> HIDE DEF r
        <3> QED BY <1>1, <3>1, <3>2 DEF BTypeOK, OfItsVariant, QuantityFitsVariant
    <2>4. BTypeOK'
        BY <2>1, <2>2, <2>3 DEF BTypeOK
    <2>5. OfItsVariant'
        BY <2>1, <2>2, <2>3 DEF OfItsVariant
    <2>6. Answering' = Answering
        BY <2>1 DEF Answering
    <2>7. EachAsked' /\ WantsCounted'
        BY <1>1, <2>1, <2>2, <2>3, <2>6 DEF EachAsked, WantsCounted
    <2> QED BY <2>4, <2>5, <2>7 DEF BotInv
<1>13. ASSUME NEW t \in Tasks, WriteMessage(t) PROVE BotInv'
    <2> DEFINE r == [step |-> "keep"]
    <2>1. /\ task' = [task EXCEPT ![t] = r] /\ dialog' = NoDialog /\ task[t].step = "done"
          /\ r \in Task /\ r.step = "keep"
          /\ UNCHANGED <<known, asked, made, count, kept>>
        BY <1>13 DEF WriteMessage, Free, Done, Task
    <2> HIDE DEF r
    <2>2. /\ Filing' = Filing \ {t} /\ \A u \in Tasks : u # t => task'[u] = task[u]
        BY <2>1, TaskTurns
    <2>3. Cardinality(Filing') = Cardinality(Filing) /\ Cardinality(Asking') = Cardinality(Asking)
        <3>1. t \notin Asking /\ t \notin Filing
            BY <2>1 DEF Asking, Filing
        <3>2. /\ Cardinality(Filing') = Cardinality(Filing) - 0
              /\ Cardinality(Asking') = Cardinality(Asking) - 0
            BY <2>1, <3>1, TaskCounts
        <3> QED BY <3>2, BotSets
    <2>4. Answering' = 0
        BY <2>1 DEF Answering, NoDialog
    <2>5. BTypeOK'
        BY <2>1 DEF BTypeOK
    <2>6. OfItsVariant'
        BY <2>1, <2>2 DEF OfItsVariant, QuantityFitsVariant, NoDialog, Filing
    <2>7. EachAsked' /\ WantsCounted'
        BY <1>1, <2>1, <2>3, <2>4, BotSets DEF EachAsked, WantsCounted
    <2> QED BY <2>5, <2>6, <2>7 DEF BotInv
<1>14. ASSUME NEW t \in Tasks, KeepMessage(t) PROVE BotInv'
    <2>1. /\ task' = [task EXCEPT ![t] = Done] /\ t \notin Filing /\ t \notin Asking
          /\ kept' \in 0..MaxWants /\ UNCHANGED <<dialog, known, asked, made, count>>
        BY <1>1, <1>14 DEF KeepMessage, Asking, Filing
    <2>2. /\ Filing' = Filing \ {t} /\ Cardinality(Filing') = Cardinality(Filing)
          /\ Cardinality(Asking') = Cardinality(Asking)
          /\ task' \in [Tasks -> {Done} \cup Task]
          /\ \A u \in Filing' : task'[u] = task[u]
        <3>1. /\ Filing' = Filing \ {t} /\ \A u \in Filing' : task'[u] = task[u]
              /\ Cardinality(Filing') = Cardinality(Filing) - (IF t \in Filing THEN 1 ELSE 0)
              /\ Cardinality(Asking') = Cardinality(Asking) - (IF t \in Asking THEN 1 ELSE 0)
              /\ Cardinality(Filing') \in Nat /\ Cardinality(Asking') \in Nat
              /\ task' \in [Tasks -> {Done} \cup Task]
            BY <1>9, <2>1
        <3>2. Cardinality(Filing) \in Nat /\ Cardinality(Asking) \in Nat
            BY BotSets
        <3> QED BY <2>1, <3>1, <3>2
    <2>3. BTypeOK'
        BY <2>1, <2>2 DEF BTypeOK
    <2>4. OfItsVariant'
        BY <2>1, <2>2 DEF OfItsVariant, QuantityFitsVariant
    <2>5. Answering' = Answering
        BY <2>1 DEF Answering
    <2>6. EachAsked' /\ WantsCounted'
        BY <2>1, <2>2, <2>5 DEF EachAsked, WantsCounted
    <2> QED BY <2>3, <2>4, <2>6 DEF BotInv
<1> QED BY <1>2, <1>3, <1>4, <1>5, <1>6, <1>7, <1>10, <1>11, <1>12, <1>13, <1>14 DEF BNext

LEMMA BotInit == BInit => BotInv
<1> SUFFICES ASSUME BInit PROVE BotInv
    OBVIOUS
<1>1. Filing = {} /\ Asking = {} /\ Answering = 0
    BY DEF BInit, Filing, Asking, Answering, Done, NoDialog
<1>2. BTypeOK
    BY BotAssumption DEF BInit, BTypeOK
<1>3. OfItsVariant
    BY <1>1 DEF BInit, OfItsVariant, QuantityFitsVariant, NoDialog
<1>4. EachAsked /\ WantsCounted
    BY <1>1, BotSets DEF BInit, EachAsked, WantsCounted
<1> QED BY <1>2, <1>3, <1>4 DEF BotInv

LEMMA BotStep == BotInv /\ [BNext]_bvars => BotInv'
<1> SUFFICES ASSUME BotInv, UNCHANGED bvars PROVE BotInv'
    BY BotStepKept
<1> QED BY DEF bvars, BotInv, BTypeOK, OfItsVariant, EachAsked, WantsCounted, Filing, Asking,
               Answering, QuantityFitsVariant

LEMMA BotImplies == BotInv => BotAnswers
<1> SUFFICES ASSUME BotInv PROVE BotAnswers
    OBVIOUS
<1>1. count \in Nat /\ asked \in Nat
    BY BotSets DEF BotInv, BTypeOK
<1>2. OneRequestPerQuestion
    BY <1>1, BotSets DEF BotInv, EachAsked, OneRequestPerQuestion
<1> QED BY <1>2 DEF BotInv, OfItsVariant, BotAnswers

\* The client bot: a request has the quantity that was given for its own variant,
\* and there are never more requests than questions, however many buttons are
\* pressed and updates are handled in the middle of a dialog, and also when the
\* bot is restarted.
THEOREM BotKeepsToItsQuestions == BSpec => []BotAnswers
BY BotInit, BotStep, BotImplies, PTL DEF BSpec

-----------------------------------------------------------------------------
(* The instance that is checked, which is about one of the three at a time *)

InboxInv == RequestsInv /\ MailInv /\ BurstInv /\ BotInv

\* Answers of staff change nothing of the conversation.
LEMMA ChatStays ==
    ASSUME MailInv, BurstInv, UNCHANGED <<chat, hist>>
    PROVE  MailInv' /\ BurstInv'
<1>1. UNCHANGED <<mail, agreed, handoff, recent, botRows, call, writing, replied, wished, quieted,
                  heeded>>
    BY DEF chat, hist
<1>2. MailInv'
    BY <1>1 DEF MailInv, MailTypes, CallsAreAbout, AckedIsInInbox, WishIsKept
<1>3. /\ CTypeOK' /\ (LateSeesNone' <=> LateSeesNone) /\ MayReply' = MayReply
      /\ \A k : Within(k)' = Within(k)
    BY <1>1 DEF CTypeOK, BurstInv, LateSeesNone, MayReply, Within
<1>4. \A k : SumTo(recent, k)' = SumTo(recent, k) /\ SumTo(replied, k)' = SumTo(replied, k)
    BY <1>1, SumsPrimed
<1>5. BurstInv'
    BY <1>3, <1>4 DEF BurstInv, RepliesLogged, RepliesFew
<1> QED BY <1>2, <1>5

LEMMA InboxStep == InboxInv /\ [InboxNext]_<<cvars, bvars, part>> => InboxInv'
<1> SUFFICES ASSUME RequestsInv, MailInv, BurstInv, BotInv, [InboxNext]_<<cvars, bvars, part>>
             PROVE  RequestsInv' /\ MailInv' /\ BurstInv' /\ BotInv'
    BY DEF InboxInv
<1>1. CASE CNext /\ UNCHANGED bvars
    BY <1>1, ChatStepKeepsRequests, MailStep, BurstStep, BotStep
<1>2. CASE RNext /\ UNCHANGED <<chat, hist, bvars>>
    BY <1>2, RequestsStep, ChatStays, BotStep
<1>3. CASE [BNext]_bvars /\ UNCHANGED cvars
    BY <1>3, ChatStepKeepsRequests, MailStep, BurstStep, BotStep
<1>4. CASE UNCHANGED <<cvars, bvars, part>>
    BY <1>3, <1>4
<1> QED BY <1>1, <1>2, <1>3, <1>4 DEF InboxNext

\* The three together, as they are checked: requests, the conversation, the bot.
THEOREM InboxHolds == InboxSpec => [](RequestsHold /\ InboxKeeps /\ BotAnswers)
<1>1. InboxInit => InboxInv
    BY OutcomeInit, LimitInit, MailInit, BurstInit, BotInit DEF InboxInit, CInit, RequestsInv, InboxInv
<1>2. InboxInv => RequestsHold /\ InboxKeeps /\ BotAnswers
    BY RequestsImply, BurstImplies, BotImplies DEF InboxInv, MailInv, InboxKeeps
<1> QED BY <1>1, <1>2, InboxStep, PTL DEF InboxSpec

-----------------------------------------------------------------------------
-----------------------------------------------------------------------------
(* What goes out: alerts and campaigns *)

Row == [client : Waiters, notified : BOOLEAN]

\* What a worker can be doing, as ATypeOK has it.
TellingTask == [step : {"idle", "check", "send", "mark"}, todo : SUBSET Alerts]

-----------------------------------------------------------------------------
(* The oldest of a list, and the rows *)

LEMMA MinOfNaturals ==
    ASSUME NEW S, S \subseteq Nat, S # {}
    PROVE  Min(S) \in S
BY LeastOf DEF Min

LEMMA OldestOnList ==
    ASSUME ATypeOK, NEW w \in Notifiers, telling[w].todo # {}
    PROVE  Oldest(w) \in telling[w].todo
<1>1. telling[w].todo \subseteq Nat
    BY DEF ATypeOK, Alerts
<1> QED BY <1>1, MinOfNaturals DEF Oldest

LEMMA RowIsNoNoAlert ==
    ASSUME NEW r \in Row
    PROVE  r # NoAlert
<1>1. DOMAIN r = {"client", "notified"} /\ DOMAIN NoAlert = {"client"}
    BY DEF Row, NoAlert
<1>2. "notified" # "client"
    OBVIOUS
<1> QED BY <1>1, <1>2

LEMMA MadeFacts ==
    ASSUME ATypeOK
    PROVE  /\ Made \subseteq Alerts /\ IsFiniteSet(Made) /\ Cardinality(Made) \in Nat
           /\ \A a \in Made : alert[a] \in Row
<1>1. Made \subseteq Alerts /\ \A a \in Made : alert[a] \in Row
    BY DEF Made, ATypeOK, Row
<1>2. IsFiniteSet(Alerts)
    BY AlertsAssumption, FS_Interval DEF Alerts
<1>3. IsFiniteSet(Made)
    BY <1>1, <1>2, FS_Subset
<1> QED BY <1>1, <1>3, FS_CardinalityType

-----------------------------------------------------------------------------
(* Types *)

\* A worker has a list exactly while it goes through it, and rows on it.
ListsFit ==
    \A w \in Notifiers : /\ telling[w].step \in {"send", "mark"} <=> telling[w].todo # {}
                         /\ telling[w].todo \subseteq Made

\* Rows are numbered as they are made.
RowsInOrder == Made = 1..Cardinality(Made)

RowsInv == ATypeOK /\ ListsFit /\ RowsInOrder

LEMMA RowsInit == AInit => RowsInv
<1> SUFFICES ASSUME AInit PROVE RowsInv
    OBVIOUS
<1>1. ATypeOK
    BY AlertsAssumption DEF AInit, ATypeOK, NoAlert, Nobody, Rest
<1>2. Made = {}
    BY DEF AInit, Made
<1>3. Cardinality(Made) = 0
    BY <1>2, FS_EmptySet
<1>4. ListsFit
    BY DEF AInit, ListsFit, Rest
<1> QED BY <1>1, <1>2, <1>3, <1>4 DEF RowsInv, RowsInOrder

\* Steps that leave the rows alone, or change them in place.
LEMMA SameRows ==
    ASSUME RowsInv, Made' = Made, ATypeOK', ListsFit'
    PROVE  RowsInv'
    BY DEF RowsInv, RowsInOrder

LEMMA RowsAsk ==
    ASSUME RowsInv, AskStep
    PROVE  RowsInv'
<1> ATypeOK /\ ListsFit /\ RowsInOrder
    BY DEF RowsInv
<1>1. ASSUME NEW p \in Askers, NEW c \in Waiters, Find(p, c) PROVE RowsInv'
    <2>1. ATypeOK'
        BY <1>1 DEF Find, ATypeOK
    <2>2. UNCHANGED <<alert, telling>>
        BY <1>1 DEF Find
    <2> QED BY <2>1, <2>2, SameRows DEF Made, ListsFit
<1>2. ASSUME NEW p \in Askers, Ask(p) PROVE RowsInv'
    <2>1. asking[p] \in [client : Waiters]
        BY <1>2 DEF Ask, ATypeOK
    <2>2. UNCHANGED <<available, telling, pings, doubtful, cut, kills>>
          /\ asking' \in [Askers -> {Nobody} \cup [client : Waiters]]
        BY <1>2 DEF Ask, ATypeOK
    <2>3. CASE UNCHANGED alert
        <3>1. ATypeOK'
            BY <2>2, <2>3 DEF ATypeOK
        <3> QED BY <2>2, <2>3, <3>1, SameRows DEF Made, ListsFit
    <2>4. CASE Made # Alerts /\ \E c \in Waiters :
                    alert' = [alert EXCEPT ![Cardinality(Made) + 1] = [client |-> c, notified |-> FALSE]]
        <3> DEFINE n == Cardinality(Made) + 1
        <3>1. PICK c \in Waiters : alert' = [alert EXCEPT ![n] = [client |-> c, notified |-> FALSE]]
            BY <2>4
        <3>2. [client |-> c, notified |-> FALSE] \in Row
            BY DEF Row
        <3>3. n \in Alerts
            BY <2>4, MadeFacts, AlertsAssumption DEF Alerts, RowsInOrder
        <3>4. alert' \in [Alerts -> {NoAlert} \cup Row] /\ alert'[n] \in Row
              /\ \A a \in Alerts \ {n} : alert'[a] = alert[a]
            BY <3>1, <3>2, <3>3 DEF ATypeOK, Row
        <3>5. Made' = Made \cup {n}
            BY <3>3, <3>4, RowIsNoNoAlert DEF Made
        <3>6. n \notin Made /\ Made' = 1..n
            BY <3>5, MadeFacts DEF RowsInOrder
        <3>7. Cardinality(Made') = n
            BY <3>6, FS_Interval, MadeFacts
        <3>8. ATypeOK'
            BY <2>2, <3>4 DEF ATypeOK, Row
        <3>9. ListsFit'
            BY <2>2, <3>5 DEF ListsFit
        <3> HIDE DEF n
        <3> QED BY <3>6, <3>7, <3>8, <3>9 DEF RowsInv, RowsInOrder
    <2> QED BY <1>2, <2>1, <2>3, <2>4 DEF Ask
<1> QED BY <1>1, <1>2 DEF AskStep

LEMMA RowsStock ==
    ASSUME RowsInv, Trade \/ \E w \in Notifiers : Intake(w)
    PROVE  RowsInv'
<1> ATypeOK /\ ListsFit
    BY DEF RowsInv
<1>1. CASE Trade
    <2>1. ATypeOK'
        BY <1>1 DEF Trade, ATypeOK
    <2> QED BY <1>1, <2>1, SameRows DEF Trade, Made, ListsFit
<1>2. ASSUME NEW w \in Notifiers, Intake(w) PROVE RowsInv'
    <2>1. ATypeOK'
        BY <1>2, AlertsAssumption DEF Intake, ATypeOK, Rest
    <2>2. Made' = Made
        BY <1>2 DEF Intake, Made
    <2>3. ListsFit'
        BY <1>2, <2>2 DEF Intake, ListsFit, ATypeOK, Rest
    <2> QED BY <2>1, <2>2, <2>3, SameRows
<1> QED BY <1>1, <1>2

LEMMA RowsTell ==
    ASSUME RowsInv, NEW w \in Notifiers, NotifierGoesOn(w) \/ KillNotifier(w)
    PROVE  RowsInv'
<1> ATypeOK /\ ListsFit
    BY DEF RowsInv
<1> USE DEF TellingTask
<1>1. ASSUME UNCHANGED alert,
             telling' \in [Notifiers -> TellingTask],
             telling'[w].step \in {"send", "mark"} <=> telling'[w].todo # {},
             telling'[w].todo \subseteq Made,
             \A v \in Notifiers \ {w} : telling'[v] = telling[v]
      PROVE  ListsFit' /\ Made' = Made
    BY <1>1 DEF ListsFit, Made
<1>2. ASSUME List(w) PROVE RowsInv'
    <2>1. Listed \in SUBSET Alerts /\ Listed \subseteq Made
        BY DEF Listed, Waiting, Made
    <2>2. ATypeOK'
        BY <1>2, <2>1 DEF List, ATypeOK, Rest
    <2>3. /\ telling'[w].step \in {"send", "mark"} <=> telling'[w].todo # {}
          /\ telling'[w].todo \subseteq Made
        BY <1>2, <2>1 DEF List, ATypeOK, Rest
    <2>4. UNCHANGED alert /\ \A v \in Notifiers \ {w} : telling'[v] = telling[v]
        BY <1>2 DEF List, ATypeOK
    <2> QED BY <1>1, <2>2, <2>3, <2>4, SameRows DEF ATypeOK
<1>3. ASSUME SendPing(w) PROVE RowsInv'
    <2>1. telling[w].todo # {} /\ telling[w].todo \subseteq Made
        BY <1>3 DEF SendPing, ListsFit
    <2>2. ATypeOK'
        <3>1. pings' \in [Alerts -> Nat]
            BY <1>3, <2>1, OldestOnList DEF SendPing, ATypeOK
        <3>2. telling' \in [Notifiers -> TellingTask]
            BY <1>3 DEF SendPing, ATypeOK
        <3> QED BY <1>3, <3>1, <3>2 DEF SendPing, ATypeOK
    <2>3. /\ telling'[w].step = "mark" /\ telling'[w].todo = telling[w].todo
          /\ UNCHANGED alert /\ \A v \in Notifiers \ {w} : telling'[v] = telling[v]
        BY <1>3 DEF SendPing, ATypeOK
    <2> QED BY <1>1, <2>1, <2>2, <2>3, SameRows DEF ATypeOK
<1>4. ASSUME Mark(w) PROVE RowsInv'
    <2>1. telling[w].todo # {} /\ telling[w].todo \subseteq Made
        BY <1>4 DEF Mark, ListsFit
    <2>2. Oldest(w) \in Made
        BY <2>1, OldestOnList
    <2>3. After(w) \in TellingTask
        BY DEF After, Rest, ATypeOK
    <2>4. [alert[Oldest(w)] EXCEPT !.notified = TRUE] \in Row
        BY <2>2, MadeFacts DEF Row
    <2>5. alert' \in [Alerts -> {NoAlert} \cup Row] /\ alert'[Oldest(w)] \in Row
          /\ \A a \in Alerts \ {Oldest(w)} : alert'[a] = alert[a]
        BY <1>4, <2>2, <2>4, MadeFacts DEF Mark, ATypeOK, Row
    <2>6. telling' \in [Notifiers -> TellingTask] /\ telling'[w] = After(w)
          /\ \A v \in Notifiers \ {w} : telling'[v] = telling[v]
        BY <1>4, <2>3 DEF Mark, ATypeOK, NextOnList
    <2>7. Made' = Made
        BY <2>2, <2>5, RowIsNoNoAlert, MadeFacts DEF Made
    <2>8. ATypeOK'
        BY <1>4, <2>5, <2>6 DEF Mark, ATypeOK, Row
    <2>9. ListsFit'
        BY <2>1, <2>6, <2>7 DEF ListsFit, After, Rest
    <2> QED BY <2>7, <2>8, <2>9, SameRows
<1>5. ASSUME KillNotifier(w) PROVE RowsInv'
    <2>1. ATypeOK'
        <3>1. doubtful' \in [Alerts -> Nat]
            BY <1>5, OldestOnList DEF KillNotifier, ATypeOK, ListsFit
        <3>2. telling' \in [Notifiers -> TellingTask]
            BY <1>5 DEF KillNotifier, ATypeOK, Rest
        <3>3. cut' \subseteq Alerts
            BY <1>5 DEF KillNotifier, ATypeOK
        <3>4. kills' \in 0..MaxKills
            BY <1>5, AlertsAssumption DEF KillNotifier, ATypeOK
        <3> QED BY <1>5, <3>1, <3>2, <3>3, <3>4 DEF KillNotifier, ATypeOK
    <2>2. telling'[w] = Rest /\ UNCHANGED alert /\ \A v \in Notifiers \ {w} : telling'[v] = telling[v]
        BY <1>5 DEF KillNotifier, ATypeOK
    <2>3. telling' \in [Notifiers -> TellingTask]
        BY <2>1 DEF ATypeOK
    <2>4. ListsFit' /\ Made' = Made
        BY <1>1, <2>2, <2>3 DEF Rest
    <2> QED BY <2>1, <2>4, SameRows
<1> QED BY <1>2, <1>3, <1>4, <1>5 DEF NotifierGoesOn

LEMMA RowsStep == RowsInv /\ [ANext]_avars => RowsInv'
<1>1. ASSUME RowsInv, UNCHANGED avars PROVE RowsInv'
    <2>1. ATypeOK' /\ ListsFit' /\ Made' = Made
        BY <1>1 DEF RowsInv, avars, ATypeOK, ListsFit, Made
    <2> QED BY <1>1, <2>1, SameRows
<1> QED BY <1>1, RowsAsk, RowsStock, RowsTell DEF ANext

-----------------------------------------------------------------------------
(* One wait per client, and who is marked was sent to *)

\* A worker about to mark an alert has sent its message.
SentBeforeMark ==
    \A w \in Notifiers : telling[w].step = "mark" => pings[Oldest(w)] > 0

WaitsInv == RowsInv /\ OneWaitPerClient /\ MarkedWasSent /\ SentBeforeMark

LEMMA WaitsInit == AInit => WaitsInv
<1> SUFFICES ASSUME AInit PROVE WaitsInv
    OBVIOUS
<1>1. Made = {}
    BY DEF AInit, Made
<1>2. SentBeforeMark
    BY DEF AInit, SentBeforeMark, Rest
<1> QED BY <1>1, <1>2, RowsInit DEF WaitsInv, OneWaitPerClient, MarkedWasSent, Waiting

LEMMA WaitsAsk ==
    ASSUME WaitsInv, AskStep
    PROVE  OneWaitPerClient' /\ MarkedWasSent' /\ SentBeforeMark'
<1> RowsInv /\ ATypeOK /\ RowsInOrder /\ OneWaitPerClient /\ MarkedWasSent /\ SentBeforeMark
    BY DEF WaitsInv, RowsInv
<1>1. UNCHANGED <<telling, pings>>
    BY DEF AskStep, Ask, Find
<1>2. SentBeforeMark'
    BY <1>1 DEF SentBeforeMark, Oldest
<1>3. CASE UNCHANGED alert
    BY <1>1, <1>2, <1>3 DEF OneWaitPerClient, MarkedWasSent, Waiting, Made
<1>4. ASSUME NEW p \in Askers, Ask(p), alert' # alert
      PROVE  OneWaitPerClient' /\ MarkedWasSent'
    <2> DEFINE n == Cardinality(Made) + 1
               c == asking[p].client
    <2>1. MayInsert(c) /\ Made # Alerts
          /\ alert' = [alert EXCEPT ![n] = [client |-> c, notified |-> FALSE]]
        BY <1>4 DEF Ask
    <2>2. n \in Alerts /\ n \notin Made
        BY <2>1, MadeFacts, AlertsAssumption DEF Alerts, RowsInOrder
    <2>3. alert'[n] = [client |-> c, notified |-> FALSE]
          /\ \A a \in Alerts \ {n} : alert'[a] = alert[a]
        BY <2>1, <2>2 DEF ATypeOK
    <2>4. Made' \subseteq Made \cup {n}
        BY <2>3 DEF Made
    <2>5. Waiting' \subseteq Waiting \cup {n} /\ Waiting \subseteq Made
        BY <2>3, <2>4, MadeFacts DEF Waiting
    <2>6. \A a \in Made : alert'[a] = alert[a]
        BY <2>2, <2>3, MadeFacts
    <2>7. \A a \in Waiting : alert[a].client # c
        BY <2>1 DEF MayInsert
    <2>8. OneWaitPerClient'
        BY <2>3, <2>5, <2>6, <2>7 DEF OneWaitPerClient
    <2>9. MarkedWasSent'
        BY <1>1, <2>3, <2>4, <2>6 DEF MarkedWasSent
    <2> QED BY <2>8, <2>9
<1> QED BY <1>2, <1>3, <1>4 DEF AskStep, Find

\* Alerts are only marked, and of those whose message was sent.
LEMMA WaitsTell ==
    ASSUME WaitsInv, NEW w \in Notifiers, NotifierGoesOn(w) \/ KillNotifier(w)
    PROVE  OneWaitPerClient' /\ MarkedWasSent' /\ SentBeforeMark'
<1> RowsInv /\ ATypeOK /\ ListsFit /\ OneWaitPerClient /\ MarkedWasSent /\ SentBeforeMark
    BY DEF WaitsInv, RowsInv
<1>1. CASE List(w) \/ KillNotifier(w)
    <2>1. UNCHANGED <<alert, pings>>
        BY <1>1 DEF List, KillNotifier
    <2>2. telling'[w].step # "mark" /\ \A v \in Notifiers \ {w} : telling'[v] = telling[v]
        BY <1>1 DEF List, KillNotifier, ATypeOK, Rest
    <2>3. SentBeforeMark'
        BY <2>1, <2>2 DEF SentBeforeMark, Oldest
    <2> QED BY <2>1, <2>3 DEF OneWaitPerClient, MarkedWasSent, Waiting, Made
<1>2. CASE SendPing(w)
    <2>1. Oldest(w) \in Alerts
        BY <1>2, OldestOnList DEF SendPing, ListsFit, ATypeOK
    <2>2. UNCHANGED alert /\ pings'[Oldest(w)] > 0 /\ \A a \in Alerts : pings[a] > 0 => pings'[a] > 0
        BY <1>2, <2>1 DEF SendPing, ATypeOK
    <2>3. telling'[w].todo = telling[w].todo
          /\ \A v \in Notifiers \ {w} : telling'[v] = telling[v]
        BY <1>2 DEF SendPing, ATypeOK
    <2>4. \A v \in Notifiers : telling[v].todo # {} => Oldest(v) \in Alerts
        BY OldestOnList DEF ATypeOK
    <2>5. \A v \in Notifiers : telling[v].step = "mark" => Oldest(v) \in Alerts
        BY <2>4 DEF ListsFit
    <2>6. SentBeforeMark'
        <3> SUFFICES ASSUME NEW v \in Notifiers, telling'[v].step = "mark"
                     PROVE  pings'[Oldest(v)'] > 0
            BY DEF SentBeforeMark
        <3>1. Oldest(v)' = Oldest(v)
            BY <2>3 DEF Oldest
        <3>2. CASE v = w
            BY <2>2, <3>1, <3>2
        <3>3. CASE v # w
            BY <2>2, <2>3, <2>5, <3>1, <3>3 DEF SentBeforeMark, ATypeOK
        <3> QED BY <3>2, <3>3
    <2>7. MarkedWasSent'
        BY <2>2, MadeFacts DEF MarkedWasSent, Made
    <2> QED BY <2>2, <2>6, <2>7 DEF OneWaitPerClient, Waiting, Made
<1>3. CASE Mark(w)
    <2> DEFINE o == Oldest(w)
    <2>1. o \in Made /\ pings[o] > 0
        BY <1>3, OldestOnList DEF Mark, ListsFit, SentBeforeMark
    <2>2. /\ alert'[o] = [alert[o] EXCEPT !.notified = TRUE]
          /\ \A a \in Alerts \ {o} : alert'[a] = alert[a]
        BY <1>3, <2>1, MadeFacts DEF Mark, ATypeOK
    <2>3. alert'[o].notified /\ alert'[o].client = alert[o].client
        BY <2>1, <2>2, MadeFacts DEF Row
    <2>4. Made' \subseteq Made
        BY <2>1, <2>2 DEF Made
    <2>5. Waiting' \subseteq Waiting \ {o}
        BY <2>2, <2>3, <2>4, MadeFacts DEF Waiting
    <2>6. \A a \in Waiting' : alert'[a] = alert[a]
        BY <2>2, <2>5, MadeFacts DEF Waiting
    <2>7. OneWaitPerClient'
        BY <2>5, <2>6 DEF OneWaitPerClient
    <2>8. UNCHANGED pings
        BY <1>3 DEF Mark
    <2>9. MarkedWasSent'
        BY <2>1, <2>2, <2>4, <2>8, MadeFacts DEF MarkedWasSent
    <2>10. telling'[w].step # "mark" /\ \A v \in Notifiers \ {w} : telling'[v] = telling[v]
        BY <1>3 DEF Mark, NextOnList, After, Rest, ATypeOK
    <2>11. SentBeforeMark'
        BY <2>8, <2>10 DEF SentBeforeMark, Oldest
    <2> QED BY <2>7, <2>9, <2>11
<1> QED BY <1>1, <1>2, <1>3 DEF NotifierGoesOn

LEMMA WaitsStep == WaitsInv /\ [ANext]_avars => WaitsInv'
<1> SUFFICES ASSUME WaitsInv, [ANext]_avars PROVE WaitsInv'
    OBVIOUS
<1>1. RowsInv'
    BY RowsStep DEF WaitsInv
<1>2. CASE Trade \/ (\E w \in Notifiers : Intake(w)) \/ UNCHANGED avars
    <2>1. UNCHANGED <<alert, pings>>
        BY <1>2 DEF Trade, Intake, avars
    <2>2. \A v \in Notifiers : telling'[v] = telling[v] \/ telling'[v].step = "check"
        BY <1>2 DEF Trade, Intake, avars, WaitsInv, RowsInv, ATypeOK, Rest
    <2>3. SentBeforeMark'
        BY <2>1, <2>2 DEF WaitsInv, SentBeforeMark, Oldest
    <2> QED BY <1>1, <2>1, <2>3 DEF WaitsInv, OneWaitPerClient, MarkedWasSent, Waiting, Made
<1> QED BY <1>1, <1>2, WaitsAsk, WaitsTell DEF ANext, WaitsInv

-----------------------------------------------------------------------------
(* Messages are accounted for *)

Marked(a) == a \in Made /\ alert[a].notified

\* A worker that may still send a message of an alert on its list.
Awaits(w, a) ==
    /\ a \in telling[w].todo
    /\ ~(telling[w].step = "mark" /\ Oldest(w) = a)

\* Who has sent of an alert and not been killed since; once it is marked, whoever
\* will not send again.
DoneWith(a) ==
    {w \in Notifiers : IF Marked(a) THEN ~Awaits(w, a)
                       ELSE telling[w].step = "mark" /\ Oldest(w) = a}

PingsCounted == \A a \in Alerts : pings[a] <= Cardinality(DoneWith(a)) + doubtful[a]

PingsInv == RowsInv /\ PingsCounted

LEMMA DoneWithFinite ==
    \A a \in Alerts : /\ IsFiniteSet(DoneWith(a)) /\ Cardinality(DoneWith(a)) \in Nat
                      /\ Cardinality(DoneWith(a)) <= Cardinality(Notifiers)
                      /\ IsFiniteSet(DoneWith(a)') /\ Cardinality(DoneWith(a)') \in Nat
<1> SUFFICES ASSUME NEW S, S \subseteq Notifiers
             PROVE  /\ IsFiniteSet(S) /\ Cardinality(S) \in Nat
                    /\ Cardinality(S) <= Cardinality(Notifiers)
    BY DEF DoneWith
<1> QED BY AlertsAssumption, FS_Subset, FS_CardinalityType

LEMMA PingsInit == AInit => PingsInv
<1> SUFFICES ASSUME AInit PROVE PingsCounted
    BY RowsInit DEF PingsInv
<1> QED BY DoneWithFinite DEF AInit, PingsCounted

\* A step that sends nothing and after which whoever was done still is.
LEMMA DoneWithGrows ==
    ASSUME PingsInv, UNCHANGED <<pings, doubtful>>,
           \A a \in Alerts : DoneWith(a) \subseteq DoneWith(a)'
    PROVE  PingsCounted'
<1> SUFFICES ASSUME NEW a \in Alerts
             PROVE  pings'[a] <= Cardinality(DoneWith(a)') + doubtful'[a]
    BY DEF PingsCounted
<1>1. Cardinality(DoneWith(a)) <= Cardinality(DoneWith(a)')
    BY DoneWithFinite, FS_Subset
<1>2. pings[a] \in Nat /\ doubtful[a] \in Nat
    BY DEF PingsInv, RowsInv, ATypeOK
<1>3. pings[a] <= Cardinality(DoneWith(a)) + doubtful[a]
    BY DEF PingsInv, PingsCounted
<1> QED BY <1>1, <1>2, <1>3, DoneWithFinite

LEMMA PingsQuiet ==
    ASSUME PingsInv,
           AskStep \/ Trade \/ (\E w \in Notifiers : Intake(w)) \/ UNCHANGED avars
    PROVE  PingsCounted'
<1>1. UNCHANGED <<pings, doubtful>>
    BY DEF AskStep, Ask, Find, Trade, Intake, avars
<1>2. \A w \in Notifiers : /\ telling'[w].todo = telling[w].todo
                           /\ telling[w].step = "mark" <=> telling'[w].step = "mark"
    <2>1. CASE UNCHANGED telling
        BY <2>1
    <2>2. ASSUME NEW v \in Notifiers, Intake(v)
          PROVE  \A w \in Notifiers : /\ telling'[w].todo = telling[w].todo
                                      /\ telling[w].step = "mark" <=> telling'[w].step = "mark"
        <3>1. telling[v] = Rest /\ telling \in [Notifiers -> TellingTask]
            BY <2>2 DEF Intake, PingsInv, RowsInv, ATypeOK, TellingTask
        <3>2. telling'[v].todo = telling[v].todo /\ telling'[v].step = "check"
              /\ telling[v].step = "idle"
            BY <2>2, <3>1 DEF Intake, Rest
        <3>3. \A w \in Notifiers \ {v} : telling'[w] = telling[w]
            BY <2>2, <3>1 DEF Intake
        <3> QED BY <3>2, <3>3
    <2> QED BY <2>1, <2>2 DEF AskStep, Ask, Find, Trade, avars
<1>3. \A a \in Alerts : Marked(a)' <=> Marked(a)
    <2>1. CASE UNCHANGED alert
        BY <2>1 DEF Marked, Made
    <2>2. ASSUME NEW p \in Askers, Ask(p), alert' # alert
          PROVE  \A a \in Alerts : Marked(a)' <=> Marked(a)
        <3> DEFINE n == Cardinality(Made) + 1
                   c == asking[p].client
        <3>1. Made # Alerts /\ alert' = [alert EXCEPT ![n] = [client |-> c, notified |-> FALSE]]
            BY <2>2 DEF Ask
        <3>2. n \in Alerts /\ n \notin Made
            BY <3>1, MadeFacts, AlertsAssumption DEF Alerts, PingsInv, RowsInv, RowsInOrder
        <3>3. alert'[n] = [client |-> c, notified |-> FALSE]
              /\ \A a \in Alerts \ {n} : alert'[a] = alert[a]
            BY <3>1, <3>2 DEF PingsInv, RowsInv, ATypeOK
        <3> HIDE DEF n, c
        <3> QED BY <3>2, <3>3 DEF Marked, Made
    <2> QED BY <2>1, <2>2 DEF AskStep, Find, Trade, Intake, avars
<1>4. \A a \in Alerts : DoneWith(a) \subseteq DoneWith(a)'
    BY <1>2, <1>3 DEF DoneWith, Awaits, Oldest
<1> QED BY <1>1, <1>4, DoneWithGrows

LEMMA PingsTell ==
    ASSUME PingsInv, NEW w \in Notifiers, NotifierGoesOn(w) \/ KillNotifier(w)
    PROVE  PingsCounted'
<1> RowsInv /\ ATypeOK /\ ListsFit /\ PingsCounted
    BY DEF PingsInv, RowsInv
<1>1. CASE List(w)
    <2>1. UNCHANGED <<alert, pings, doubtful>> /\ telling[w].step = "check"
        BY <1>1 DEF List
    <2>2. telling'[w].todo \subseteq Waiting /\ telling'[w].step # "mark"
        BY <1>1 DEF List, Listed, Rest, ATypeOK
    <2>3. \A v \in Notifiers \ {w} : telling'[v] = telling[v]
        BY <1>1 DEF List, ATypeOK
    <2>4. \A a \in Alerts : Marked(a)' <=> Marked(a)
        BY <2>1 DEF Marked, Made
    <2>5. \A a \in Alerts : Marked(a) => a \notin Waiting
        BY DEF Marked, Waiting
    <2>6. \A a \in Alerts : DoneWith(a) \subseteq DoneWith(a)'
        BY <2>1, <2>2, <2>3, <2>4, <2>5 DEF DoneWith, Awaits, Oldest
    <2> QED BY <2>1, <2>6, DoneWithGrows
<1>2. CASE SendPing(w)
    <2>1. PICK o \in Alerts : /\ o = Oldest(w) /\ o \in telling[w].todo
                             /\ telling[w].step = "send"
        BY <1>2, OldestOnList DEF SendPing, ListsFit, ATypeOK
    <2>2. UNCHANGED <<alert, doubtful>> /\ pings'[o] = pings[o] + 1
          /\ \A a \in Alerts \ {o} : pings'[a] = pings[a]
        BY <1>2, <2>1 DEF SendPing, ATypeOK
    <2>3. telling'[w].step = "mark" /\ telling'[w].todo = telling[w].todo
          /\ \A v \in Notifiers \ {w} : telling'[v] = telling[v]
        BY <1>2 DEF SendPing, ATypeOK
    <2>4. \A a \in Alerts : Marked(a)' <=> Marked(a)
        BY <2>2 DEF Marked, Made
    <2>5. \A v \in Notifiers : Oldest(v)' = Oldest(v)
        BY <2>3 DEF Oldest
    <2>6. \A a \in Alerts \ {o} : DoneWith(a)' = DoneWith(a)
        BY <2>1, <2>3, <2>4, <2>5 DEF DoneWith, Awaits
    <2>7. DoneWith(o)' = DoneWith(o) \cup {w} /\ w \notin DoneWith(o)
        BY <2>1, <2>3, <2>4, <2>5 DEF DoneWith, Awaits
    <2>8. Cardinality(DoneWith(o)') = Cardinality(DoneWith(o)) + 1
        BY <2>1, <2>7, FS_AddElement, DoneWithFinite
    <2>9. \A a \in Alerts : pings[a] \in Nat /\ doubtful[a] \in Nat
        BY DEF ATypeOK
    <2>10. pings'[o] <= Cardinality(DoneWith(o)') + doubtful'[o]
        BY <2>1, <2>2, <2>8, <2>9, DoneWithFinite DEF PingsCounted
    <2>11. \A a \in Alerts \ {o} : pings'[a] <= Cardinality(DoneWith(a)') + doubtful'[a]
        BY <2>2, <2>6 DEF PingsCounted
    <2> QED BY <2>10, <2>11 DEF PingsCounted
<1>3. CASE Mark(w)
    <2>1. PICK o \in Alerts : o = Oldest(w) /\ o \in Made /\ telling[w].step = "mark"
        BY <1>3, OldestOnList, MadeFacts DEF Mark, ListsFit
    <2>2. UNCHANGED <<pings, doubtful>> /\ alert'[o] = [alert[o] EXCEPT !.notified = TRUE]
          /\ \A a \in Alerts \ {o} : alert'[a] = alert[a]
        BY <1>3, <2>1, MadeFacts DEF Mark, ATypeOK
    <2>3. telling'[w].todo = telling[w].todo \ {o} /\ telling'[w].step # "mark"
          /\ \A v \in Notifiers \ {w} : telling'[v] = telling[v]
        BY <1>3, <2>1 DEF Mark, NextOnList, After, Rest, ATypeOK
    <2>4. alert'[o] \in Row /\ alert'[o].notified
        BY <2>1, <2>2, MadeFacts DEF Row
    <2>5. Marked(o)'
        BY <2>1, <2>4, RowIsNoNoAlert, MadeFacts DEF Marked, Made
    <2>6. \A a \in Alerts \ {o} : Marked(a)' <=> Marked(a)
        BY <2>2 DEF Marked, Made
    <2>7. \A v \in Notifiers \ {w} : Oldest(v)' = Oldest(v)
        BY <2>3 DEF Oldest
    <2>8. \A a \in Alerts \ {o} : DoneWith(a) \subseteq DoneWith(a)'
        BY <2>1, <2>3, <2>6, <2>7 DEF DoneWith, Awaits
    <2>9. DoneWith(o) \subseteq DoneWith(o)'
        BY <2>3, <2>5, <2>7 DEF DoneWith, Awaits
    <2> QED BY <2>2, <2>8, <2>9, DoneWithGrows
<1>4. CASE KillNotifier(w)
    <2> DEFINE o == Oldest(w)
    <2>1. UNCHANGED <<alert, pings>>
        BY <1>4 DEF KillNotifier
    <2>2. telling'[w].todo = {} /\ telling'[w].step = "idle"
          /\ \A v \in Notifiers \ {w} : telling'[v] = telling[v]
        BY <1>4 DEF KillNotifier, Rest, ATypeOK
    <2>3. telling[w].step = "mark" => o \in Alerts
        BY OldestOnList DEF ListsFit, ATypeOK
    <2>4. \A a \in Alerts : pings[a] \in Nat /\ doubtful[a] \in Nat
        BY DEF ATypeOK
    <2>5. \A a \in Alerts :
              doubtful'[a] = IF telling[w].step = "mark" /\ a = o THEN doubtful[a] + 1
                             ELSE doubtful[a]
        BY <1>4, <2>3 DEF KillNotifier, ATypeOK
    <2>6. \A a \in Alerts : Marked(a)' <=> Marked(a)
        BY <2>1 DEF Marked, Made
    <2>7. \A v \in Notifiers \ {w} : Oldest(v)' = Oldest(v)
        BY <2>2 DEF Oldest
    <2>8. ASSUME NEW a \in Alerts
          PROVE  pings'[a] <= Cardinality(DoneWith(a)') + doubtful'[a]
        <3>1. pings[a] <= Cardinality(DoneWith(a)) + doubtful[a]
            BY DEF PingsCounted
        <3>2. CASE ~Marked(a) /\ w \in DoneWith(a)
            <4>1. DoneWith(a)' = DoneWith(a) \ {w}
                BY <2>2, <2>6, <2>7, <3>2 DEF DoneWith, Awaits
            <4>2. Cardinality(DoneWith(a)') = Cardinality(DoneWith(a)) - 1
                BY <3>2, <4>1, FS_RemoveElement, DoneWithFinite
            <4>3. doubtful'[a] = doubtful[a] + 1
                BY <2>5, <3>2 DEF DoneWith
            <4> QED BY <2>1, <2>4, <3>1, <4>2, <4>3, DoneWithFinite
        <3>3. CASE Marked(a) \/ w \notin DoneWith(a)
            <4>1. DoneWith(a) \subseteq DoneWith(a)'
                BY <2>2, <2>6, <2>7, <3>3 DEF DoneWith, Awaits
            <4>2. Cardinality(DoneWith(a)) <= Cardinality(DoneWith(a)')
                BY <4>1, DoneWithFinite, FS_Subset
            <4>3. doubtful'[a] \in Nat /\ doubtful'[a] >= doubtful[a]
                BY <2>4, <2>5
            <4> QED BY <2>1, <2>4, <3>1, <4>2, <4>3, DoneWithFinite
        <3> QED BY <3>2, <3>3
    <2> QED BY <2>8 DEF PingsCounted
<1> QED BY <1>1, <1>2, <1>3, <1>4 DEF NotifierGoesOn

LEMMA PingsStep == PingsInv /\ [ANext]_avars => PingsInv'
<1> SUFFICES ASSUME PingsInv, [ANext]_avars PROVE PingsCounted'
    BY RowsStep DEF PingsInv
<1> QED BY PingsQuiet, PingsTell DEF ANext

-----------------------------------------------------------------------------
(* The theorem *)

\* However presses of the button, intakes, sales and kills fall, a client waits
\* once, a message of an alert is sent once more than it should be only for a
\* worker that was at it at the same time or was killed before the mark, and who
\* is marked as told has been sent one.
THEOREM AlertsAreAccounted == ASpec => []AlertsAccounted
<1>1. WaitsInv /\ PingsInv => AlertsAccounted
    <2> SUFFICES ASSUME WaitsInv, PingsInv, NEW a \in Alerts
                 PROVE  pings[a] <= Cardinality(Notifiers) + doubtful[a]
        BY DEF WaitsInv, RowsInv, AlertsAccounted, PingsAccounted
    <2>1. pings[a] \in Nat /\ doubtful[a] \in Nat
        BY DEF PingsInv, RowsInv, ATypeOK
    <2>2. pings[a] <= Cardinality(DoneWith(a)) + doubtful[a]
        BY DEF PingsInv, PingsCounted
    <2> QED BY <2>1, <2>2, DoneWithFinite, AlertsAssumption, FS_CardinalityType
<1> QED BY <1>1, WaitsInit, WaitsStep, PingsInit, PingsStep, PTL DEF ASpec

-----------------------------------------------------------------------------
(* Campaigns: what a run has done for its client *)

Busy == {"send", "wait", "note", "save"}

\* A run in the middle of a turn has a client, and has a message of its own
\* delivered only when nothing is left but to record it.
TurnsFit ==
    \A p \in Runners : run[p] # NoRun =>
        /\ run[p].step \in Busy => run[p].todo # {}
        /\ run[p].step = "next" => ~run[p].got
        /\ run[p].got => run[p].step \in {"note", "save"}

\* A message is delivered before it is noted, and noted before it is recorded.
RecordsFollow ==
    /\ HistoryTellsTruth
    /\ \A p \in Runners : run[p] # NoRun =>
          LET c == run[p].campaign
              d == Current(p)
          IN  /\ run[p].step = "note" => delivered[c][d] > 0
              /\ run[p].step = "save" /\ run[p].ok => d \in noted[c]

TurnsInv == TypeOK /\ TurnsFit /\ RecordsFollow

LEMMA RunType ==
    ASSUME TypeOK, NEW p \in Runners
    PROVE  /\ run[p] # NoRun =>
                 /\ run[p] \in Run /\ run[p].step \in Steps /\ run[p].campaign \in Campaigns
                 /\ run[p].todo \subseteq Clients /\ run[p].todo \subseteq Nat
                 /\ run[p].attempts \in 0..MaxRetries /\ run[p].ok \in BOOLEAN
                 /\ run[p].got \in BOOLEAN
                 /\ run[p].todo # {} => Current(p) \in run[p].todo /\ Current(p) \in Clients
           /\ \A step \in Steps : At(p, step) => run[p] # NoRun
<1>1. run[p] \in Run \cup {NoRun}
    BY DEF TypeOK
<1>2. ASSUME run[p] # NoRun
      PROVE  /\ run[p] \in Run /\ run[p].step \in Steps /\ run[p].campaign \in Campaigns
             /\ run[p].todo \subseteq Clients /\ run[p].todo \subseteq Nat
             /\ run[p].attempts \in 0..MaxRetries /\ run[p].ok \in BOOLEAN
             /\ run[p].got \in BOOLEAN
    BY <1>1, <1>2, CampaignsAssumption DEF Run
<1>3. ASSUME run[p] # NoRun, run[p].todo # {}
      PROVE  Current(p) \in run[p].todo
    BY <1>2, <1>3, MinOfNaturals DEF Current
<1>4. NoRun.step = "none" /\ "none" \notin Steps
    BY DEF NoRun, Steps
<1> QED BY <1>2, <1>3, <1>4 DEF At

LEMMA RunIsNoNoRun ==
    ASSUME NEW r \in Run
    PROVE  r # NoRun
<1>1. r.step \in Steps /\ NoRun.step = "none" /\ "none" \notin Steps
    BY DEF Run, NoRun, Steps
<1> QED BY <1>1

LEMMA NextOfType ==
    ASSUME NEW c \in Campaigns, NEW S \in SUBSET Clients
    PROVE  /\ NextOf(c, S) \in Run /\ NextOf(c, S).step = "next" /\ NextOf(c, S).campaign = c
           /\ NextOf(c, S).todo = S /\ NextOf(c, S).ok = FALSE /\ NextOf(c, S).got = FALSE
BY CampaignsAssumption DEF NextOf, Run, Steps

\* What a step of p does to the runs: those of the others go on as they are.
Onward(p, r) ==
    /\ run' = [run EXCEPT ![p] = r]
    /\ run'[p] = r /\ \A q \in Runners \ {p} : run'[q] = run[q]

LEMMA OnwardFrom ==
    ASSUME TypeOK, NEW p \in Runners, NEW r, run' = [run EXCEPT ![p] = r]
    PROVE  Onward(p, r)
BY DEF TypeOK, Onward

-----------------------------------------------------------------------------
(* The steps, by what they do to the current client *)

\* A step of a run that leaves the rows alone.
LEMMA QuietRun ==
    ASSUME TurnsInv, NEW p \in Runners, NEW r \in Run \cup {NoRun}, run' = [run EXCEPT ![p] = r],
           UNCHANGED <<recipient, sentAt, noted, delivered, consent, clock>>,
           lapses' \in [Campaigns -> [Clients -> Nat]],
           status' \in [Campaigns -> {"draft", "sending", "sent"}], together' \in BOOLEAN,
           r # NoRun => /\ r.step \in {"next", "send"}
                        /\ r.step = "send" => r.todo # {}
                        /\ ~r.got
    PROVE  TurnsInv'
<1>0. TypeOK /\ Onward(p, r)
    BY OnwardFrom DEF TurnsInv
<1>1. TypeOK'
    <2>1. run' \in [Runners -> Run \cup {NoRun}]
        BY <1>0 DEF TypeOK
    <2> QED BY <1>0, <2>1 DEF TypeOK
<1>2. TurnsFit'
    BY <1>0 DEF TurnsInv, TurnsFit, Onward, Busy
<1>3. RecordsFollow'
    <2>1. HistoryTellsTruth'
        BY DEF TurnsInv, RecordsFollow, HistoryTellsTruth
    <2> SUFFICES ASSUME NEW q \in Runners, run'[q] # NoRun
                 PROVE  LET c == run'[q].campaign
                            d == Min(run'[q].todo)
                        IN  /\ run'[q].step = "note" => delivered'[c][d] > 0
                            /\ run'[q].step = "save" /\ run'[q].ok => d \in noted'[c]
        BY <2>1 DEF RecordsFollow, Current
    <2>2. CASE q = p
        BY <1>0, <2>2 DEF Onward
    <2>3. CASE q # p
        BY <1>0, <2>3 DEF TurnsInv, RecordsFollow, Onward, Current
    <2> QED BY <2>2, <2>3
<1> QED BY <1>1, <1>2, <1>3 DEF TurnsInv

\* A run that stays in its turn, for the same client.
SameTurn(p, r) ==
    /\ r \in Run /\ r.campaign = run[p].campaign /\ r.todo = run[p].todo

LEMMA TurnsStart ==
    ASSUME TurnsInv, NEW p \in Runners, NEW c \in Campaigns, Start(p, c)
    PROVE  TurnsInv'
<1> DEFINE r == NextOf(c, Audience)
<1>1. TypeOK /\ Audience \in SUBSET Clients
    BY DEF TurnsInv, TypeOK, Audience
<1>2. r \in Run /\ r.step = "next" /\ ~r.got
    BY <1>1, NextOfType
<1>3. /\ run' = [run EXCEPT ![p] = r] /\ together' \in BOOLEAN
      /\ status' \in [Campaigns -> {"draft", "sending", "sent"}]
      /\ UNCHANGED <<recipient, sentAt, noted, consent, clock, delivered, lapses>>
    BY <1>1 DEF Start, TypeOK
<1>4. lapses' \in [Campaigns -> [Clients -> Nat]]
    BY <1>1, <1>3 DEF TypeOK
<1> HIDE DEF r
<1> QED BY <1>2, <1>3, <1>4, QuietRun

LEMMA TurnsWake ==
    ASSUME TurnsInv, NEW p \in Runners, Wake(p)
    PROVE  TurnsInv'
<1> DEFINE r == [run[p] EXCEPT !.step = "send"]
<1>1. TypeOK /\ run[p] # NoRun /\ run[p] \in Run /\ run[p].step = "wait"
    BY RunType DEF TurnsInv, Wake, At, Steps
<1>2. r \in Run /\ r.step = "send" /\ r.todo = run[p].todo /\ r.got = run[p].got
    BY <1>1 DEF Run, Steps
<1>3. run[p].todo # {} /\ ~run[p].got
    BY <1>1 DEF TurnsInv, TurnsFit, Busy
<1>4. run' = [run EXCEPT ![p] = r]
    BY <1>1 DEF Wake, GoTo, TypeOK
<1>5. /\ UNCHANGED <<recipient, sentAt, noted, consent, clock, delivered>>
      /\ lapses' \in [Campaigns -> [Clients -> Nat]] /\ together' \in BOOLEAN
      /\ status' \in [Campaigns -> {"draft", "sending", "sent"}]
    BY <1>1 DEF Wake, TypeOK
<1> HIDE DEF r
<1> QED BY <1>2, <1>3, <1>4, <1>5, QuietRun

\* What a run did not record is counted with the client it was at.
LEMMA LapseType ==
    ASSUME TurnsInv, NEW p \in Runners, run[p] # NoRun, Lapse(p)
    PROVE  lapses' \in [Campaigns -> [Clients -> Nat]]
<1>1. TypeOK
    BY DEF TurnsInv
<1>2. CASE ~run[p].got
    BY <1>1, <1>2 DEF Lapse, TypeOK
<1>3. CASE run[p].got
    <2>1. run[p].campaign \in Campaigns /\ Current(p) \in Clients
        BY <1>1, <1>3, RunType DEF TurnsInv, TurnsFit, Busy
    <2>2. lapses' = [lapses EXCEPT ![run[p].campaign][Current(p)] = @ + 1]
        BY <1>3 DEF Lapse
    <2> QED BY <1>1, <2>1, <2>2 DEF TypeOK
<1> QED BY <1>2, <1>3

LEMMA TurnsEnd ==
    ASSUME TurnsInv, NEW p \in Runners, Finish(p) \/ Kill(p)
    PROVE  TurnsInv'
<1>1. TypeOK /\ run[p] # NoRun /\ run[p].campaign \in Campaigns
    BY RunType DEF TurnsInv, Finish, Kill, At, Steps
<1>2. lapses' \in [Campaigns -> [Clients -> Nat]]
    BY <1>1, LapseType DEF Finish, Kill, TypeOK
<1>3. /\ run' = [run EXCEPT ![p] = NoRun] /\ together' \in BOOLEAN
      /\ UNCHANGED <<recipient, sentAt, noted, consent, clock, delivered>>
      /\ status' \in [Campaigns -> {"draft", "sending", "sent"}]
    BY <1>1 DEF Finish, Kill, TypeOK
<1> QED BY <1>2, <1>3, QuietRun

LEMMA PickRun ==
    ASSUME TypeOK, NEW p \in Runners, Pick(p)
    PROVE  /\ run[p] # NoRun /\ run[p].step = "next" /\ run[p].todo # {}
           /\ \E r \in Run :
                 /\ Onward(p, r) /\ r.campaign = run[p].campaign /\ r.got = run[p].got
                 /\ r.todo \subseteq run[p].todo
                 /\ \/ /\ recipient[run[p].campaign][Current(p)] = "sent"
                       /\ r.step = "next"
                    \/ /\ recipient[run[p].campaign][Current(p)] # "sent"
                       /\ r.step = "send" /\ r.todo = run[p].todo
<1> DEFINE c == run[p].campaign
           d == Current(p)
<1>1. run[p] # NoRun /\ run[p] \in Run /\ run[p].step = "next" /\ run[p].todo # {}
    BY RunType DEF Pick, At, Steps
<1>2. CASE recipient[c][d] = "sent"
    <2> DEFINE r == [run[p] EXCEPT !.todo = run[p].todo \ {d}]
    <2>1. run' = [run EXCEPT ![p] = r]
        BY <1>1, <1>2 DEF Pick, TypeOK
    <2>2. r \in Run /\ r.campaign = c /\ r.got = run[p].got /\ r.todo \subseteq run[p].todo
          /\ r.step = "next"
        <3> HIDE DEF d
        <3> QED BY <1>1 DEF Run
    <2> HIDE DEF r
    <2>3. Onward(p, r)
        BY <2>1, OnwardFrom
    <2> QED BY <1>1, <1>2, <2>2, <2>3
<1>3. CASE recipient[c][d] # "sent"
    <2> DEFINE r == [run[p] EXCEPT !.step = "send"]
    <2>1. run' = [run EXCEPT ![p] = r]
        BY <1>1, <1>3 DEF Pick, TypeOK
    <2>2. r \in Run /\ r.campaign = c /\ r.got = run[p].got /\ r.todo = run[p].todo
          /\ r.step = "send"
        BY <1>1 DEF Run, Steps
    <2> HIDE DEF r
    <2>3. Onward(p, r)
        BY <2>1, OnwardFrom
    <2> QED BY <1>1, <1>3, <2>2, <2>3
<1> QED BY <1>2, <1>3

LEMMA TurnsPick ==
    ASSUME TurnsInv, NEW p \in Runners, Pick(p)
    PROVE  TurnsInv'
<1>0. TypeOK
    BY DEF TurnsInv
<1>1. /\ run[p] # NoRun /\ run[p].step = "next" /\ run[p].todo # {}
      /\ \E r \in Run : /\ Onward(p, r) /\ r.got = run[p].got
                        /\ \/ r.step = "next"
                           \/ r.step = "send" /\ r.todo = run[p].todo
    BY <1>0, PickRun
<1>2. PICK r \in Run : /\ Onward(p, r) /\ r.got = run[p].got
                       /\ \/ r.step = "next"
                          \/ r.step = "send" /\ r.todo = run[p].todo
    BY <1>1
<1>3. run[p].campaign \in Campaigns /\ Current(p) \in Clients /\ ~run[p].got
    BY <1>0, <1>1, RunType DEF TurnsInv, TurnsFit
<1>4. \A c \in Campaigns, d \in Clients :
          /\ recipient'[c][d] = "sent" <=> recipient[c][d] = "sent"
          /\ recipient'[c][d] \in {"none", "pending", "sent", "failed"}
    BY <1>0, <1>3 DEF Pick, TypeOK
<1>5. recipient' \in [Campaigns -> [Clients -> {"none", "pending", "sent", "failed"}]]
    BY <1>0, <1>3 DEF Pick, TypeOK
<1>6. UNCHANGED <<status, sentAt, noted, consent, clock, delivered, lapses, together>>
    BY DEF Pick
<1>7. TypeOK'
    <2>1. run' \in [Runners -> Run \cup {NoRun}]
        BY <1>0, <1>2 DEF TypeOK, Onward
    <2> QED BY <1>0, <1>4, <1>5, <1>6, <2>1 DEF TypeOK
<1>8. TurnsFit'
    BY <1>1, <1>2, <1>3 DEF TurnsInv, TurnsFit, Onward, Busy
<1>9. RecordsFollow'
    <2>1. HistoryTellsTruth'
        BY <1>4, <1>6 DEF TurnsInv, RecordsFollow, HistoryTellsTruth
    <2>2. ASSUME NEW q \in Runners, run'[q] # NoRun
          PROVE  LET c == run'[q].campaign
                     d == Min(run'[q].todo)
                 IN  /\ run'[q].step = "note" => delivered'[c][d] > 0
                     /\ run'[q].step = "save" /\ run'[q].ok => d \in noted'[c]
        <3>1. CASE q = p
            BY <1>2, <3>1 DEF Onward
        <3>2. CASE q # p
            BY <1>2, <1>6, <2>2, <3>2 DEF TurnsInv, RecordsFollow, Onward, Current
        <3> QED BY <3>1, <3>2
    <2> QED BY <2>1, <2>2 DEF RecordsFollow, Current
<1> QED BY <1>7, <1>8, <1>9 DEF TurnsInv

\* What the messenger's answer does to the run.
LEMMA SendRun ==
    ASSUME TurnsInv, NEW p \in Runners, Send(p)
    PROVE  /\ run[p] # NoRun /\ run[p].step = "send" /\ run[p].todo # {} /\ ~run[p].got
           /\ \E r \in Run, arrives \in BOOLEAN :
                 /\ Onward(p, r) /\ SameTurn(p, r) /\ r.got = arrives
                 /\ r.step \in {"wait", "note", "save"}
                 /\ arrives => r.step \in {"note", "save"}
                 /\ r.step = "note" => arrives
                 /\ r.step = "save" => ~r.ok
                 /\ delivered' = IF arrives
                                 THEN [delivered EXCEPT ![run[p].campaign][Current(p)] = @ + 1]
                                 ELSE delivered
<1>1. TypeOK /\ run[p] # NoRun /\ run[p] \in Run /\ run[p].step = "send" /\ run[p].todo # {}
      /\ ~run[p].got
    BY RunType DEF TurnsInv, TurnsFit, Send, At, Steps, Busy
<1>2. ASSUME NEW answer \in {"ok", "refused", "later", "timeout"}, NEW arrives \in BOOLEAN,
             answer = "ok" => arrives, arrives => answer \in {"ok", "timeout"},
             Answered(p, answer, arrives)
      PROVE  \E r \in Run :
                 /\ Onward(p, r) /\ SameTurn(p, r) /\ r.got = arrives
                 /\ r.step \in {"wait", "note", "save"}
                 /\ arrives => r.step \in {"note", "save"}
                 /\ r.step = "note" => arrives
                 /\ r.step = "save" => ~r.ok
    <2>1. CASE MayRetry(p, answer)
        <3> DEFINE r == [run[p] EXCEPT !.step = "wait", !.attempts = Counted(p),
                                       !.got = run[p].got \/ arrives]
        <3>1. run[p].attempts \in 0..MaxRetries /\ run[p].attempts + 1 \in 0..MaxRetries
            <4>1. run[p].attempts \in 0..MaxRetries /\ run[p].attempts < MaxRetries
                BY <1>1, <2>1 DEF Run, MayRetry
            <4> QED BY <4>1, CampaignsAssumption
        <3>2. run' = [run EXCEPT ![p] = r]
            BY <1>2, <2>1 DEF Answered
        <3>3. r \in Run /\ SameTurn(p, r) /\ r.got = arrives /\ r.step = "wait"
            BY <1>1, <3>1 DEF Run, Steps, SameTurn, Counted
        <3>4. ~arrives
            BY <1>2, <2>1 DEF MayRetry
        <3> HIDE DEF r
        <3>5. Onward(p, r)
            BY <1>1, <3>2, OnwardFrom
        <3> QED BY <3>3, <3>4, <3>5
    <2>2. CASE ~MayRetry(p, answer)
        <3> DEFINE r == [run[p] EXCEPT !.step = AfterSending(answer), !.ok = (answer = "ok"),
                                       !.got = run[p].got \/ arrives]
        <3>1. AfterSending(answer) \in {"note", "save"} /\ (AfterSending(answer) = "note" <=> answer = "ok")
            BY DEF AfterSending
        <3>2. run' = [run EXCEPT ![p] = r]
            BY <1>2, <2>2 DEF Answered
        <3>3. /\ r \in Run /\ SameTurn(p, r) /\ r.got = arrives /\ r.step = AfterSending(answer)
              /\ r.ok = (answer = "ok")
            BY <1>1, <3>1 DEF Run, Steps, SameTurn
        <3> HIDE DEF r
        <3>4. Onward(p, r)
            BY <1>1, <3>2, OnwardFrom
        <3> QED BY <1>2, <3>1, <3>3, <3>4
    <2> QED BY <2>1, <2>2
<1>3. PICK answer \in {"ok", "refused", "later", "timeout"}, arrives \in BOOLEAN :
          /\ answer = "ok" => arrives
          /\ arrives => answer \in {"ok", "timeout"}
          /\ Answered(p, answer, arrives)
    <2>1. CASE Answered(p, "ok", TRUE)
        BY <2>1
    <2>2. CASE \E answer \in {"refused", "later", "timeout"} : Answered(p, answer, FALSE)
        BY <2>2
    <2>3. CASE Answered(p, "timeout", TRUE)
        BY <2>3
    <2> QED BY <2>1, <2>2, <2>3 DEF Send
<1>4. delivered' = IF arrives
                   THEN [delivered EXCEPT ![run[p].campaign][Current(p)] = @ + 1]
                   ELSE delivered
    BY <1>3 DEF Answered
<1> QED BY <1>1, <1>2, <1>3, <1>4

LEMMA TurnsSend ==
    ASSUME TurnsInv, NEW p \in Runners, Send(p)
    PROVE  TurnsInv'
<1> DEFINE c == run[p].campaign
           d == Current(p)
<1>1. TypeOK /\ run[p] # NoRun /\ run[p].todo # {}
    BY SendRun DEF TurnsInv
<1>2. PICK r \in Run, arrives \in BOOLEAN :
          /\ Onward(p, r) /\ SameTurn(p, r) /\ r.got = arrives
          /\ r.step \in {"wait", "note", "save"}
          /\ arrives => r.step \in {"note", "save"}
          /\ r.step = "note" => arrives
          /\ r.step = "save" => ~r.ok
          /\ delivered' = IF arrives THEN [delivered EXCEPT ![c][d] = @ + 1] ELSE delivered
    BY SendRun
<1>3. c \in Campaigns /\ d \in Clients
    BY <1>1, RunType
<1>4. UNCHANGED <<status, recipient, sentAt, noted, consent, clock, lapses, together>>
    BY DEF Send, Answered
<1> HIDE DEF c, d
<1>5. /\ delivered' \in [Campaigns -> [Clients -> Nat]]
      /\ \A b \in Campaigns, e \in Clients : delivered'[b][e] >= delivered[b][e]
      /\ arrives => delivered'[c][d] > 0
    <2>1. CASE ~arrives
        BY <1>1, <1>2, <2>1 DEF TypeOK
    <2>2. CASE arrives
        BY <1>1, <1>2, <1>3, <2>2 DEF TypeOK
    <2> QED BY <2>1, <2>2
<1>6. TypeOK'
    <2>1. run' \in [Runners -> Run \cup {NoRun}]
        BY <1>1, <1>2 DEF TypeOK, Onward
    <2> QED BY <1>1, <1>4, <1>5, <2>1 DEF TypeOK
<1>7. TurnsFit'
    BY <1>1, <1>2 DEF TurnsInv, TurnsFit, Onward, SameTurn, Busy
<1>8. RecordsFollow'
    <2>1. HistoryTellsTruth'
        <3>1. \A b \in Campaigns, e \in Clients :
                  delivered[b][e] > 0 => delivered'[b][e] > 0
            BY <1>1, <1>5 DEF TypeOK
        <3> QED BY <1>4, <3>1 DEF TurnsInv, RecordsFollow, HistoryTellsTruth
    <2>2. ASSUME NEW q \in Runners, run'[q] # NoRun
          PROVE  LET b == run'[q].campaign
                     e == Min(run'[q].todo)
                 IN  /\ run'[q].step = "note" => delivered'[b][e] > 0
                     /\ run'[q].step = "save" /\ run'[q].ok => e \in noted'[b]
        <3>1. CASE q = p
            BY <1>2, <1>5, <3>1 DEF Onward, SameTurn, c, d, Current
        <3>2. CASE q # p
            <4>1. run'[q] = run[q]
                BY <1>2, <3>2 DEF Onward
            <4>2. ASSUME run[q].step = "note"
                  PROVE  delivered'[run[q].campaign][Current(q)] > 0
                <5>1. run[q] # NoRun /\ run[q].campaign \in Campaigns /\ Current(q) \in Clients
                    BY <1>1, <2>2, <4>1, <4>2, RunType DEF TurnsInv, TurnsFit, Busy
                <5>2. delivered[run[q].campaign][Current(q)] > 0
                    BY <4>2, <5>1 DEF TurnsInv, RecordsFollow
                <5> QED BY <1>1, <1>5, <5>1, <5>2 DEF TypeOK
            <4> QED BY <1>4, <2>2, <4>1, <4>2 DEF TurnsInv, RecordsFollow, Current
        <3> QED BY <3>1, <3>2
    <2> QED BY <2>1, <2>2 DEF RecordsFollow, Current
<1> QED BY <1>6, <1>7, <1>8 DEF TurnsInv

LEMMA TurnsNote ==
    ASSUME TurnsInv, NEW p \in Runners, Note(p)
    PROVE  TurnsInv'
<1> DEFINE c == run[p].campaign
           d == Current(p)
           r == [run[p] EXCEPT !.step = "save"]
<1>1. TypeOK /\ run[p] # NoRun /\ run[p] \in Run /\ run[p].step = "note"
    BY RunType DEF TurnsInv, Note, At, Steps
<1>2. c \in Campaigns /\ d \in Clients /\ run[p].todo # {}
    BY <1>1, RunType DEF TurnsInv, TurnsFit, Busy
<1>3. r \in Run /\ r.step = "save" /\ r.todo = run[p].todo /\ r.campaign = c
    BY <1>1 DEF Run, Steps
<1>4. run' = [run EXCEPT ![p] = r]
    BY <1>1 DEF Note, GoTo, TypeOK
<1> HIDE DEF r
<1>5. Onward(p, r)
    BY <1>1, <1>4, OnwardFrom
<1>6. UNCHANGED <<status, recipient, sentAt, consent, clock, delivered, lapses, together>>
    BY DEF Note
<1>7. noted' = [noted EXCEPT ![c] = @ \cup {d}] /\ delivered[c][d] > 0
    BY <1>1 DEF Note, TurnsInv, RecordsFollow
<1> HIDE DEF c, d
<1>8. /\ noted' \in [Campaigns -> SUBSET Clients] /\ d \in noted'[c]
      /\ \A b \in Campaigns : noted[b] \subseteq noted'[b]
      /\ \A b \in Campaigns, e \in Clients : e \in noted'[b] => e \in noted[b] \/ (b = c /\ e = d)
    BY <1>1, <1>2, <1>7 DEF TypeOK
<1>9. TypeOK'
    <2>1. run' \in [Runners -> Run \cup {NoRun}]
        BY <1>1, <1>3, <1>5 DEF TypeOK, Onward
    <2> QED BY <1>1, <1>6, <1>8, <2>1 DEF TypeOK
<1>10. TurnsFit'
    BY <1>1, <1>2, <1>3, <1>5 DEF TurnsInv, TurnsFit, Onward, Busy
<1>11. RecordsFollow'
    <2>1. HistoryTellsTruth'
        BY <1>6, <1>7, <1>8 DEF TurnsInv, RecordsFollow, HistoryTellsTruth
    <2>2. ASSUME NEW q \in Runners, run'[q] # NoRun
          PROVE  LET b == run'[q].campaign
                     e == Min(run'[q].todo)
                 IN  /\ run'[q].step = "note" => delivered'[b][e] > 0
                     /\ run'[q].step = "save" /\ run'[q].ok => e \in noted'[b]
        <3>1. CASE q = p
            BY <1>3, <1>5, <1>8, <3>1 DEF Onward, c, d, Current
        <3>2. CASE q # p
            <4>1. run'[q] = run[q] /\ run[q].campaign \in Campaigns
                BY <1>1, <1>5, <2>2, <3>2, RunType DEF Onward
            <4> QED BY <1>6, <1>8, <2>2, <4>1 DEF TurnsInv, RecordsFollow, Current
        <3> QED BY <3>1, <3>2
    <2> QED BY <2>1, <2>2 DEF RecordsFollow, Current
<1> QED BY <1>9, <1>10, <1>11 DEF TurnsInv

LEMMA SaveRun ==
    ASSUME TurnsInv, NEW p \in Runners, Save(p)
    PROVE  /\ run[p] # NoRun /\ run[p].step = "save" /\ run[p].todo # {}
           /\ run[p].campaign \in Campaigns /\ Current(p) \in run[p].todo /\ Current(p) \in Clients
           /\ \E r \in Run : /\ Onward(p, r) /\ r.step = "next" /\ ~r.got
                             /\ r.campaign = run[p].campaign
                             /\ r.todo = run[p].todo \ {Current(p)}
           /\ recipient' \in [Campaigns -> [Clients -> {"none", "pending", "sent", "failed"}]]
           /\ recipient'[run[p].campaign][Current(p)] = IF run[p].ok THEN "sent" ELSE "failed"
           /\ run[p].ok => sentAt'[run[p].campaign][Current(p)] = clock
           /\ sentAt' \in [Campaigns -> [Clients -> 0..MaxClock \cup {Never}]]
           /\ \A b \in Campaigns, e \in Clients : b # run[p].campaign \/ e # Current(p) =>
                 recipient'[b][e] = recipient[b][e] /\ sentAt'[b][e] = sentAt[b][e]
<1> DEFINE c == run[p].campaign
           d == Current(p)
           r == NextOf(c, run[p].todo \ {d})
<1>1. TypeOK /\ run[p] # NoRun /\ run[p].step = "save"
    BY RunType DEF TurnsInv, Save, At, Steps
<1>2. c \in Campaigns /\ d \in Clients /\ d \in run[p].todo /\ run[p].todo # {}
      /\ run[p].todo \in SUBSET Clients /\ run[p].ok \in BOOLEAN
    BY <1>1, RunType DEF TurnsInv, TurnsFit, Busy
<1>3. r \in Run /\ r.step = "next" /\ ~r.got /\ r.campaign = c /\ r.todo = run[p].todo \ {d}
    BY <1>2, NextOfType
<1>4. /\ recipient' = [recipient EXCEPT ![c][d] = IF run[p].ok THEN "sent" ELSE "failed"]
      /\ sentAt' = [sentAt EXCEPT ![c][d] = SentTime(p, @)]
      /\ run' = [run EXCEPT ![p] = r]
    BY DEF Save
<1> HIDE DEF r
<1>5. Onward(p, r)
    BY <1>1, <1>4, OnwardFrom
<1>6. sentAt' = [sentAt EXCEPT ![c][d] = IF run[p].ok THEN clock ELSE sentAt[c][d]]
    BY <1>1, <1>2, <1>4 DEF SentTime, TypeOK
<1> HIDE DEF c, d
<1>7. /\ recipient' \in [Campaigns -> [Clients -> {"none", "pending", "sent", "failed"}]]
      /\ recipient'[c][d] = IF run[p].ok THEN "sent" ELSE "failed"
      /\ \A b \in Campaigns, e \in Clients : b # c \/ e # d => recipient'[b][e] = recipient[b][e]
    BY <1>1, <1>2, <1>4 DEF TypeOK
<1>8. /\ sentAt' \in [Campaigns -> [Clients -> 0..MaxClock \cup {Never}]]
      /\ run[p].ok => sentAt'[c][d] = clock
      /\ \A b \in Campaigns, e \in Clients : b # c \/ e # d => sentAt'[b][e] = sentAt[b][e]
    BY <1>1, <1>2, <1>6 DEF TypeOK
<1> QED BY <1>1, <1>2, <1>3, <1>5, <1>7, <1>8 DEF c, d

LEMMA TurnsSave ==
    ASSUME TurnsInv, NEW p \in Runners, Save(p)
    PROVE  TurnsInv'
<1>0. TypeOK
    BY DEF TurnsInv
<1>1. PICK r \in Run : Onward(p, r) /\ r.step = "next" /\ ~r.got
    BY SaveRun
<1>2. lapses' \in [Campaigns -> [Clients -> Nat]]
    BY <1>0, SaveRun, LapseType DEF Save, TypeOK
<1>3. UNCHANGED <<status, noted, consent, clock, delivered, together>>
    BY DEF Save
<1>4. run' \in [Runners -> Run \cup {NoRun}]
    BY <1>0, <1>1 DEF TypeOK, Onward
<1>5. \A b \in Campaigns, e \in Clients : recipient'[b][e] = "sent" => sentAt'[b][e] # Never
    <2>1. clock # Never
        BY <1>0 DEF TypeOK, Never
    <2>2. ASSUME NEW b \in Campaigns, NEW e \in Clients, recipient'[b][e] = "sent"
          PROVE  sentAt'[b][e] # Never
        <3>1. CASE b = run[p].campaign /\ e = Current(p)
            <4>1. run[p].ok
                BY <2>2, <3>1, SaveRun
            <4>2. sentAt'[b][e] = clock
                BY <3>1, <4>1, SaveRun
            <4> QED BY <2>1, <4>2
        <3>2. CASE b # run[p].campaign \/ e # Current(p)
            <4>1. recipient'[b][e] = recipient[b][e] /\ sentAt'[b][e] = sentAt[b][e]
                BY <3>2, SaveRun
            <4> QED BY <1>0, <2>2, <4>1 DEF TypeOK
        <3> QED BY <3>1, <3>2
    <2> QED BY <2>2
<1>6. TypeOK'
    BY <1>0, <1>2, <1>3, <1>4, <1>5, SaveRun DEF TypeOK
<1>7. TurnsFit'
    BY <1>1 DEF TurnsInv, TurnsFit, Onward, Busy
<1>8. RecordsFollow'
    <2>1. HistoryTellsTruth'
        BY <1>3, SaveRun DEF TurnsInv, RecordsFollow, HistoryTellsTruth
    <2>2. ASSUME NEW q \in Runners, run'[q] # NoRun
          PROVE  LET b == run'[q].campaign
                     e == Min(run'[q].todo)
                 IN  /\ run'[q].step = "note" => delivered'[b][e] > 0
                     /\ run'[q].step = "save" /\ run'[q].ok => e \in noted'[b]
        <3>1. CASE q = p
            BY <1>1, <3>1 DEF Onward
        <3>2. CASE q # p
            BY <1>1, <1>3, <2>2, <3>2 DEF TurnsInv, RecordsFollow, Onward, Current
        <3> QED BY <3>1, <3>2
    <2> QED BY <2>1, <2>2 DEF RecordsFollow, Current
<1> QED BY <1>6, <1>7, <1>8 DEF TurnsInv

LEMMA TurnsRest ==
    ASSUME TurnsInv,
           (\E d \in Clients : Subscribe(d) \/ Unsubscribe(d)) \/ Tick \/ UNCHANGED vars
    PROVE  TurnsInv'
<1>1. UNCHANGED <<status, recipient, sentAt, noted, run, delivered, lapses, together>>
    BY DEF Subscribe, Unsubscribe, Tick, vars
<1>2. consent' \subseteq Clients /\ clock' \in 0..MaxClock
    <2>1. consent \subseteq Clients /\ clock \in 0..MaxClock /\ MaxClock \in Nat
        BY CampaignsAssumption DEF TurnsInv, TypeOK
    <2>2. clock' \in 0..MaxClock
        BY <2>1 DEF Subscribe, Unsubscribe, Tick, vars
    <2> QED BY <2>1, <2>2 DEF Subscribe, Unsubscribe, Tick, vars
<1>3. TypeOK'
    BY <1>1, <1>2 DEF TurnsInv, TypeOK
<1>4. TurnsFit' /\ RecordsFollow'
    BY <1>1 DEF TurnsInv, TurnsFit, RecordsFollow, HistoryTellsTruth, Current
<1> QED BY <1>3, <1>4 DEF TurnsInv

LEMMA TurnsInit == Init => TurnsInv
<1> SUFFICES ASSUME Init PROVE TurnsInv
    OBVIOUS
<1>1. TypeOK
    <2>1. 0 \in 0..MaxClock
        BY CampaignsAssumption
    <2>2. run \in [Runners -> Run \cup {NoRun}]
        BY DEF Init
    <2>3. status \in [Campaigns -> {"draft", "sending", "sent"}]
          /\ noted \in [Campaigns -> SUBSET Clients] /\ consent \subseteq Clients
          /\ together \in BOOLEAN
        BY DEF Init
    <2>4. recipient \in [Campaigns -> [Clients -> {"none", "pending", "sent", "failed"}]]
          /\ \A c \in Campaigns, d \in Clients : recipient[c][d] = "none"
        BY DEF Init
    <2>5. sentAt \in [Campaigns -> [Clients -> 0..MaxClock \cup {Never}]]
        BY DEF Init
    <2>6. delivered \in [Campaigns -> [Clients -> Nat]] /\ lapses \in [Campaigns -> [Clients -> Nat]]
        BY DEF Init
    <2>7. clock \in 0..MaxClock
        BY <2>1 DEF Init
    <2> QED BY <2>2, <2>3, <2>4, <2>5, <2>6, <2>7 DEF TypeOK
<1>2. TurnsFit /\ RecordsFollow
    BY DEF Init, TurnsFit, RecordsFollow, HistoryTellsTruth
<1> QED BY <1>1, <1>2 DEF TurnsInv

LEMMA TurnsStep == TurnsInv /\ [Next]_vars => TurnsInv'
BY TurnsStart, TurnsPick, TurnsSend, TurnsWake, TurnsNote, TurnsSave, TurnsEnd, TurnsRest
   DEF Next, Step

-----------------------------------------------------------------------------
(* While the runs of a campaign do not overlap, a client gets it once *)

Alone ==
    \A p, q \in Runners :
       run[p] # NoRun /\ run[q] # NoRun /\ run[p].campaign = run[q].campaign => p = q

\* A turn is only begun for a client who is not recorded as sent.
NotYetSent ==
    \A p \in Runners :
       run[p] # NoRun /\ run[p].step \in Busy =>
          recipient[run[p].campaign][Current(p)] # "sent"

\* A run has had a message delivered to d, and not yet said so.
Unsaid(c, d) ==
    \E p \in Runners :
       run[p] # NoRun /\ run[p].campaign = c /\ Current(p) = d /\ run[p].got

\* What is neither recorded nor about to be was a lapse.
DeliveriesCounted ==
    \A c \in Campaigns, d \in Clients :
       /\ delivered[c][d] <= 1 + lapses[c][d]
       /\ recipient[c][d] # "sent" /\ ~Unsaid(c, d) => delivered[c][d] <= lapses[c][d]

OnceInv == Alone /\ NotYetSent /\ DeliveriesCounted

LEMMA AloneStep ==
    ASSUME Alone, NEW p \in Runners, NEW r, Onward(p, r),
           r # NoRun =>
              \/ run[p] # NoRun /\ run[p].campaign = r.campaign
              \/ \A q \in Runners : run[q] # NoRun => run[q].campaign # r.campaign
    PROVE  Alone'
<1> SUFFICES ASSUME NEW q \in Runners \ {p}, run'[p] # NoRun, run'[q] # NoRun,
                    run'[p].campaign = run'[q].campaign
             PROVE  FALSE
    <2>1. \A q \in Runners \ {p} : run'[q] = run[q]
        BY DEF Onward
    <2> QED BY <2>1 DEF Alone
<1>1. run'[p] = r /\ run'[q] = run[q]
    BY DEF Onward
<1> QED BY <1>1 DEF Alone

LEMMA NotYetSentStep ==
    ASSUME TurnsInv, Alone, NotYetSent, NEW p \in Runners, NEW r, Onward(p, r),
           r # NoRun /\ r.step \in Busy => recipient'[r.campaign][Min(r.todo)] # "sent",
           \A b \in Campaigns, e \in Clients :
              recipient'[b][e] = "sent" =>
                 \/ recipient[b][e] = "sent"
                 \/ run[p] # NoRun /\ run[p].campaign = b
    PROVE  NotYetSent'
<1> SUFFICES ASSUME NEW q \in Runners, run'[q] # NoRun, run'[q].step \in Busy
             PROVE  recipient'[run'[q].campaign][Min(run'[q].todo)] # "sent"
    BY DEF NotYetSent, Current, Busy
<1>1. CASE q = p
    BY <1>1 DEF Onward
<1>2. CASE q # p
    <2>1. run'[q] = run[q]
        BY <1>2 DEF Onward
    <2>2. run[q].campaign \in Campaigns /\ Current(q) \in Clients
        BY <2>1, RunType DEF TurnsInv, TurnsFit
    <2>3. recipient[run[q].campaign][Current(q)] # "sent"
        BY <2>1 DEF NotYetSent
    <2>4. ~(run[p] # NoRun /\ run[p].campaign = run[q].campaign)
        BY <1>2, <2>1 DEF Alone
    <2>5. Min(run'[q].todo) = Current(q)
        BY <2>1 DEF Current
    <2> QED BY <2>1, <2>2, <2>3, <2>4, <2>5
<1> QED BY <1>1, <1>2

\* A step between deliveries: the run it moves has nothing unsaid before or after.
LEMMA OnceQuiet ==
    ASSUME TurnsInv, OnceInv, NEW p \in Runners, NEW r, Onward(p, r),
           r # NoRun =>
              \/ run[p] # NoRun /\ run[p].campaign = r.campaign
              \/ \A q \in Runners : run[q] # NoRun => run[q].campaign # r.campaign,
           r # NoRun /\ r.step \in Busy => recipient[r.campaign][Min(r.todo)] # "sent",
           run[p] # NoRun => ~run[p].got, r # NoRun => ~r.got,
           \A b \in Campaigns, e \in Clients :
              recipient'[b][e] = "sent" <=> recipient[b][e] = "sent",
           r # NoRun /\ r.step \in Busy =>
              r.campaign \in Campaigns /\ Min(r.todo) \in Clients,
           UNCHANGED <<delivered, lapses>>
    PROVE  OnceInv'
<1>1. Alone'
    BY AloneStep DEF OnceInv
<1>2. NotYetSent'
    BY NotYetSentStep DEF OnceInv
<1>3. \A c, d : Unsaid(c, d) => Unsaid(c, d)'
    <2> SUFFICES ASSUME NEW c, NEW d, NEW q \in Runners,
                        run[q] # NoRun, run[q].campaign = c, Current(q) = d, run[q].got
                 PROVE  Unsaid(c, d)'
        BY DEF Unsaid
    <2>1. q # p /\ run'[q] = run[q] /\ Current(q)' = Current(q)
        BY DEF Onward, Current
    <2> QED BY <2>1 DEF Unsaid
<1>4. DeliveriesCounted'
    BY <1>3 DEF OnceInv, DeliveriesCounted
<1> QED BY <1>1, <1>2, <1>4 DEF OnceInv

LEMMA OnceBetween ==
    ASSUME ~Overlapping, TurnsInv, OnceInv, NEW p \in Runners,
           (\E c \in Campaigns : Start(p, c)) \/ Pick(p) \/ Wake(p) \/ Finish(p)
    PROVE  OnceInv'
<1>0. TypeOK
    BY DEF TurnsInv
<1>1. ASSUME NEW c \in Campaigns, Start(p, c)
      PROVE  OnceInv'
    <2>1. PICK r : r = NextOf(c, Audience)
        OBVIOUS
    <2>2. run' = [run EXCEPT ![p] = r] /\ UNCHANGED <<recipient, delivered, lapses>>
          /\ run[p] = NoRun /\ \A q \in Runners : run[q] # NoRun => run[q].campaign # c
        BY <1>1, <2>1 DEF Start
    <2>3. r.campaign = c /\ r.step = "next" /\ ~r.got
        BY <2>1 DEF NextOf
    <2>4. Onward(p, r)
        BY <1>0, <2>2, OnwardFrom
    <2> QED BY <2>2, <2>3, <2>4, OnceQuiet DEF Busy
<1>2. CASE Pick(p)
    <2>1. /\ run[p] # NoRun /\ run[p].step = "next" /\ run[p].todo # {}
          /\ \E r \in Run :
                /\ Onward(p, r) /\ r.campaign = run[p].campaign /\ r.got = run[p].got
                /\ \/ r.step = "next"
                   \/ /\ recipient[run[p].campaign][Current(p)] # "sent"
                      /\ r.step = "send" /\ r.todo = run[p].todo
        BY <1>0, <1>2, PickRun
    <2>2. PICK r \in Run :
              /\ Onward(p, r) /\ r.campaign = run[p].campaign /\ r.got = run[p].got
              /\ \/ r.step = "next"
                 \/ /\ recipient[run[p].campaign][Current(p)] # "sent"
                    /\ r.step = "send" /\ r.todo = run[p].todo
        BY <2>1
    <2>3. run[p].campaign \in Campaigns /\ Current(p) \in Clients /\ ~run[p].got
        BY <1>0, <2>1, RunType DEF TurnsInv, TurnsFit
    <2>4. UNCHANGED <<delivered, lapses>>
        BY <1>2 DEF Pick
    <2>5. \A b \in Campaigns, e \in Clients :
              recipient'[b][e] = "sent" <=> recipient[b][e] = "sent"
        BY <1>0, <1>2, <2>3 DEF Pick, TypeOK
    <2>6. r.step \in Busy => Min(r.todo) = Current(p) /\ recipient[r.campaign][Min(r.todo)] # "sent"
        BY <2>2 DEF Busy, Current
    <2> QED BY <2>1, <2>2, <2>3, <2>4, <2>5, <2>6, OnceQuiet
<1>3. CASE Wake(p)
    <2>1. run[p] # NoRun /\ run[p] \in Run /\ run[p].step = "wait"
        BY <1>0, <1>3, RunType DEF Wake, At, Steps
    <2>2. ~run[p].got /\ run[p].campaign \in Campaigns /\ Current(p) \in Clients
        BY <1>0, <2>1, RunType DEF TurnsInv, TurnsFit, Busy
    <2>3. PICK r : r = [run[p] EXCEPT !.step = "send"]
        OBVIOUS
    <2>4. r.campaign = run[p].campaign /\ r.got = run[p].got /\ Min(r.todo) = Current(p)
        BY <2>1, <2>3 DEF Run, Current
    <2>5. run' = [run EXCEPT ![p] = r]
        BY <1>0, <1>3, <2>3 DEF Wake, GoTo, TypeOK
    <2>6. Onward(p, r) /\ UNCHANGED <<recipient, delivered, lapses>>
        BY <1>0, <1>3, <2>5, OnwardFrom DEF Wake
    <2>7. recipient[r.campaign][Min(r.todo)] # "sent"
        BY <2>1, <2>4 DEF OnceInv, NotYetSent, Busy
    <2> QED BY <2>1, <2>2, <2>4, <2>6, <2>7, OnceQuiet
<1>4. CASE Finish(p)
    <2>1. run[p] # NoRun /\ ~run[p].got
        BY <1>0, <1>4, RunType DEF Finish, At, Steps, TurnsInv, TurnsFit
    <2>2. Onward(p, NoRun) /\ UNCHANGED <<recipient, delivered, lapses>>
        BY <1>0, <1>4, OnwardFrom DEF Finish
    <2> QED BY <2>1, <2>2, OnceQuiet
<1> QED BY <1>1, <1>2, <1>3, <1>4

LEMMA OnceSend ==
    ASSUME TurnsInv, OnceInv, NEW p \in Runners, Send(p)
    PROVE  OnceInv'
<1> DEFINE c == run[p].campaign
           d == Current(p)
<1>1. TypeOK /\ run[p] # NoRun /\ run[p].step = "send" /\ run[p].todo # {} /\ ~run[p].got
    BY SendRun DEF TurnsInv
<1>2. PICK r \in Run, arrives \in BOOLEAN :
          /\ Onward(p, r) /\ SameTurn(p, r) /\ r.got = arrives
          /\ delivered' = IF arrives THEN [delivered EXCEPT ![c][d] = @ + 1] ELSE delivered
    BY SendRun
<1>3. c \in Campaigns /\ d \in Clients
    BY <1>1, RunType
<1>4. UNCHANGED <<recipient, lapses>>
    BY DEF Send, Answered
<1>5. recipient[c][d] # "sent"
    BY <1>1 DEF OnceInv, NotYetSent, Busy
<1>6. r.campaign = c /\ Min(r.todo) = d
    BY <1>2 DEF SameTurn, Current
<1>7. Alone'
    BY <1>1, <1>2, <1>6, AloneStep DEF OnceInv
<1>8. NotYetSent'
    BY <1>2, <1>4, <1>5, <1>6, NotYetSentStep DEF OnceInv
<1>9. ~Unsaid(c, d)
    BY <1>1 DEF OnceInv, Alone, Unsaid
<1>10. \A b, e : arrives /\ b = c /\ e = d => Unsaid(b, e)'
    BY <1>2, <1>6, RunIsNoNoRun DEF Onward, Unsaid, Current
<1>11. \A b, e : Unsaid(b, e) => Unsaid(b, e)'
    <2> SUFFICES ASSUME NEW b, NEW e, NEW q \in Runners,
                        run[q] # NoRun, run[q].campaign = b, Current(q) = e, run[q].got
                 PROVE  Unsaid(b, e)'
        BY DEF Unsaid
    <2>1. q # p /\ run'[q] = run[q] /\ Current(q)' = Current(q)
        BY <1>1, <1>2 DEF Onward, Current
    <2> QED BY <2>1 DEF Unsaid
<1> HIDE DEF c, d
<1>12. DeliveriesCounted'
    <2>1. CASE ~arrives
        BY <1>2, <1>4, <1>11, <2>1 DEF OnceInv, DeliveriesCounted
    <2>2. CASE arrives
        <3>1. \A b \in Campaigns, e \in Clients : delivered[b][e] \in Nat /\ lapses[b][e] \in Nat
            BY <1>1 DEF TypeOK
        <3>2. /\ delivered'[c][d] = delivered[c][d] + 1
              /\ \A b \in Campaigns, e \in Clients :
                    b # c \/ e # d => delivered'[b][e] = delivered[b][e]
            BY <1>1, <1>2, <1>3, <2>2 DEF TypeOK
        <3>3. delivered[c][d] <= lapses[c][d]
            BY <1>3, <1>5, <1>9 DEF OnceInv, DeliveriesCounted
        <3>4. ASSUME NEW b \in Campaigns, NEW e \in Clients
              PROVE  /\ delivered'[b][e] <= 1 + lapses'[b][e]
                     /\ recipient'[b][e] # "sent" /\ ~Unsaid(b, e)' => delivered'[b][e] <= lapses'[b][e]
            <4>1. CASE b = c /\ e = d
                BY <1>4, <1>10, <2>2, <3>1, <3>2, <3>3, <4>1
            <4>2. CASE b # c \/ e # d
                BY <1>4, <1>11, <3>2, <4>2 DEF OnceInv, DeliveriesCounted
            <4> QED BY <4>1, <4>2
        <3> QED BY <3>4 DEF DeliveriesCounted
    <2> QED BY <2>1, <2>2
<1> QED BY <1>7, <1>8, <1>12 DEF OnceInv

LEMMA OnceNote ==
    ASSUME TurnsInv, OnceInv, NEW p \in Runners, Note(p)
    PROVE  OnceInv'
<1>1. TypeOK /\ run[p] # NoRun /\ run[p] \in Run /\ run[p].step = "note"
    BY RunType DEF TurnsInv, Note, At, Steps
<1>2. PICK r : r = [run[p] EXCEPT !.step = "save"]
    OBVIOUS
<1>3. r.campaign = run[p].campaign /\ r.got = run[p].got /\ r.todo = run[p].todo
      /\ Min(r.todo) = Current(p) /\ r # NoRun
    <2>1. r \in Run
        BY <1>1, <1>2 DEF Run, Steps
    <2> QED BY <1>1, <1>2, <2>1, RunIsNoNoRun DEF Run, Current
<1>4. run' = [run EXCEPT ![p] = r]
    BY <1>1, <1>2 DEF Note, GoTo, TypeOK
<1>5. Onward(p, r) /\ UNCHANGED <<recipient, delivered, lapses>>
    BY <1>1, <1>4, OnwardFrom DEF Note
<1>6. recipient[run[p].campaign][Current(p)] # "sent"
    BY <1>1 DEF OnceInv, NotYetSent, Busy
<1>7. Alone'
    BY <1>1, <1>3, <1>5, AloneStep DEF OnceInv
<1>8. NotYetSent'
    BY <1>3, <1>5, <1>6, NotYetSentStep DEF OnceInv
<1>9. \A b, e : Unsaid(b, e) => Unsaid(b, e)'
    <2> SUFFICES ASSUME NEW b, NEW e, NEW q \in Runners,
                        run[q] # NoRun, run[q].campaign = b, Current(q) = e, run[q].got
                 PROVE  Unsaid(b, e)'
        BY DEF Unsaid
    <2>1. CASE q = p
        BY <1>3, <1>5, <2>1 DEF Onward, Unsaid, Current
    <2>2. CASE q # p
        BY <1>5, <2>2 DEF Onward, Unsaid, Current
    <2> QED BY <2>1, <2>2
<1>10. DeliveriesCounted'
    BY <1>5, <1>9 DEF OnceInv, DeliveriesCounted
<1> QED BY <1>7, <1>8, <1>10 DEF OnceInv

\* The end of a turn, recorded or not: what was delivered and is not recorded as
\* sent has become a lapse.
LEMMA OnceTurnOver ==
    ASSUME TurnsInv, OnceInv, NEW p \in Runners, run[p] # NoRun, NEW r, Onward(p, r),
           r # NoRun => r.campaign = run[p].campaign /\ r.step = "next",
           UNCHANGED delivered,
           \A b \in Campaigns, e \in Clients :
              \/ recipient'[b][e] = "sent" <=> recipient[b][e] = "sent"
              \/ b = run[p].campaign /\ e = Current(p) /\ run[p].step \in Busy,
           LET c == run[p].campaign
               d == Current(p)
           IN  recipient'[c][d] # "sent" => Lapse(p),
           UNCHANGED lapses \/ Lapse(p)
    PROVE  OnceInv'
<1> DEFINE c == run[p].campaign
           d == Current(p)
<1>0. TypeOK
    BY DEF TurnsInv
<1>1. Alone'
    BY AloneStep DEF OnceInv
<1>2. NotYetSent'
    BY NotYetSentStep DEF OnceInv, Busy
<1>3. run[p].got => c \in Campaigns /\ d \in Clients
    BY <1>0, RunType DEF TurnsInv, TurnsFit, Busy
<1>4. /\ \A b \in Campaigns, e \in Clients : lapses'[b][e] >= lapses[b][e]
      /\ Lapse(p) /\ run[p].got => lapses'[c][d] = lapses[c][d] + 1
    <2>1. CASE UNCHANGED lapses /\ ~Lapse(p)
        BY <1>0, <2>1 DEF TypeOK
    <2>2. CASE Lapse(p) /\ run[p].got
        <3>1. lapses' = [lapses EXCEPT ![c][d] = @ + 1]
            BY <2>2 DEF Lapse
        <3> HIDE DEF c, d
        <3> QED BY <1>0, <1>3, <2>2, <3>1 DEF TypeOK
    <2>3. CASE Lapse(p) /\ ~run[p].got
        BY <1>0, <2>3 DEF Lapse, TypeOK
    <2> QED BY <2>1, <2>2, <2>3
<1>5. \A b, e : Unsaid(b, e) => Unsaid(b, e)' \/ (b = c /\ e = d /\ run[p].got)
    <2> SUFFICES ASSUME NEW b, NEW e, NEW q \in Runners,
                        run[q] # NoRun, run[q].campaign = b, Current(q) = e, run[q].got,
                        q # p
                 PROVE  Unsaid(b, e)'
        BY DEF Unsaid
    <2> QED BY DEF Onward, Unsaid, Current
<1>6. recipient'[c][d] # "sent" => Lapse(p)
    OBVIOUS
<1>7. run[p].step \in Busy => recipient[c][d] # "sent"
    BY DEF OnceInv, NotYetSent
<1>8. run[p].got => run[p].step \in Busy
    BY DEF TurnsInv, TurnsFit, Busy
<1>9. \A b \in Campaigns, e \in Clients :
          \/ recipient'[b][e] = "sent" <=> recipient[b][e] = "sent"
          \/ b = c /\ e = d /\ run[p].step \in Busy
    OBVIOUS
<1>10. \A b \in Campaigns, e \in Clients :
           /\ delivered[b][e] \in Nat /\ lapses[b][e] \in Nat
           /\ lapses'[b][e] \in Int
    <2>1. lapses' \in [Campaigns -> [Clients -> Nat]]
        BY <1>0, LapseType DEF TypeOK
    <2> QED BY <1>0, <2>1 DEF TypeOK
<1> HIDE DEF c, d
<1>11. ASSUME NEW b \in Campaigns, NEW e \in Clients
       PROVE  /\ delivered'[b][e] <= 1 + lapses'[b][e]
              /\ recipient'[b][e] # "sent" /\ ~Unsaid(b, e)' => delivered'[b][e] <= lapses'[b][e]
    <2>1. delivered[b][e] <= 1 + lapses[b][e]
          /\ (recipient[b][e] # "sent" /\ ~Unsaid(b, e) => delivered[b][e] <= lapses[b][e])
        BY DEF OnceInv, DeliveriesCounted
    <2>2. delivered'[b][e] <= 1 + lapses'[b][e]
        BY <1>4, <1>10, <2>1
    <2>3. ASSUME recipient'[b][e] # "sent", ~Unsaid(b, e)'
          PROVE  delivered'[b][e] <= lapses'[b][e]
        <3>1. recipient[b][e] # "sent"
            BY <1>7, <1>9, <2>3
        <3>2. CASE b = c /\ e = d /\ run[p].got
            BY <1>4, <1>6, <1>10, <2>1, <2>3, <3>2
        <3>3. CASE ~(b = c /\ e = d /\ run[p].got)
            BY <1>4, <1>5, <1>10, <2>1, <2>3, <3>1, <3>3
        <3> QED BY <3>2, <3>3
    <2> QED BY <2>2, <2>3
<1>12. DeliveriesCounted'
    BY <1>11 DEF DeliveriesCounted
<1> QED BY <1>1, <1>2, <1>12 DEF OnceInv

LEMMA OnceSave ==
    ASSUME TurnsInv, OnceInv, NEW p \in Runners, Save(p)
    PROVE  OnceInv'
<1>1. run[p] # NoRun /\ run[p].step \in Busy
    BY SaveRun DEF Busy
<1>2. PICK r \in Run : Onward(p, r) /\ r.step = "next" /\ r.campaign = run[p].campaign
    BY SaveRun
<1>3. UNCHANGED delivered
    BY DEF Save
<1>4. \A b \in Campaigns, e \in Clients :
          \/ recipient'[b][e] = "sent" <=> recipient[b][e] = "sent"
          \/ b = run[p].campaign /\ e = Current(p)
    BY SaveRun
<1>5. recipient'[run[p].campaign][Current(p)] # "sent" => ~run[p].ok
    BY SaveRun
<1>6. (run[p].ok => UNCHANGED lapses) /\ (~run[p].ok => Lapse(p))
    BY DEF Save
<1> QED BY <1>1, <1>2, <1>3, <1>4, <1>5, <1>6, OnceTurnOver

LEMMA OnceKill ==
    ASSUME TurnsInv, OnceInv, NEW p \in Runners, Kill(p)
    PROVE  OnceInv'
<1>1. run[p] # NoRun /\ Onward(p, NoRun) /\ Lapse(p) /\ UNCHANGED <<recipient, delivered>>
    BY OnwardFrom DEF Kill, TurnsInv
<1> QED BY <1>1, OnceTurnOver

LEMMA OnceRest ==
    ASSUME OnceInv, (\E d \in Clients : Subscribe(d) \/ Unsubscribe(d)) \/ Tick \/ UNCHANGED vars
    PROVE  OnceInv'
<1>1. UNCHANGED <<recipient, run, delivered, lapses>>
    BY DEF Subscribe, Unsubscribe, Tick, vars
<1> QED BY <1>1 DEF OnceInv, Alone, NotYetSent, DeliveriesCounted, Unsaid, Current

LEMMA OnceInit == Init => OnceInv
<1> SUFFICES ASSUME Init PROVE OnceInv
    OBVIOUS
<1>1. Alone /\ NotYetSent
    BY DEF Init, Alone, NotYetSent
<1>2. \A c \in Campaigns, d \in Clients : delivered[c][d] = 0 /\ lapses[c][d] = 0
    BY DEF Init
<1>3. DeliveriesCounted
    BY <1>2 DEF DeliveriesCounted
<1> QED BY <1>1, <1>3 DEF OnceInv

LEMMA OnceStep == ~Overlapping /\ TurnsInv /\ OnceInv /\ [Next]_vars => OnceInv'
BY OnceBetween, OnceSend, OnceNote, OnceSave, OnceKill, OnceRest DEF Next, Step

\* However often a campaign is run again, whatever the messenger answers and
\* wherever a run is killed: no client gets it twice but for a delivery nobody
\* recorded, and the history tells no lie.
THEOREM CampaignsSendOnce == Spec => []SendsHold
<1>1. CASE Overlapping
    <2>1. TurnsInv => SendsHold
        BY <1>1 DEF TurnsInv, RecordsFollow, SendsHold, DuplicatesAccounted
    <2> QED BY <2>1, TurnsInit, TurnsStep, PTL DEF Spec
<1>2. CASE ~Overlapping
    <2>1. TurnsInv /\ OnceInv => SendsHold
        BY DEF TurnsInv, RecordsFollow, SendsHold, DuplicatesAccounted, OnceInv,
               DeliveriesCounted
    <2>2. TurnsInv /\ OnceInv /\ [Next]_vars => OnceInv'
        BY <1>2, OnceStep
    <2> QED BY <2>1, <2>2, TurnsInit, TurnsStep, OnceInit, PTL DEF Spec
<1> QED BY <1>1, <1>2

-----------------------------------------------------------------------------
(* The weekly cap, over all the campaigns *)

\* The runs that still have d ahead of them.
Holding(d) == {p \in Runners : run[p] # NoRun /\ d \in run[p].todo}

Margin == IF together THEN Cardinality(Runners) - 1 ELSE 0

OneRun ==
    ~together => \A p, q \in Runners : run[p] # NoRun /\ run[q] # NoRun => p = q

\* What a client has been sent, with what may yet be sent.
WeekBooked ==
    \A d \in Clients :
       Cardinality(SentThisWeek(d)) + Cardinality(Holding(d)) <= MaxPerWeek + Margin

CapInv == OneRun /\ WeekBooked

LEMMA CapFinite ==
    /\ Cardinality(Runners) \in Nat
    /\ \A S : S \subseteq Campaigns => IsFiniteSet(S) /\ Cardinality(S) \in Nat
    /\ \A T : T \subseteq Runners => /\ IsFiniteSet(T) /\ Cardinality(T) \in Nat
                                     /\ Cardinality(T) <= Cardinality(Runners)
BY CampaignsAssumption, FS_Subset, FS_CardinalityType

LEMMA SmallerSets ==
    /\ \A S, T : T \subseteq Campaigns /\ S \subseteq T => Cardinality(S) <= Cardinality(T)
    /\ \A S, T : T \subseteq Runners /\ S \subseteq T => Cardinality(S) <= Cardinality(T)
BY CampaignsAssumption, FS_Subset

LEMMA CapSubsets ==
    \A d : /\ SentThisWeek(d) \subseteq Campaigns /\ SentThisWeek(d)' \subseteq Campaigns
           /\ Holding(d) \subseteq Runners /\ Holding(d)' \subseteq Runners
BY DEF SentThisWeek, Holding

\* A step that books nothing.
LEMMA CapShrinks ==
    ASSUME CapInv, UNCHANGED together,
           \A p \in Runners : run'[p] # NoRun => run[p] # NoRun,
           \A d \in Clients : /\ SentThisWeek(d)' \subseteq SentThisWeek(d)
                              /\ Holding(d)' \subseteq Holding(d)
    PROVE  CapInv'
<1>1. OneRun'
    BY DEF CapInv, OneRun
<1>2. ASSUME NEW d \in Clients
      PROVE  Cardinality(SentThisWeek(d)') + Cardinality(Holding(d)') <= MaxPerWeek + Margin
    <2>1. /\ Cardinality(SentThisWeek(d)') <= Cardinality(SentThisWeek(d))
          /\ Cardinality(Holding(d)') <= Cardinality(Holding(d))
        BY CapSubsets, SmallerSets
    <2>2. /\ Cardinality(SentThisWeek(d)) + Cardinality(Holding(d)) <= MaxPerWeek + Margin
          /\ MaxPerWeek \in Nat /\ Margin \in Int
        BY CapFinite, CampaignsAssumption DEF CapInv, WeekBooked, Margin
    <2>3. /\ Cardinality(SentThisWeek(d)') \in Nat /\ Cardinality(SentThisWeek(d)) \in Nat
          /\ Cardinality(Holding(d)') \in Nat /\ Cardinality(Holding(d)) \in Nat
        BY CapSubsets, CapFinite
    <2> QED BY <2>1, <2>2, <2>3
<1>3. Margin' = Margin
    BY DEF Margin
<1> QED BY <1>1, <1>2, <1>3 DEF CapInv, WeekBooked

\* A step of one run that records nothing and adds nobody to what it has to do.
LEMMA CapQuiet ==
    ASSUME TurnsInv, CapInv, NEW p \in Runners, NEW r, Onward(p, r),
           run[p] # NoRun, r # NoRun => r.todo \subseteq run[p].todo,
           \A d \in Clients : SentThisWeek(d)' \subseteq SentThisWeek(d),
           UNCHANGED together
    PROVE  CapInv'
<1>1. \A d \in Clients : Holding(d)' \subseteq Holding(d)
    BY DEF Holding, Onward
<1>2. \A q \in Runners : run'[q] # NoRun => run[q] # NoRun
    BY DEF Onward
<1> QED BY <1>1, <1>2, CapShrinks

LEMMA SameRecords ==
    ASSUME UNCHANGED <<sentAt, clock>>,
           \A b \in Campaigns, e \in Clients :
              recipient'[b][e] = "sent" => recipient[b][e] = "sent"
    PROVE  \A d \in Clients : SentThisWeek(d)' \subseteq SentThisWeek(d)
BY DEF SentThisWeek

LEMMA CapStart ==
    ASSUME TurnsInv, CapInv, NEW p \in Runners, NEW c \in Campaigns, Start(p, c)
    PROVE  CapInv'
<1>0. TypeOK
    BY DEF TurnsInv
<1>1. PICK r : r = NextOf(c, Audience)
    OBVIOUS
<1>2. /\ run' = [run EXCEPT ![p] = r] /\ run[p] = NoRun
      /\ together' = (together \/ \E q \in Runners : run[q] # NoRun)
      /\ UNCHANGED <<recipient, sentAt, clock>>
    BY <1>1 DEF Start
<1>3. Onward(p, r) /\ r.todo = Audience
    BY <1>0, <1>1, <1>2, OnwardFrom DEF NextOf
<1>4. OneRun'
    BY <1>2, <1>3 DEF OneRun, Onward
<1>5. Cardinality(Runners) \in Nat /\ Cardinality(Runners) >= 1
    <2>1. Cardinality({p}) <= Cardinality(Runners) /\ Cardinality({p}) = 1
        BY SmallerSets, FS_Singleton
    <2> QED BY <2>1, CapFinite
<1>6. Margin \in Nat /\ Margin' \in Nat /\ Margin <= Margin' /\ MaxPerWeek \in Nat
      /\ (together' => Margin' = Cardinality(Runners) - 1)
    BY <1>0, <1>2, <1>5, CampaignsAssumption DEF Margin, TypeOK
<1>7. ASSUME NEW d \in Clients
      PROVE  Cardinality(SentThisWeek(d)') + Cardinality(Holding(d)') <= MaxPerWeek + Margin'
    <2>1. SentThisWeek(d)' = SentThisWeek(d)
        BY <1>2 DEF SentThisWeek
    <2>2. /\ Cardinality(SentThisWeek(d)) \in Nat /\ Cardinality(Holding(d)) \in Nat
          /\ Cardinality(Holding(d)') \in Nat
          /\ Cardinality(Holding(d)') <= Cardinality(Runners)
        BY CapSubsets, CapFinite
    <2>3. CASE d \in Audience
        <3>1. Cardinality(SentThisWeek(d)) <= MaxPerWeek - 1
            BY <1>6, <2>2, <2>3 DEF Audience, OverFrequencyCap
        <3>2. CASE together'
            BY <1>5, <1>6, <2>1, <2>2, <3>1, <3>2
        <3>3. CASE ~together'
            <4>1. \A q \in Runners \ {p} : run[q] = NoRun /\ run'[q] = run[q]
                <5>1. ~(\E q \in Runners : run[q] # NoRun)
                    BY <1>0, <1>2, <3>3 DEF TypeOK
                <5> QED BY <1>3, <5>1 DEF Onward
            <4>2. Holding(d)' \subseteq {p}
                BY <4>1 DEF Holding
            <4>3. Cardinality(Holding(d)') <= 1
                <5>1. Cardinality({p}) = 1 /\ {p} \subseteq Runners
                    BY FS_Singleton
                <5>2. Cardinality(Holding(d)') <= Cardinality({p})
                    BY <4>2, <5>1, SmallerSets
                <5> QED BY <5>1, <5>2
            <4> QED BY <1>6, <2>1, <2>2, <3>1, <4>3
        <3> QED BY <3>2, <3>3
    <2>4. CASE d \notin Audience
        <3>1. Holding(d)' \subseteq Holding(d)
            BY <1>3, <2>4 DEF Holding, Onward
        <3>2. Cardinality(Holding(d)') <= Cardinality(Holding(d))
            BY <3>1, CapSubsets, SmallerSets
        <3>3. Cardinality(SentThisWeek(d)) + Cardinality(Holding(d)) <= MaxPerWeek + Margin
            BY DEF CapInv, WeekBooked
        <3> QED BY <1>6, <2>1, <2>2, <3>2, <3>3
    <2> QED BY <2>3, <2>4
<1> QED BY <1>4, <1>7 DEF CapInv, WeekBooked

LEMMA CapSave ==
    ASSUME TurnsInv, CapInv, NEW p \in Runners, Save(p)
    PROVE  CapInv'
<1> DEFINE c == run[p].campaign
           o == Current(p)
<1>0. TypeOK
    BY DEF TurnsInv
<1>1. PICK r \in Run : Onward(p, r) /\ r.todo = run[p].todo \ {o}
    BY SaveRun
<1>2. /\ run[p] # NoRun /\ c \in Campaigns /\ o \in Clients /\ o \in run[p].todo
      /\ run[p].ok => recipient'[c][o] = "sent"
      /\ ~run[p].ok => recipient'[c][o] = "failed"
      /\ \A b \in Campaigns, e \in Clients : b # c \/ e # o =>
            recipient'[b][e] = recipient[b][e] /\ sentAt'[b][e] = sentAt[b][e]
    BY SaveRun
<1>3. UNCHANGED <<clock, together>>
    BY DEF Save
<1>4. PICK cc, oo : cc = c /\ oo = o
    OBVIOUS
<1> HIDE DEF c, o
<1>5. OneRun' /\ Margin' = Margin
    BY <1>1, <1>2, <1>3 DEF CapInv, OneRun, Onward, Margin
<1>6. \A e \in Clients : Holding(e)' \subseteq Holding(e)
    BY <1>1, <1>2 DEF Holding, Onward
<1>7. \A e \in Clients : SentThisWeek(e)' \subseteq SentThisWeek(e) \cup {cc}
    BY <1>2, <1>3, <1>4 DEF SentThisWeek
<1>8. \A e \in Clients : e # oo => SentThisWeek(e)' \subseteq SentThisWeek(e)
    BY <1>2, <1>3, <1>4 DEF SentThisWeek
<1>9. \A e \in Clients : e = oo => Holding(e)' \subseteq Holding(e) \ {p}
    BY <1>1, <1>4, <1>6, RunIsNoNoRun DEF Holding, Onward
<1>10. ASSUME NEW d \in Clients
       PROVE  Cardinality(SentThisWeek(d)') + Cardinality(Holding(d)') <= MaxPerWeek + Margin
    <2>1. /\ Cardinality(SentThisWeek(d)) + Cardinality(Holding(d)) <= MaxPerWeek + Margin
          /\ MaxPerWeek \in Nat /\ Margin \in Int
        BY CapFinite, CampaignsAssumption DEF CapInv, WeekBooked, Margin
    <2>2. /\ Cardinality(SentThisWeek(d)') \in Nat /\ Cardinality(SentThisWeek(d)) \in Nat
          /\ Cardinality(Holding(d)') \in Nat /\ Cardinality(Holding(d)) \in Nat
        BY CapSubsets, CapFinite
    <2>3. CASE d # oo
        <3>1. /\ Cardinality(SentThisWeek(d)') <= Cardinality(SentThisWeek(d))
              /\ Cardinality(Holding(d)') <= Cardinality(Holding(d))
            BY <1>6, <1>8, <2>3, CapSubsets, SmallerSets
        <3> QED BY <2>1, <2>2, <3>1
    <2>4. CASE d = oo
        <3>1. p \in Holding(d) /\ IsFiniteSet(Holding(d)) /\ IsFiniteSet(SentThisWeek(d))
            BY <1>2, <1>4, <2>4, CapSubsets, CapFinite DEF Holding
        <3>2. Cardinality(Holding(d) \ {p}) = Cardinality(Holding(d)) - 1
            BY <3>1, FS_RemoveElement
        <3>3. Cardinality(Holding(d)') <= Cardinality(Holding(d) \ {p})
            BY <1>9, <2>4, CapSubsets, SmallerSets
        <3>4. Cardinality(SentThisWeek(d) \cup {cc}) <= Cardinality(SentThisWeek(d)) + 1
            <4>1. CASE cc \in SentThisWeek(d)
                <5>1. SentThisWeek(d) \cup {cc} = SentThisWeek(d)
                    BY <4>1
                <5> QED BY <2>2, <5>1
            <4>2. CASE cc \notin SentThisWeek(d)
                <5>1. Cardinality(SentThisWeek(d) \cup {cc}) = Cardinality(SentThisWeek(d)) + 1
                    BY <3>1, <4>2, FS_AddElement
                <5> QED BY <2>2, <5>1
            <4> QED BY <4>1, <4>2
        <3>5. Cardinality(SentThisWeek(d)') <= Cardinality(SentThisWeek(d) \cup {cc})
            <4>1. SentThisWeek(d) \cup {cc} \subseteq Campaigns
                BY <1>2, <1>4, CapSubsets
            <4> QED BY <1>7, <4>1, SmallerSets
        <3>6. Cardinality(SentThisWeek(d) \cup {cc}) \in Nat
            BY <3>1, FS_AddElement, FS_CardinalityType
        <3> QED BY <2>1, <2>2, <3>2, <3>3, <3>4, <3>5, <3>6
    <2> QED BY <2>3, <2>4
<1> QED BY <1>5, <1>10 DEF CapInv, WeekBooked

LEMMA CapGoesOn ==
    ASSUME TurnsInv, CapInv, NEW p \in Runners,
           Pick(p) \/ Send(p) \/ Wake(p) \/ Note(p) \/ Finish(p) \/ Kill(p)
    PROVE  CapInv'
<1>0. TypeOK
    BY DEF TurnsInv
<1>1. CASE Pick(p)
    <2>1. run[p] # NoRun /\ run[p].todo # {}
          /\ \E r \in Run : Onward(p, r) /\ r.todo \subseteq run[p].todo
        BY <1>0, <1>1, PickRun
    <2>2. PICK r \in Run : Onward(p, r) /\ r.todo \subseteq run[p].todo
        BY <2>1
    <2>3. run[p].campaign \in Campaigns /\ Current(p) \in Clients
        BY <1>0, <2>1, RunType
    <2>4. \A b \in Campaigns, e \in Clients : recipient'[b][e] = "sent" => recipient[b][e] = "sent"
        BY <1>0, <1>1, <2>3 DEF Pick, TypeOK
    <2>5. UNCHANGED <<sentAt, clock, together>>
        BY <1>1 DEF Pick
    <2> QED BY <2>1, <2>2, <2>4, <2>5, SameRecords, CapQuiet
<1>2. CASE Send(p)
    <2>1. run[p] # NoRun /\ \E r \in Run : Onward(p, r) /\ SameTurn(p, r)
        BY <1>2, SendRun
    <2>2. PICK r \in Run : Onward(p, r) /\ r.todo = run[p].todo
        BY <2>1 DEF SameTurn
    <2>3. UNCHANGED <<recipient, sentAt, clock, together>>
        BY <1>2 DEF Send, Answered
    <2> QED BY <2>1, <2>2, <2>3, SameRecords, CapQuiet
<1>3. ASSUME NEW step, GoTo(p, step), At(p, "wait") \/ At(p, "note"),
             UNCHANGED <<recipient, sentAt, clock, together>>
      PROVE  CapInv'
    <2>1. run[p] # NoRun /\ run[p] \in Run
        BY <1>0, <1>3, RunType DEF Steps
    <2>2. PICK r : r = [run[p] EXCEPT !.step = step]
        OBVIOUS
    <2>3. r.todo = run[p].todo /\ run' = [run EXCEPT ![p] = r]
        BY <1>0, <1>3, <2>1, <2>2 DEF GoTo, TypeOK, Run
    <2> QED BY <1>0, <1>3, <2>1, <2>3, OnwardFrom, SameRecords, CapQuiet
<1>4. CASE Wake(p) \/ Note(p)
    BY <1>3, <1>4 DEF Wake, Note
<1>5. CASE Finish(p) \/ Kill(p)
    <2>1. run[p] # NoRun /\ Onward(p, NoRun) /\ UNCHANGED <<recipient, sentAt, clock, together>>
        BY <1>0, <1>5, RunType, OnwardFrom DEF Finish, Kill, At, Steps
    <2> QED BY <2>1, SameRecords, CapQuiet
<1> QED BY <1>1, <1>2, <1>4, <1>5

LEMMA CapRest ==
    ASSUME TurnsInv, CapInv,
           (\E d \in Clients : Subscribe(d) \/ Unsubscribe(d)) \/ Tick \/ UNCHANGED vars
    PROVE  CapInv'
<1>1. UNCHANGED <<recipient, sentAt, run, together>>
    BY DEF Subscribe, Unsubscribe, Tick, vars
<1>2. clock' >= clock /\ clock \in Int /\ clock' \in Int /\ Week \in Int
    BY CampaignsAssumption DEF Subscribe, Unsubscribe, Tick, vars, TurnsInv, TypeOK
<1>3. \A c \in Campaigns, d \in Clients : sentAt[c][d] \in Int
    BY DEF TurnsInv, TypeOK, Never
<1>4. \A d \in Clients : SentThisWeek(d)' \subseteq SentThisWeek(d)
    BY <1>1, <1>2, <1>3 DEF SentThisWeek
<1>5. \A d \in Clients : Holding(d)' \subseteq Holding(d)
    BY <1>1 DEF Holding
<1> QED BY <1>1, <1>4, <1>5, CapShrinks

LEMMA CapInit == Init => CapInv
<1> SUFFICES ASSUME Init PROVE CapInv
    OBVIOUS
<1>1. OneRun
    BY DEF Init, OneRun
<1>2. ASSUME NEW d \in Clients
      PROVE  SentThisWeek(d) = {} /\ Holding(d) = {}
    BY DEF Init, SentThisWeek, Holding
<1>3. Cardinality({}) = 0 /\ MaxPerWeek \in Nat /\ Margin = 0
    BY FS_EmptySet, CampaignsAssumption DEF Init, Margin
<1> QED BY <1>1, <1>2, <1>3 DEF CapInv, WeekBooked

LEMMA CapStep == TurnsInv /\ CapInv /\ [Next]_vars => CapInv'
BY CapStart, CapGoesOn, CapSave, CapRest DEF Next, Step

\* The cap on a client's week holds over all campaigns while runs do not overlap,
\* and is passed by no more than the other runners when they have.
THEOREM CapIsKept == Spec => []WeeklyCap
<1>1. CapInv => WeeklyCap
    <2> SUFFICES ASSUME CapInv, NEW d \in Clients
                 PROVE  Cardinality(SentThisWeek(d)) <= MaxPerWeek + Margin
        BY DEF WeeklyCap, Margin
    <2>1. /\ Cardinality(SentThisWeek(d)) + Cardinality(Holding(d)) <= MaxPerWeek + Margin
          /\ MaxPerWeek \in Nat /\ Margin \in Int
        BY CapFinite, CampaignsAssumption DEF CapInv, WeekBooked, Margin
    <2>2. Cardinality(SentThisWeek(d)) \in Nat /\ Cardinality(Holding(d)) \in Nat
        BY CapSubsets, CapFinite
    <2> QED BY <2>1, <2>2
<1> QED BY <1>1, TurnsInit, TurnsStep, CapInit, CapStep, PTL DEF Spec

-----------------------------------------------------------------------------
(* Both, as they share a process but no row *)

\* Either is at rest while the other goes on.
LEMMA OutgoingRuns == OutgoingSpec => Spec /\ ASpec
<1>1. OutgoingInit => Init /\ AInit
    BY DEF OutgoingInit
<1>2. [OutgoingNext]_<<vars, avars, focus>> => [Next]_vars /\ [ANext]_avars
    BY DEF OutgoingNext
<1>3. OutgoingSpec => OutgoingInit /\ [][OutgoingNext]_<<vars, avars, focus>>
    BY PTL DEF OutgoingSpec
<1> QED BY <1>1, <1>2, <1>3, PTL DEF Spec, ASpec

\* What was sent is on record, twice only where two runs or a crash explain it.
THEOREM OutgoingSentOnce == OutgoingSpec => []CampaignsSent
<1>1. SendsHold => CampaignsSent
    BY DEF CampaignsSent
<1> QED BY <1>1, OutgoingRuns, CampaignsSendOnce, PTL

\* No client gets more campaigns in a week than the limit, but for runs that overlap.
THEOREM OutgoingCapped == OutgoingSpec => []CampaignsCapped
<1>1. WeeklyCap => CampaignsCapped
    BY DEF CampaignsCapped
<1> QED BY <1>1, OutgoingRuns, CapIsKept, PTL

\* No alert is told more often than the intakes and the killed workers explain,
\* and none is marked as told that was not.
THEOREM OutgoingAlerts == OutgoingSpec => []AlertsSent
<1>1. AlertsAccounted => AlertsSent
    BY DEF AlertsSent
<1> QED BY <1>1, OutgoingRuns, AlertsAreAccounted, PTL
=============================================================================
