------------------------------ MODULE OfficeProofs ------------------------------
(***************************************************************************)
(* What surrounds the sale keeps its promises, for every instance of it:   *)
(* the sign-in, the backups, the nightly jobs, the carts and the till.     *)
(*                                                                         *)
(* Each part has its inductive invariant, the lemmas that its steps keep   *)
(* it, and at the end the theorems, of the module that is the sum of them. *)
(***************************************************************************)
EXTENDS MCOffice, SumsProofs

(* Signing in *)

\* What a worker serves.
Attempt == {NoRequest} \cup
           [step : {"get", "add", "incr", "set", "check", "verify"}, ip : Addresses, who : Accounts]

STypeOK ==
    /\ count \in [Addresses -> Nat] /\ up \in BOOLEAN
    /\ request \in [Workers -> Attempt]
    /\ failures \in [Addresses \X Accounts -> Nat]
    /\ {let, lost} \subseteq [Addresses -> Nat]
    /\ guesses \in [Accounts -> Nat] /\ unseen \in Nat

\* Workers whose request was found below the limit and is yet to be counted,
Uncounting(ip) == {w \in Workers : request[w].step \in {"add", "incr", "set"} /\ request[w].ip = ip}

\* that may still get through without the cache,
Probed == {w \in Workers : request[w].step \in {"get", "add", "incr", "set"}}

\* and that were not locked out when they asked.
Guessing(a) == {w \in Workers : Serving(w, "verify") /\ request[w].who = a}

\* The key holds what was let through and not lost; who has read it below the
\* limit was one of the other workers, or raised it at least to the limit.
KeyCounts ==
    \A ip \in Addresses :
        /\ let[ip] - lost[ip] = count[ip]
        /\ count[ip] <= Limit + Others
        /\ up => count[ip] + Cardinality(Uncounting(ip)) <= Limit + Others

DoorCounts ==
    /\ up => unseen = 0
    /\ unseen + Cardinality(Probed) <= Cardinality(Workers) \/ up

\* axes has a row of every wrong guess.
GuessCounts ==
    \A a \in Accounts :
        /\ guesses[a] = ByAccount(a)
        /\ guesses[a] + Cardinality(Guessing(a)) <= FailureLimit + Others

SignInInv == STypeOK /\ KeyCounts /\ DoorCounts /\ GuessCounts

\* Sets of workers: one less, some more.
LEMMA WorkersCount ==
    /\ Cardinality(Workers) \in Nat
    /\ \A S \in SUBSET Workers :
          /\ IsFiniteSet(S) /\ Cardinality(S) \in Nat /\ Cardinality(S) <= Cardinality(Workers)
          /\ \A T \in SUBSET S : Cardinality(T) <= Cardinality(S)
          /\ \A w \in S : \A T \in SUBSET (S \ {w}) : Cardinality(T) <= Cardinality(S) - 1
<1>1. IsFiniteSet(Workers) /\ Cardinality(Workers) \in Nat
    BY SignInAssumption, FS_CardinalityType
<1>2. ASSUME NEW S \in SUBSET Workers
      PROVE  IsFiniteSet(S) /\ Cardinality(S) \in Nat /\ Cardinality(S) <= Cardinality(Workers)
    BY <1>1, FS_Subset, FS_CardinalityType
<1>3. ASSUME NEW S \in SUBSET Workers, NEW T \in SUBSET S PROVE Cardinality(T) <= Cardinality(S)
    BY <1>2, FS_Subset
<1>4. ASSUME NEW S \in SUBSET Workers, NEW w \in S, NEW T \in SUBSET (S \ {w})
      PROVE  Cardinality(T) <= Cardinality(S) - 1
    <2>1. Cardinality(S \ {w}) = Cardinality(S) - 1 /\ IsFiniteSet(S \ {w})
        BY <1>2, FS_RemoveElement
    <2>2. Cardinality(T) <= Cardinality(S \ {w})
        BY <2>1, FS_Subset
    <2> QED BY <2>1, <2>2
<1> QED BY <1>1, <1>2, <1>3, <1>4

LEMMA AccountSum ==
    \A a \in Accounts :
        /\ ByAccount(a) = SumOf([ip \in Addresses |-> failures[<<ip, a>>]], Addresses)
        /\ ByAccount(a)' = SumOf([ip \in Addresses |-> failures'[<<ip, a>>]], Addresses)
BY Zenon DEF ByAccount, SumOf, MapThenSumSet, MapThenFoldSet

\* A step of a worker that takes its request on, or ends it, types.
LEMMA SignInTypes ==
    ASSUME STypeOK, [SNext]_svars
    PROVE  STypeOK'
<1> USE DEF STypeOK
<1>1. ASSUME NEW w \in Workers, PostStep(w) PROVE STypeOK'
    <2>1. ASSUME NEW ip \in Addresses, NEW who \in Accounts, Post(w, ip, who) PROVE STypeOK'
        BY <2>1 DEF Post, AfterProbe, Attempt
    <2>2. CASE Get(w)
        BY <2>2 DEF Get, Serving, NextStep, Ends, Attempt, NoRequest
    <2>3. CASE AddKey(w)
        BY <2>3 DEF AddKey, LetThrough, Serving, NextStep, Attempt, NoRequest
    <2>4. CASE Incr(w)
        BY <2>4 DEF Incr, LetThrough, Serving, NextStep, Attempt, NoRequest
    <2>5. CASE SetKey(w)
        BY <2>5 DEF SetKey, LetThrough, Serving, NextStep, Attempt, NoRequest
    <2>6. CASE Uncounted(w)
        BY <2>6 DEF Uncounted, NextStep, Attempt, NoRequest
    <2>7. CASE Check(w)
        BY <2>7 DEF Check, Serving, NextStep, Ends, Attempt, NoRequest
    <2>8. CASE Sign(w)
        BY <2>8 DEF Sign, Ends, Attempt, NoRequest
    <2>9. ASSUME NEW what \in {"password", "code"}, Fail(w, what) PROVE STypeOK'
        <3>1. request[w].ip \in Addresses /\ request[w].who \in Accounts
            BY <2>9 DEF Fail, Serving, Attempt, NoRequest
        <3> DEFINE f == <<request[w].ip, request[w].who>>
        <3>2. failures' = failures \/ failures' = [failures EXCEPT ![f] = @ + 1]
            BY <2>9 DEF Fail
        <3>3. failures' \in [Addresses \X Accounts -> Nat]
            <4>1. f \in Addresses \X Accounts
                BY <3>1
            <4> HIDE DEF f
            <4> QED BY <3>2, <4>1
        <3>4. /\ guesses' = [guesses EXCEPT ![request[w].who] = @ + 1]
              /\ request' = [request EXCEPT ![w] = NoRequest]
              /\ UNCHANGED <<count, up, let, lost, unseen>>
            BY <2>9 DEF Fail, Ends
        <3> QED BY <3>1, <3>3, <3>4 DEF Attempt
    <2> QED BY <1>1, <2>1, <2>2, <2>3, <2>4, <2>5, <2>6, <2>7, <2>8, <2>9 DEF PostStep
<1>2. ASSUME NEW ip \in Addresses, WindowEnds(ip) \/ MarkEnds(ip) PROVE STypeOK'
    BY <1>2 DEF WindowEnds, MarkEnds
<1>3. CASE CacheFails
    BY <1>3 DEF CacheFails
<1>6. CASE CacheReturns
    <2>1. {let', lost', count'} \subseteq [Addresses -> Nat]
        BY <1>6 DEF CacheReturns
    <2> QED BY <1>6, <2>1 DEF CacheReturns
<1>5. CASE CoolOff
    BY <1>5 DEF CoolOff
<1>4. CASE UNCHANGED svars
    BY <1>4 DEF svars
<1> QED BY <1>1, <1>2, <1>3, <1>4, <1>5, <1>6 DEF SNext

\* A set of workers, when one of them may have left it and may be in it again.
LEMMA SetMoves ==
    ASSUME NEW S \in SUBSET Workers, NEW T \in SUBSET Workers, NEW w \in Workers,
           S \ {w} = T \ {w}
    PROVE  /\ Cardinality(S) \in Nat /\ Cardinality(T) \in Nat
           /\ Cardinality(T) <= Cardinality(Workers) /\ Cardinality(Workers) \in Nat
           /\ w \notin T => Cardinality(T) = Cardinality(S) - (IF w \in S THEN 1 ELSE 0)
           /\ w \in S \/ w \notin T => Cardinality(T) <= Cardinality(S)
<1>1. /\ IsFiniteSet(S) /\ Cardinality(S) \in Nat /\ Cardinality(T) \in Nat
      /\ Cardinality(T) <= Cardinality(Workers) /\ Cardinality(Workers) \in Nat
    BY WorkersCount
<1>2. Cardinality(S \ {w}) = Cardinality(S) - (IF w \in S THEN 1 ELSE 0)
    BY <1>1, Joined
<1>3. w \notin T => T = S \ {w}
    OBVIOUS
<1>4. w \in S \/ w \notin T => T \in SUBSET S
    OBVIOUS
<1>5. w \in S \/ w \notin T => Cardinality(T) <= Cardinality(S)
    BY <1>4, WorkersCount
<1> QED BY <1>1, <1>2, <1>3, <1>5

LEMMA UncountingMoves ==
    ASSUME STypeOK, NEW w \in Workers, NEW r, request' = [request EXCEPT ![w] = r],
           NEW ip \in Addresses
    PROVE  LET n == Cardinality(Uncounting(ip))
               m == Cardinality(Uncounting(ip)')
           IN  /\ n \in Nat /\ m \in Nat /\ m <= Cardinality(Workers) /\ Cardinality(Workers) \in Nat
               /\ ~(r.step \in {"add", "incr", "set"} /\ r.ip = ip) =>
                     m = n - (IF w \in Uncounting(ip) THEN 1 ELSE 0) /\ m <= n
               /\ w \in Uncounting(ip) => m <= n
<1> DEFINE S == Uncounting(ip)
           T == Uncounting(ip)'
<1>1. request'[w] = r /\ \A v \in Workers \ {w} : request'[v] = request[v]
    BY DEF STypeOK
<1>2. /\ S \in SUBSET Workers /\ T \in SUBSET Workers /\ S \ {w} = T \ {w}
      /\ ~(r.step \in {"add", "incr", "set"} /\ r.ip = ip) => w \notin T
    BY <1>1 DEF Uncounting
<1> HIDE DEF S, T
<1>3. /\ Cardinality(S) \in Nat /\ Cardinality(T) \in Nat
      /\ Cardinality(T) <= Cardinality(Workers) /\ Cardinality(Workers) \in Nat
      /\ w \notin T => Cardinality(T) = Cardinality(S) - (IF w \in S THEN 1 ELSE 0)
      /\ w \in S \/ w \notin T => Cardinality(T) <= Cardinality(S)
    BY <1>2, SetMoves
<1> QED BY <1>2, <1>3 DEF S, T

LEMMA ProbedMoves ==
    ASSUME STypeOK, NEW w \in Workers, NEW r, request' = [request EXCEPT ![w] = r]
    PROVE  LET n == Cardinality(Probed)
               m == Cardinality(Probed')
           IN  /\ n \in Nat /\ m \in Nat /\ m <= Cardinality(Workers) /\ Cardinality(Workers) \in Nat
               /\ r.step \notin {"get", "add", "incr", "set"} =>
                     m = n - (IF w \in Probed THEN 1 ELSE 0) /\ m <= n
               /\ w \in Probed => m <= n
<1> DEFINE S == Probed
           T == Probed'
<1>1. request'[w] = r /\ \A v \in Workers \ {w} : request'[v] = request[v]
    BY DEF STypeOK
<1>2. /\ S \in SUBSET Workers /\ T \in SUBSET Workers /\ S \ {w} = T \ {w}
      /\ r.step \notin {"get", "add", "incr", "set"} => w \notin T
    BY <1>1 DEF Probed
<1> HIDE DEF S, T
<1>3. /\ Cardinality(S) \in Nat /\ Cardinality(T) \in Nat
      /\ Cardinality(T) <= Cardinality(Workers) /\ Cardinality(Workers) \in Nat
      /\ w \notin T => Cardinality(T) = Cardinality(S) - (IF w \in S THEN 1 ELSE 0)
      /\ w \in S \/ w \notin T => Cardinality(T) <= Cardinality(S)
    BY <1>2, SetMoves
<1> QED BY <1>2, <1>3 DEF S, T

LEMMA GuessingMoves ==
    ASSUME STypeOK, NEW w \in Workers, NEW r, request' = [request EXCEPT ![w] = r],
           NEW a \in Accounts
    PROVE  LET n == Cardinality(Guessing(a))
               m == Cardinality(Guessing(a)')
           IN  /\ n \in Nat /\ m \in Nat /\ m <= Cardinality(Workers) /\ Cardinality(Workers) \in Nat
               /\ ~(r.step = "verify" /\ r.who = a) =>
                     m = n - (IF w \in Guessing(a) THEN 1 ELSE 0) /\ m <= n
<1> DEFINE S == Guessing(a)
           T == Guessing(a)'
<1>1. request'[w] = r /\ \A v \in Workers \ {w} : request'[v] = request[v]
    BY DEF STypeOK
<1>2. /\ S \in SUBSET Workers /\ T \in SUBSET Workers /\ S \ {w} = T \ {w}
      /\ ~(r.step = "verify" /\ r.who = a) => w \notin T
    BY <1>1 DEF Guessing, Serving
<1> HIDE DEF S, T
<1>3. /\ Cardinality(S) \in Nat /\ Cardinality(T) \in Nat
      /\ Cardinality(T) <= Cardinality(Workers) /\ Cardinality(Workers) \in Nat
      /\ w \notin T => Cardinality(T) = Cardinality(S) - (IF w \in S THEN 1 ELSE 0)
      /\ w \in S \/ w \notin T => Cardinality(T) <= Cardinality(S)
    BY <1>2, SetMoves
<1> QED BY <1>2, <1>3 DEF S, T

\* What a step leaves alone, when it counts no request, when it lets none be
\* counted later, and when it does not ask for a password.
LEMMA LeftAlone ==
    ASSUME SignInInv, NEW w \in Workers, NEW r, request' = [request EXCEPT ![w] = r]
    PROVE  /\ r.step \notin {"add", "incr", "set"} /\ UNCHANGED <<count, up, let, lost>> => KeyCounts'
           /\ /\ r.step \in {"get", "add", "incr", "set"} => w \in Probed
              /\ UNCHANGED <<up, unseen>>
              => DoorCounts'
           /\ r.step # "verify" /\ UNCHANGED <<failures, guesses>> => GuessCounts'
<1>1. Cardinality(Workers) \in Nat
    BY WorkersCount
<1>2. ASSUME r.step \notin {"add", "incr", "set"}, UNCHANGED <<count, up, let, lost>>
      PROVE  KeyCounts'
    <2> SUFFICES ASSUME NEW ip \in Addresses
                 PROVE  /\ let'[ip] - lost'[ip] = count'[ip]
                        /\ count'[ip] <= Limit + Others
                        /\ up' => count'[ip] + Cardinality(Uncounting(ip)') <= Limit + Others
        BY <1>2 DEF KeyCounts, Others
    <2>1. /\ Cardinality(Uncounting(ip)') <= Cardinality(Uncounting(ip))
          /\ Cardinality(Uncounting(ip)) \in Nat /\ Cardinality(Uncounting(ip)') \in Nat
        BY <1>2, UncountingMoves DEF SignInInv
    <2> QED BY <1>1, <1>2, <2>1, SignInAssumption DEF SignInInv, KeyCounts, STypeOK, Others
<1>3. ASSUME r.step \in {"get", "add", "incr", "set"} => w \in Probed, UNCHANGED <<up, unseen>>
      PROVE  DoorCounts'
    <2>1. /\ Cardinality(Probed') <= Cardinality(Probed)
          /\ Cardinality(Probed) \in Nat /\ Cardinality(Probed') \in Nat
        BY <1>3, ProbedMoves DEF SignInInv
    <2> QED BY <1>1, <1>3, <2>1 DEF SignInInv, DoorCounts, STypeOK
<1>4. ASSUME r.step # "verify", UNCHANGED <<failures, guesses>>
      PROVE  GuessCounts'
    <2> SUFFICES ASSUME NEW a \in Accounts
                 PROVE  /\ guesses'[a] = ByAccount(a)'
                        /\ guesses'[a] + Cardinality(Guessing(a)') <= FailureLimit + Others
        BY <1>4 DEF GuessCounts, Others
    <2>1. /\ Cardinality(Guessing(a)') <= Cardinality(Guessing(a))
          /\ Cardinality(Guessing(a)) \in Nat /\ Cardinality(Guessing(a)') \in Nat
        BY <1>4, GuessingMoves DEF SignInInv
    <2>2. ByAccount(a)' = ByAccount(a)
        BY <1>4, AccountSum
    <2> QED BY <1>1, <1>4, <2>1, <2>2, SignInAssumption DEF SignInInv, GuessCounts, STypeOK, Others
<1> QED BY <1>2, <1>3, <1>4

\* The count is read and raised.
LEMMA KeyStep ==
    ASSUME SignInInv, NEW w \in Workers, Get(w) \/ AddKey(w) \/ Incr(w) \/ SetKey(w)
    PROVE  KeyCounts'
<1> DEFINE ip0 == request[w].ip
<1> USE DEF Serving
<1>0. /\ Cardinality(Workers) \in Nat /\ Limit \in Nat \ {0} /\ STypeOK
      /\ \A ip \in Addresses : Cardinality(Uncounting(ip)) \in Nat
    BY WorkersCount, SignInAssumption DEF SignInInv, Uncounting
<1>1. ip0 \in Addresses /\ request[w] \in [step : {"get", "add", "incr", "set", "check", "verify"},
                                          ip : Addresses, who : Accounts]
    BY <1>0 DEF Get, AddKey, Incr, SetKey, STypeOK, Attempt, NoRequest
<1>2. \A s : NextStep(w, s) =>
          /\ request' = [request EXCEPT ![w] = [request[w] EXCEPT !.step = s]]
          /\ [request[w] EXCEPT !.step = s].step = s /\ [request[w] EXCEPT !.step = s].ip = ip0
    BY <1>1 DEF NextStep
<1>3. CASE Ends(w) /\ Get(w)
    <2>1. request' = [request EXCEPT ![w] = NoRequest] /\ NoRequest.step = "idle"
        BY <1>3 DEF Ends, NoRequest
    <2> QED BY <1>3, <2>1, LeftAlone DEF Get
<1>4. CASE NextStep(w, "add") /\ Get(w) /\ ~(up /\ Full(ip0))
    <2> SUFFICES ASSUME NEW ip \in Addresses
                 PROVE  up => count[ip] + Cardinality(Uncounting(ip)') <= Limit + Others
        BY <1>4 DEF Get, SignInInv, KeyCounts, Others
    <2> DEFINE r == [request[w] EXCEPT !.step = "add"]
    <2>0. request' = [request EXCEPT ![w] = r] /\ r.ip = ip0
        BY <1>2, <1>4
    <2> HIDE DEF r
    <2>1. Cardinality(Uncounting(ip)') \in Nat /\ Cardinality(Uncounting(ip)') <= Cardinality(Workers)
        BY <1>0, <2>0, UncountingMoves
    <2>2. CASE ip = ip0
        BY <1>0, <1>4, <2>1, <2>2 DEF Full, STypeOK, Others
    <2>3. CASE ip # ip0
        <3>1. Cardinality(Uncounting(ip)') <= Cardinality(Uncounting(ip))
            BY <1>0, <2>0, <2>3, UncountingMoves
        <3> QED BY <1>0, <2>1, <3>1 DEF SignInInv, KeyCounts, STypeOK, Others
    <2> QED BY <2>2, <2>3
<1>5. CASE /\ NextStep(w, "incr") \/ NextStep(w, "set")
           /\ w \in Uncounting(ip0) /\ UNCHANGED <<count, up, let, lost>>
    <2> SUFFICES ASSUME NEW ip \in Addresses
                 PROVE  up => count[ip] + Cardinality(Uncounting(ip)') <= Limit + Others
        BY <1>5 DEF SignInInv, KeyCounts, Others
    <2>1. /\ Cardinality(Uncounting(ip)') \in Nat
          /\ Cardinality(Uncounting(ip)') <= Cardinality(Uncounting(ip))
        BY <1>0, <1>2, <1>5, UncountingMoves
    <2> QED BY <1>0, <2>1 DEF SignInInv, KeyCounts, STypeOK, Others
<1>6. ASSUME count' = [count EXCEPT ![ip0] = count'[ip0]], count'[ip0] \in Nat,
             count'[ip0] <= count[ip0] + 1, up, up' = up,
             let' = [let EXCEPT ![ip0] = @ + 1],
             lost'[ip0] = lost[ip0] + count[ip0] + 1 - count'[ip0],
             \A ip \in Addresses \ {ip0} : lost'[ip] = lost[ip],
             w \in Uncounting(ip0), NextStep(w, "check")
      PROVE  KeyCounts'
    <2> SUFFICES ASSUME NEW ip \in Addresses
                 PROVE  /\ let'[ip] - lost'[ip] = count'[ip]
                        /\ count'[ip] <= Limit + Others
                        /\ count'[ip] + Cardinality(Uncounting(ip)') <= Limit + Others
        BY DEF KeyCounts, Others
    <2> DEFINE r == [request[w] EXCEPT !.step = "check"]
    <2>0. request' = [request EXCEPT ![w] = r] /\ r.step = "check"
        BY <1>2, <1>6
    <2> HIDE DEF r
    <2>1. /\ Cardinality(Uncounting(ip)') \in Nat
          /\ Cardinality(Uncounting(ip)') = Cardinality(Uncounting(ip))
                                            - (IF w \in Uncounting(ip) THEN 1 ELSE 0)
        BY <1>0, <2>0, UncountingMoves
    <2>2. /\ count[ip] + Cardinality(Uncounting(ip)) <= Limit + Others
          /\ let[ip] - lost[ip] = count[ip] /\ Limit + Others \in Int
          /\ {count[ip], let[ip], lost[ip], Cardinality(Uncounting(ip))} \subseteq Nat
        BY <1>0, <1>6 DEF SignInInv, KeyCounts, STypeOK, Others
    <2>3. CASE ip = ip0
        <3>1. let'[ip] = let[ip] + 1 /\ lost'[ip] = lost[ip] + count[ip] + 1 - count'[ip]
            BY <1>0, <1>1, <1>6, <2>3 DEF STypeOK
        <3>2. count'[ip] \in Nat /\ count'[ip] <= count[ip] + 1
              /\ Cardinality(Uncounting(ip)') = Cardinality(Uncounting(ip)) - 1
            BY <1>6, <2>1, <2>3
        <3> QED BY <2>1, <2>2, <3>1, <3>2
    <2>4. CASE ip # ip0
        <3>1. let'[ip] = let[ip] /\ lost'[ip] = lost[ip] /\ count'[ip] = count[ip]
            BY <1>0, <1>1, <1>6, <2>4 DEF STypeOK
        <3> QED BY <2>1, <2>2, <3>1
    <2> QED BY <2>3, <2>4
<1>7. CASE Get(w)
    BY <1>3, <1>4, <1>7 DEF Get
<1>8. CASE AddKey(w)
    <2>1. w \in Uncounting(ip0)
        BY <1>8 DEF AddKey, Uncounting
    <2>2. CASE count[ip0] = 0
        <3>1. count' = [count EXCEPT ![ip0] = 1] /\ LetThrough(w, ip0) /\ up /\ UNCHANGED <<up, lost>>
            BY <1>8, <2>2 DEF AddKey
        <3>2. /\ count'[ip0] = 1 /\ count' = [count EXCEPT ![ip0] = count'[ip0]]
              /\ lost[ip0] \in Nat /\ lost'[ip0] = lost[ip0] + count[ip0] + 1 - count'[ip0]
              /\ count'[ip0] \in Nat /\ count'[ip0] <= count[ip0] + 1
            BY <1>0, <1>1, <2>2, <3>1 DEF STypeOK
        <3>3. let' = [let EXCEPT ![ip0] = @ + 1] /\ NextStep(w, "check")
            BY <3>1 DEF LetThrough
        <3> QED BY <1>6, <2>1, <3>1, <3>2, <3>3
    <2> QED BY <1>5, <1>8, <2>1, <2>2 DEF AddKey
<1>9. CASE Incr(w)
    <2>1. w \in Uncounting(ip0)
        BY <1>9 DEF Incr, Uncounting
    <2>2. CASE count[ip0] # 0
        <3>1. count' = [count EXCEPT ![ip0] = @ + 1] /\ LetThrough(w, ip0) /\ up /\ UNCHANGED <<up, lost>>
            BY <1>9, <2>2 DEF Incr
        <3>2. /\ count'[ip0] = count[ip0] + 1 /\ count' = [count EXCEPT ![ip0] = count'[ip0]]
              /\ lost[ip0] \in Nat /\ lost'[ip0] = lost[ip0] + count[ip0] + 1 - count'[ip0]
              /\ count'[ip0] \in Nat /\ count'[ip0] <= count[ip0] + 1
            BY <1>0, <1>1, <3>1 DEF STypeOK
        <3>3. let' = [let EXCEPT ![ip0] = @ + 1] /\ NextStep(w, "check")
            BY <3>1 DEF LetThrough
        <3> QED BY <1>6, <2>1, <3>1, <3>2, <3>3
    <2> QED BY <1>5, <1>9, <2>1, <2>2 DEF Incr
<1>10. CASE SetKey(w)
    <2>1. w \in Uncounting(ip0)
        BY <1>10 DEF SetKey, Uncounting
    <2>2. /\ count' = [count EXCEPT ![ip0] = 1] /\ LetThrough(w, ip0) /\ up /\ UNCHANGED up
          /\ lost' = [lost EXCEPT ![ip0] = @ + count[ip0]]
        BY <1>10 DEF SetKey
    <2>3. /\ count'[ip0] = 1 /\ count' = [count EXCEPT ![ip0] = count'[ip0]]
          /\ lost[ip0] \in Nat /\ lost'[ip0] = lost[ip0] + count[ip0] + 1 - count'[ip0]
          /\ \A ip \in Addresses \ {ip0} : lost'[ip] = lost[ip]
          /\ count'[ip0] \in Nat /\ count'[ip0] <= count[ip0] + 1
        BY <1>0, <1>1, <2>2 DEF STypeOK
    <2>4. let' = [let EXCEPT ![ip0] = @ + 1] /\ NextStep(w, "check")
        BY <2>2 DEF LetThrough
    <2> QED BY <1>6, <2>1, <2>2, <2>3, <2>4
<1> QED BY <1>7, <1>8, <1>9, <1>10

\* Without the cache a request that was probed goes on uncounted.
LEMMA UncountedStep ==
    ASSUME SignInInv, NEW w \in Workers, Uncounted(w)
    PROVE  DoorCounts'
<1> DEFINE r == [request[w] EXCEPT !.step = "check"]
<1>1. STypeOK /\ request[w] \in Attempt /\ request[w] # NoRequest
    BY DEF SignInInv, STypeOK, Uncounted, NoRequest
<1>2. request' = [request EXCEPT ![w] = r] /\ r.step = "check"
    BY <1>1 DEF Uncounted, NextStep, Attempt
<1> HIDE DEF r
<1>3. w \in Probed
    BY DEF Uncounted, Probed
<1>4. /\ Cardinality(Probed') = Cardinality(Probed) - 1
      /\ Cardinality(Probed) \in Nat /\ Cardinality(Probed') \in Nat
    BY <1>1, <1>2, <1>3, ProbedMoves
<1>5. ~up /\ up' = up /\ unseen' = unseen + 1 /\ unseen \in Nat
    BY DEF Uncounted, SignInInv, STypeOK
<1>6. unseen + Cardinality(Probed) <= Cardinality(Workers)
    BY <1>5 DEF SignInInv, DoorCounts
<1>7. Cardinality(Workers) \in Nat
    BY WorkersCount
<1> QED BY <1>4, <1>5, <1>6, <1>7 DEF DoorCounts

\* Who is not locked out may guess once; axes counts it.
LEMMA GuessStep ==
    ASSUME SignInInv, NEW w \in Workers, Check(w) \/ \E what \in {"password", "code"} : Fail(w, what)
    PROVE  GuessCounts'
<1> DEFINE a0  == request[w].who
           ip0 == request[w].ip
<1>1. /\ STypeOK /\ a0 \in Accounts /\ ip0 \in Addresses /\ FailureLimit \in Nat
      /\ request[w] \in [step : {"get", "add", "incr", "set", "check", "verify"},
                         ip : Addresses, who : Accounts]
    BY SignInAssumption DEF SignInInv, STypeOK, Check, Fail, Serving, Attempt, NoRequest
<1>2. ASSUME NEW a \in Accounts
      PROVE  /\ guesses[a] = ByAccount(a) /\ guesses[a] \in Nat
             /\ guesses[a] + Cardinality(Guessing(a)) <= FailureLimit + Others
             /\ Cardinality(Guessing(a)) \in Nat /\ Cardinality(Workers) \in Nat
    BY WorkersCount DEF SignInInv, GuessCounts, STypeOK, Guessing
<1>3. CASE Check(w) /\ LockedOut(ip0, a0)
    <2>1. request' = [request EXCEPT ![w] = NoRequest] /\ NoRequest.step # "verify"
        BY <1>3 DEF Check, Ends, NoRequest
    <2> QED BY <1>3, <2>1, LeftAlone DEF Check
<1>4. CASE Check(w) /\ ~LockedOut(ip0, a0)
    <2> DEFINE r == [request[w] EXCEPT !.step = "verify"]
    <2>1. request' = [request EXCEPT ![w] = r] /\ r.who = a0
        BY <1>1, <1>4 DEF Check, NextStep
    <2>2. UNCHANGED <<failures, guesses>> /\ ~(ByAccount(a0) >= FailureLimit)
        BY <1>4 DEF Check, LockedOut
    <2> HIDE DEF r
    <2> SUFFICES ASSUME NEW a \in Accounts
                 PROVE  /\ guesses'[a] = ByAccount(a)'
                        /\ guesses'[a] + Cardinality(Guessing(a)') <= FailureLimit + Others
        BY DEF GuessCounts, Others
    <2>3. ByAccount(a)' = ByAccount(a)
        BY <2>2, AccountSum
    <2>4. /\ Cardinality(Guessing(a)') \in Nat /\ Cardinality(Guessing(a)') <= Cardinality(Workers)
          /\ a # a0 => Cardinality(Guessing(a)') <= Cardinality(Guessing(a))
        BY <1>1, <2>1, GuessingMoves
    <2>5. CASE a = a0
        BY <1>1, <1>2, <2>2, <2>3, <2>4, <2>5 DEF Others
    <2>6. CASE a # a0
        BY <1>1, <1>2, <2>2, <2>3, <2>4, <2>6 DEF Others
    <2> QED BY <2>5, <2>6
<1>5. ASSUME NEW what \in {"password", "code"}, Fail(w, what) PROVE GuessCounts'
    <2>1. /\ request' = [request EXCEPT ![w] = NoRequest] /\ NoRequest.step # "verify"
          /\ guesses' = [guesses EXCEPT ![a0] = @ + 1]
          /\ failures' = [failures EXCEPT ![<<ip0, a0>>] = @ + 1]
          /\ w \in Guessing(a0)
        BY <1>5 DEF Fail, Ends, NoRequest, CountsAsFailure, Guessing
    <2> SUFFICES ASSUME NEW a \in Accounts
                 PROVE  /\ guesses'[a] = ByAccount(a)'
                        /\ guesses'[a] + Cardinality(Guessing(a)') <= FailureLimit + Others
        BY DEF GuessCounts, Others
    <2> DEFINE f == [ip \in Addresses |-> failures[<<ip, a>>]]
               g == [ip \in Addresses |-> failures'[<<ip, a>>]]
    <2>2. ByAccount(a) = SumOf(f, Addresses) /\ ByAccount(a)' = SumOf(g, Addresses)
        BY AccountSum
    <2>3. /\ Cardinality(Guessing(a)') = Cardinality(Guessing(a))
                                         - (IF w \in Guessing(a) THEN 1 ELSE 0)
          /\ Cardinality(Guessing(a)') \in Nat
        BY <1>1, <2>1, GuessingMoves
    <2>4. failures \in [Addresses \X Accounts -> Nat] /\ IsFiniteSet(Addresses)
        BY <1>1, SignInAssumption DEF STypeOK
    <2>5. \A ip \in Addresses : /\ f[ip] \in Nat /\ g[ip] \in Nat
                                /\ g[ip] = IF ip = ip0 /\ a = a0 THEN f[ip] + 1 ELSE f[ip]
        <3> SUFFICES ASSUME NEW ip \in Addresses
                     PROVE  LET k == <<ip, a>>
                            IN  /\ failures[k] \in Nat /\ failures'[k] \in Nat
                                /\ failures'[k] = IF ip = ip0 /\ a = a0 THEN failures[k] + 1
                                                                        ELSE failures[k]
            OBVIOUS
        <3> DEFINE k  == <<ip, a>>
                   k0 == <<ip0, a0>>
        <3>1. k \in Addresses \X Accounts /\ k0 \in Addresses \X Accounts
            BY <1>1
        <3>2. k = k0 <=> ip = ip0 /\ a = a0
            OBVIOUS
        <3>3. failures' = [failures EXCEPT ![k0] = @ + 1]
            BY <2>1
        <3> HIDE DEF k, k0
        <3>4. /\ failures[k] \in Nat /\ failures'[k] \in Nat
              /\ failures'[k] = IF k = k0 THEN failures[k] + 1 ELSE failures[k]
            BY <2>4, <3>1, <3>3
        <3> QED BY <3>2, <3>4 DEF k
    <2> HIDE DEF f, g
    <2>6. CASE a = a0
        <3>1. SumOf(g, Addresses) = SumOf(f, Addresses) - f[ip0] + g[ip0]
            BY <1>1, <2>4, <2>5, <2>6, SumChange
        <3>2. SumOf(f, Addresses) \in Int
            BY <2>4, <2>5, SumInt
        <3>3. g[ip0] = f[ip0] + 1 /\ f[ip0] \in Nat
            BY <1>1, <2>5, <2>6
        <3>4. guesses'[a] = guesses[a] + 1
            BY <1>1, <2>1, <2>6 DEF STypeOK
        <3>5. Others \in Int
            BY <1>2 DEF Others
        <3> QED BY <1>1, <1>2, <2>1, <2>2, <2>3, <2>6, <3>1, <3>2, <3>3, <3>4, <3>5
    <2>7. CASE a # a0
        <3>1. SumOf(g, Addresses) = SumOf(f, Addresses)
            BY <2>4, <2>5, <2>7, SumSame
        <3>2. guesses'[a] = guesses[a]
            BY <1>1, <2>1, <2>7 DEF STypeOK
        <3>3. Others \in Int
            BY <1>2 DEF Others
        <3> QED BY <1>1, <1>2, <2>2, <2>3, <3>1, <3>2, <3>3
    <2> QED BY <2>6, <2>7
<1> QED BY <1>3, <1>4, <1>5

LEMMA SignInStep ==
    ASSUME SignInInv, NEW w \in Workers, PostStep(w)
    PROVE  SignInInv'
<1>0. STypeOK'
    BY SignInTypes DEF SignInInv, SNext
<1>1. request[w] \in Attempt /\ \A s : request[w] # NoRequest =>
          /\ [request[w] EXCEPT !.step = s].step = s
    BY DEF SignInInv, STypeOK, Attempt
<1>2. NoRequest.step = "idle"
    BY DEF NoRequest
<1>3. ASSUME NEW ip \in Addresses, NEW who \in Accounts, Post(w, ip, who)
      PROVE  KeyCounts' /\ DoorCounts' /\ GuessCounts'
    <2> DEFINE r == IF AfterProbe(w) = "idle" THEN NoRequest
                    ELSE [step |-> AfterProbe(w), ip |-> ip, who |-> who]
    <2>1. /\ request' = [request EXCEPT ![w] = r] /\ r.step \in {"get", "idle"}
          /\ r.step = "get" => up
          /\ UNCHANGED <<count, up, let, lost, unseen, failures, guesses>>
        BY <1>2, <1>3 DEF Post, AfterProbe
    <2> HIDE DEF r
    <2>2. KeyCounts' /\ GuessCounts'
        BY <2>1, LeftAlone
    <2>3. ASSUME up PROVE DoorCounts'
        BY <2>1, <2>3 DEF SignInInv, DoorCounts
    <2>4. ASSUME ~up PROVE DoorCounts'
        BY <2>1, <2>4, LeftAlone
    <2> QED BY <2>2, <2>3, <2>4
<1>4. ASSUME Get(w) \/ AddKey(w) \/ Incr(w) \/ SetKey(w)
      PROVE  KeyCounts' /\ DoorCounts' /\ GuessCounts'
    <2>1. KeyCounts'
        BY <1>4, KeyStep
    <2>2. PICK s \in {"idle", "add", "incr", "set", "check"} :
              request' = [request EXCEPT ![w] = IF s = "idle" THEN NoRequest
                                                ELSE [request[w] EXCEPT !.step = s]]
        BY <1>4 DEF Get, AddKey, Incr, SetKey, LetThrough, NextStep, Ends
    <2> DEFINE r == IF s = "idle" THEN NoRequest ELSE [request[w] EXCEPT !.step = s]
    <2>3. /\ request' = [request EXCEPT ![w] = r] /\ r.step = s
          /\ UNCHANGED <<up, unseen, failures, guesses>> /\ w \in Probed
        BY <1>1, <1>2, <1>4, <2>2 DEF Get, AddKey, Incr, SetKey, LetThrough, Serving, Probed, NoRequest
    <2> HIDE DEF r
    <2>4. DoorCounts' /\ GuessCounts'
        BY <2>3, LeftAlone
    <2> QED BY <2>1, <2>4
<1>5. ASSUME Uncounted(w)
      PROVE  KeyCounts' /\ DoorCounts' /\ GuessCounts'
    <2> DEFINE r == [request[w] EXCEPT !.step = "check"]
    <2>1. /\ request' = [request EXCEPT ![w] = r] /\ r.step = "check"
          /\ UNCHANGED <<count, up, let, lost, failures, guesses>>
        BY <1>1, <1>2, <1>5 DEF Uncounted, NextStep
    <2> HIDE DEF r
    <2> QED BY <1>5, <2>1, LeftAlone, UncountedStep
<1>6. ASSUME Check(w) \/ \E what \in {"password", "code"} : Fail(w, what)
      PROVE  KeyCounts' /\ DoorCounts' /\ GuessCounts'
    <2>1. GuessCounts'
        BY <1>6, GuessStep
    <2>2. PICK s \in {"idle", "verify"} :
              request' = [request EXCEPT ![w] = IF s = "idle" THEN NoRequest
                                                ELSE [request[w] EXCEPT !.step = s]]
        BY <1>6 DEF Check, Fail, NextStep, Ends
    <2> DEFINE r == IF s = "idle" THEN NoRequest ELSE [request[w] EXCEPT !.step = s]
    <2>3. /\ request' = [request EXCEPT ![w] = r] /\ r.step = s
          /\ UNCHANGED <<count, up, let, lost, unseen>>
        BY <1>1, <1>2, <1>6, <2>2 DEF Check, Fail, Serving, NoRequest
    <2> HIDE DEF r
    <2> QED BY <2>1, <2>3, LeftAlone
<1>7. ASSUME Sign(w)
      PROVE  KeyCounts' /\ DoorCounts' /\ GuessCounts'
    <2>1. /\ request' = [request EXCEPT ![w] = NoRequest]
          /\ UNCHANGED <<count, up, let, lost, unseen, failures, guesses>>
        BY <1>7 DEF Sign, Ends
    <2> QED BY <1>2, <2>1, LeftAlone
<1> QED BY <1>0, <1>3, <1>4, <1>5, <1>6, <1>7 DEF PostStep, SignInInv

\* Time, and the cache.
LEMMA SignInEnvironment ==
    ASSUME SignInInv, [SNext]_svars, ~\E w \in Workers : PostStep(w)
    PROVE  SignInInv'
<1>1. STypeOK /\ STypeOK' /\ Cardinality(Workers) \in Nat /\ Limit \in Nat \ {0} /\ FailureLimit \in Nat
    BY SignInTypes, WorkersCount, SignInAssumption DEF SignInInv
<1>2. /\ \A ip \in Addresses : /\ Cardinality(Uncounting(ip)) \in Nat
                               /\ Cardinality(Uncounting(ip)) <= Cardinality(Workers)
      /\ \A a \in Accounts : /\ Cardinality(Guessing(a)) \in Nat
                             /\ Cardinality(Guessing(a)) <= Cardinality(Workers)
      /\ Cardinality(Probed) \in Nat /\ Cardinality(Probed) <= Cardinality(Workers)
    BY WorkersCount DEF Uncounting, Guessing, Probed
<1>3. UNCHANGED request
    BY DEF SNext, WindowEnds, MarkEnds, CacheFails, CacheReturns, CoolOff, svars
<1>4. /\ \A ip \in Addresses : Uncounting(ip)' = Uncounting(ip)
      /\ \A a \in Accounts : Guessing(a)' = Guessing(a)
      /\ Probed' = Probed
    BY <1>3 DEF Uncounting, Guessing, Probed, Serving
<1>5. ASSUME UNCHANGED <<count, let, lost>>, up' => up
      PROVE  KeyCounts'
    BY <1>4, <1>5 DEF SignInInv, KeyCounts, Others
<1>6. ASSUME UNCHANGED <<failures, guesses>>
      PROVE  GuessCounts'
    BY <1>4, <1>6, AccountSum DEF SignInInv, GuessCounts, Others
<1>7. ASSUME UNCHANGED <<up, unseen>>
      PROVE  DoorCounts'
    BY <1>4, <1>7 DEF SignInInv, DoorCounts
<1>8. ASSUME NEW ip \in Addresses, WindowEnds(ip) PROVE KeyCounts'
    <2> SUFFICES ASSUME NEW i \in Addresses
                 PROVE  /\ let'[i] - lost'[i] = count'[i]
                        /\ count'[i] <= Limit + Others
                        /\ up' => count'[i] + Cardinality(Uncounting(i)) <= Limit + Others
        BY <1>4 DEF KeyCounts, Others
    <2>1. CASE i = ip
        <3>1. let'[i] = 0 /\ lost'[i] = 0 /\ count'[i] = 0
            BY <1>1, <1>8, <2>1 DEF WindowEnds, STypeOK
        <3> QED BY <1>1, <1>2, <3>1 DEF Others
    <2>2. CASE i # ip
        <3>1. let'[i] = let[i] /\ lost'[i] = lost[i] /\ count'[i] = count[i] /\ up' = up
            BY <1>1, <1>8, <2>2 DEF WindowEnds, STypeOK
        <3> QED BY <3>1 DEF SignInInv, KeyCounts
    <2> QED BY <2>1, <2>2
<1>9. ASSUME CacheReturns PROVE KeyCounts' /\ DoorCounts'
    <2>1. \A ip \in Addresses : let'[ip] = 0 /\ lost'[ip] = 0 /\ count'[ip] = 0
        BY <1>9 DEF CacheReturns
    <2>2. KeyCounts'
        BY <1>1, <1>2, <1>4, <2>1 DEF KeyCounts, Others
    <2> QED BY <1>9, <2>2 DEF CacheReturns, DoorCounts
<1>10. ASSUME CacheFails PROVE DoorCounts'
    BY <1>1, <1>2, <1>4, <1>10 DEF CacheFails, DoorCounts, SignInInv
<1>11. ASSUME CoolOff PROVE GuessCounts'
    <2> SUFFICES ASSUME NEW a \in Accounts
                 PROVE  /\ guesses'[a] = ByAccount(a)'
                        /\ guesses'[a] + Cardinality(Guessing(a)) <= FailureLimit + Others
        BY <1>4 DEF GuessCounts, Others
    <2> DEFINE g == [ip \in Addresses |-> failures'[<<ip, a>>]]
    <2>1. guesses'[a] = 0 /\ \A f \in DOMAIN failures : failures'[f] = 0
        BY <1>11 DEF CoolOff
    <2>2. \A ip \in Addresses : g[ip] = 0
        BY <1>1, <2>1 DEF STypeOK
    <2> HIDE DEF g
    <2>3. SumOf(g, Addresses) = 0
        BY <2>2, SumZero, SignInAssumption
    <2>4. ByAccount(a)' = 0
        BY <2>3, AccountSum DEF g
    <2> QED BY <1>1, <1>2, <2>1, <2>4, SignInAssumption DEF Others
<1>12. ASSUME NEW ip \in Addresses, WindowEnds(ip) \/ MarkEnds(ip) PROVE SignInInv'
    BY <1>1, <1>5, <1>6, <1>7, <1>8, <1>12 DEF SignInInv, WindowEnds, MarkEnds
<1>13. ASSUME CacheFails \/ CacheReturns \/ CoolOff PROVE SignInInv'
    <2>1. ASSUME CacheFails PROVE SignInInv'
        BY <1>1, <1>5, <1>6, <1>10, <2>1 DEF SignInInv, CacheFails
    <2>2. ASSUME CacheReturns PROVE SignInInv'
        BY <1>1, <1>6, <1>9, <2>2 DEF SignInInv, CacheReturns
    <2>3. ASSUME CoolOff PROVE SignInInv'
        BY <1>1, <1>5, <1>7, <1>11, <2>3 DEF SignInInv, CoolOff
    <2> QED BY <1>13, <2>1, <2>2, <2>3
<1>14. ASSUME UNCHANGED svars PROVE SignInInv'
    BY <1>1, <1>5, <1>6, <1>7, <1>14 DEF SignInInv, svars
<1> QED BY <1>12, <1>13, <1>14 DEF SNext

LEMMA SignInStart == SInit => SignInInv
<1> SUFFICES ASSUME SInit PROVE SignInInv
    OBVIOUS
<1>1. Cardinality(Workers) \in Nat /\ Limit \in Nat \ {0} /\ FailureLimit \in Nat \ {0}
    BY WorkersCount, SignInAssumption
<1>2. STypeOK
    BY DEF SInit, STypeOK, Attempt
<1>3. \A w \in Workers : request[w].step = "idle"
    BY DEF SInit, NoRequest
<1>4. /\ Probed = {} /\ \A ip \in Addresses : Uncounting(ip) = {}
      /\ \A a \in Accounts : Guessing(a) = {}
    BY <1>3 DEF Probed, Uncounting, Guessing, Serving
<1>5. Cardinality({}) = 0
    BY FS_EmptySet
<1>7. KeyCounts
    <2> SUFFICES ASSUME NEW ip \in Addresses
                 PROVE  /\ let[ip] - lost[ip] = count[ip]
                        /\ count[ip] <= Limit + Others
                        /\ count[ip] + Cardinality(Uncounting(ip)) <= Limit + Others
        BY DEF KeyCounts
    <2>1. let[ip] = 0 /\ lost[ip] = 0 /\ count[ip] = 0
        BY DEF SInit
    <2>2. Cardinality(Uncounting(ip)) = 0
        BY <1>4, <1>5
    <2> QED BY <1>1, <2>1, <2>2 DEF Others
<1>8. \A a \in Accounts : ByAccount(a) = 0
    <2> SUFFICES ASSUME NEW a \in Accounts PROVE ByAccount(a) = 0
        OBVIOUS
    <2> DEFINE g == [ip \in Addresses |-> failures[<<ip, a>>]]
    <2>1. \A ip \in Addresses : g[ip] = 0
        BY DEF SInit
    <2> HIDE DEF g
    <2>2. SumOf(g, Addresses) = 0
        BY <2>1, SumZero, SignInAssumption
    <2> QED BY <2>2, AccountSum DEF g
<1>9. GuessCounts
    <2> SUFFICES ASSUME NEW a \in Accounts
                 PROVE  /\ guesses[a] = ByAccount(a)
                        /\ guesses[a] + Cardinality(Guessing(a)) <= FailureLimit + Others
        BY DEF GuessCounts
    <2>1. guesses[a] = 0
        BY DEF SInit
    <2>2. Cardinality(Guessing(a)) = 0
        BY <1>4, <1>5
    <2> QED BY <1>1, <1>8, <2>1, <2>2 DEF Others
<1>10. DoorCounts
    BY <1>1, <1>4, <1>5 DEF SInit, DoorCounts
<1> QED BY <1>2, <1>7, <1>9, <1>10 DEF SignInInv

LEMMA SignInStands ==
    ASSUME SignInInv PROVE SignInHolds
<1>1. Cardinality(Workers) \in Nat
    BY WorkersCount
<1>2. LimitHolds
    BY DEF SignInInv, KeyCounts, LimitHolds
<1>3. OutageClosesDoor
    <2>1. Cardinality(Probed) \in Nat
        BY WorkersCount DEF Probed
    <2> QED BY <1>1, <2>1 DEF SignInInv, STypeOK, DoorCounts, OutageClosesDoor
<1>4. ASSUME NEW a \in Accounts PROVE guesses[a] <= FailureLimit + Others
    <2>1. Cardinality(Guessing(a)) \in Nat /\ FailureLimit \in Nat
        BY WorkersCount, SignInAssumption DEF Guessing
    <2> QED BY <1>1, <2>1 DEF SignInInv, STypeOK, GuessCounts, Others
<1> QED BY <1>2, <1>3, <1>4 DEF GuessesBounded, SignInHolds

(* Backups *)

\* The kinds of files, and where a cycle is before its copy is whole.
Kinds   == {"dump", "age", "sha256"}
Writing == {"checksum", "encrypt"}

KTypeOK ==
    /\ job \in {"service", "snapshot"} /\ now \in Nat
    /\ step \in {"start", "checksum", "encrypt", "sync", "prune", "end"}
    /\ step \in {"encrypt", "sync"} => job = "service"
    /\ files \subseteq (0..now) \X Kinds
    /\ {made, killed} \subseteq SUBSET (0..now)

\* What the cycle has of its own copy.
OwnCopy ==
    /\ step # "end" => now \notin killed
    /\ step \in {"start", "checksum", "encrypt"} => now \notin made /\ <<now, "age">> \notin files
    /\ step = "start" => now \notin Stamps
    /\ step = "checksum" => <<now, "dump">> \in files /\ <<now, "sha256">> \notin files
    /\ step = "encrypt"  => <<now, "sha256">> \in files

\* A copy that is not whole is being written, or its cycle was killed.
Halves == \A t \in Stamps : t \in Complete \/ t \in killed \/ (t = now /\ step \in Writing)

PlainLeft ==
    job = "service" =>
        /\ \A t \in 0..now : <<t, "dump">> \in files => t \in killed \/ (t = now /\ step \in Writing)
        /\ \A f \in offsite : f[2] # "dump"

BackupsInv == KTypeOK /\ OwnCopy /\ Halves /\ PlainLeft /\ NothingIsUncovered

\* Stamps are times.
LEMMA PairTimes ==
    ASSUME NEW F, NEW n, F \subseteq (0..n) \X Kinds, NEW N \in SUBSET Kinds, N # {}
    PROVE  LET S == {f[1] : f \in F}
           IN  /\ \A t : t \in S <=> t \in 0..n /\ \E k \in Kinds : <<t, k>> \in F
               /\ \A t : (t \in S /\ {t} \X N \subseteq F) <=>
                        (t \in 0..n /\ \A k \in N : <<t, k>> \in F)
<1> DEFINE S == {f[1] : f \in F}
<1>1. ASSUME NEW t
      PROVE  t \in S <=> t \in 0..n /\ \E k \in Kinds : <<t, k>> \in F
    <2>1. ASSUME NEW f \in F PROVE f[1] \in 0..n /\ f[2] \in Kinds /\ f = <<f[1], f[2]>>
        OBVIOUS
    <2>2. ASSUME NEW k \in Kinds, <<t, k>> \in F PROVE t \in S
        BY <2>2
    <2>3. ASSUME t \in S PROVE t \in 0..n /\ \E k \in Kinds : <<t, k>> \in F
        <3>1. PICK f \in F : f[1] = t
            BY <2>3
        <3> QED BY <2>1, <3>1
    <2> QED BY <2>2, <2>3
<1>2. ASSUME NEW t
      PROVE  {t} \X N \subseteq F <=> \A k \in N : <<t, k>> \in F
    OBVIOUS
<1> HIDE DEF S
<1>3. ASSUME NEW t
      PROVE  (t \in S /\ {t} \X N \subseteq F) <=> (t \in 0..n /\ \A k \in N : <<t, k>> \in F)
    BY <1>1, <1>2
<1> QED BY <1>1, <1>3 DEF S

LEMMA StampTimes ==
    /\ KTypeOK => /\ \A t : t \in Stamps <=> t \in 0..now /\ \E k \in Kinds : <<t, k>> \in files
                  /\ Stamps \subseteq Nat /\ Complete \subseteq Stamps
                  /\ \A t : t \in Complete <=>
                         t \in 0..now /\ \A k \in Needed : <<t, k>> \in files
    /\ KTypeOK' => /\ \A t : t \in Stamps' <=> t \in 0..now' /\ \E k \in Kinds : <<t, k>> \in files'
                   /\ Stamps' \subseteq Nat /\ Complete' \subseteq Stamps'
                   /\ \A t : t \in Complete' <=>
                          t \in 0..now' /\ \A k \in Needed' : <<t, k>> \in files'
<1>1. Needed \in SUBSET Kinds /\ Needed # {} /\ Needed' \in SUBSET Kinds /\ Needed' # {}
    BY DEF Needed, Kinds
<1>2. ASSUME KTypeOK
      PROVE  /\ \A t : t \in Stamps <=> t \in 0..now /\ \E k \in Kinds : <<t, k>> \in files
             /\ \A t : t \in Complete <=> t \in 0..now /\ \A k \in Needed : <<t, k>> \in files
    <2>1. files \subseteq (0..now) \X Kinds
        BY <1>2 DEF KTypeOK
    <2> QED BY <1>1, <2>1, PairTimes DEF Stamps, Complete
<1>3. ASSUME KTypeOK'
      PROVE  /\ \A t : t \in Stamps' <=> t \in 0..now' /\ \E k \in Kinds : <<t, k>> \in files'
             /\ \A t : t \in Complete' <=> t \in 0..now' /\ \A k \in Needed' : <<t, k>> \in files'
    <2>1. files' \subseteq (0..now') \X Kinds
        BY <1>3 DEF KTypeOK
    <2> QED BY <1>1, <2>1, PairTimes DEF Stamps, Complete
<1>4. KTypeOK => now \in Nat
    BY DEF KTypeOK
<1>5. KTypeOK' => now' \in Nat
    BY DEF KTypeOK
<1> QED BY <1>2, <1>3, <1>4, <1>5 DEF Complete

\* Of the copies in a bucket prune keeps the last.
LEMMA BucketKept ==
    ASSUME KTypeOK, NEW u \in Stamps
    PROVE  /\ Tier(u) = "all" => u \in Retained
           /\ Tier(u) = "daily" =>
                 \E v \in Retained : v \in Stamps /\ v >= u /\ CycleDay(v) = CycleDay(u)
           /\ Tier(u) = "weekly" =>
                 \E v \in Retained : v \in Stamps /\ v >= u /\ Week(v) = Week(u)
<1>1. Stamps \subseteq 0..now /\ now \in Nat /\ IsFiniteSet(0..now)
    BY StampTimes, FS_Interval DEF KTypeOK
<1>2. ASSUME Tier(u) = "daily"
      PROVE  \E v \in Retained : v \in Stamps /\ v >= u /\ CycleDay(v) = CycleDay(u)
    <2> DEFINE S == {v \in InTier("daily") : CycleDay(v) = CycleDay(u)}
    <2>1. S \subseteq 0..now /\ u \in S
        BY <1>1, <1>2 DEF InTier
    <2>2. IsFiniteSet(S)
        BY <1>1, <2>1, FS_Subset
    <2>3. S \subseteq Nat
        BY <1>1, <2>1
    <2> HIDE DEF S
    <2>4. PICK v \in S : \A m \in S : m <= v
        BY <2>1, <2>2, <2>3, GreatestOf
    <2>5. v \in Stamps /\ v \in InTier("daily") /\ CycleDay(v) = CycleDay(u) /\ v >= u
        BY <2>1, <2>3, <2>4 DEF S, InTier
    <2>6. ASSUME NEW w \in StandIns(InTier("daily"), v) PROVE CycleDay(w) # CycleDay(v)
        BY <1>1, <2>3, <2>4, <2>5, <2>6 DEF StandIns, S, InTier
    <2> QED BY <2>5, <2>6 DEF Retained
<1>3. ASSUME Tier(u) = "weekly"
      PROVE  \E v \in Retained : v \in Stamps /\ v >= u /\ Week(v) = Week(u)
    <2> DEFINE S == {v \in InTier("weekly") : Week(v) = Week(u)}
    <2>1. S \subseteq 0..now /\ u \in S
        BY <1>1, <1>3 DEF InTier
    <2>2. IsFiniteSet(S)
        BY <1>1, <2>1, FS_Subset
    <2>3. S \subseteq Nat
        BY <1>1, <2>1
    <2> HIDE DEF S
    <2>4. PICK v \in S : \A m \in S : m <= v
        BY <2>1, <2>2, <2>3, GreatestOf
    <2>5. v \in Stamps /\ v \in InTier("weekly") /\ Week(v) = Week(u) /\ v >= u
        BY <2>1, <2>3, <2>4 DEF S, InTier
    <2>6. ASSUME NEW w \in StandIns(InTier("weekly"), v) PROVE Week(w) # Week(v)
        BY <1>1, <2>3, <2>4, <2>5, <2>6 DEF StandIns, S, InTier
    <2> QED BY <2>5, <2>6 DEF Retained
<1> QED BY <1>2, <1>3 DEF Retained, InTier

\* A prune that goes well leaves every day and week its copy.
LEMMA PruneCovers ==
    ASSUME BackupsInv, step = "prune", UNCHANGED <<job, now, made, killed>>,
           files' = {f \in files : f[1] \in Retained}, KTypeOK'
    PROVE  Halves' /\ NothingIsUncovered'
<1>1. KTypeOK /\ now \in Nat /\ Needed' = Needed /\ Kinds' = Kinds
    BY DEF BackupsInv, KTypeOK, Needed
<1>2. \A t : t \in Stamps' <=> t \in Stamps /\ t \in Retained
    <2> SUFFICES ASSUME NEW t PROVE t \in Stamps' <=> t \in Stamps /\ t \in Retained
        OBVIOUS
    <2> QED BY DEF Stamps
<1>3. \A t : t \in Complete' <=> t \in Complete /\ t \in Retained
    <2> SUFFICES ASSUME NEW t PROVE t \in Complete' <=> t \in Complete /\ t \in Retained
        OBVIOUS
    <2>1. {t} \X Needed \subseteq files <=> \A k \in Needed : <<t, k>> \in files
        OBVIOUS
    <2>2. {t} \X Needed \subseteq files' <=> \A k \in Needed : <<t, k>> \in files'
        OBVIOUS
    <2>3. \A k : <<t, k>> \in files' <=> <<t, k>> \in files /\ t \in Retained
        OBVIOUS
    <2>4. Needed # {}
        BY DEF Needed
    <2> QED BY <1>1, <1>2, <2>1, <2>2, <2>3, <2>4 DEF Complete
<1>4. \A t \in Stamps : t \in Complete \/ t \in killed
    BY DEF BackupsInv, Halves, Writing
<1>5. Halves'
    BY <1>2, <1>3, <1>4 DEF Halves
<1>6. \A u \in Stamps, t \in made : u \in Nat /\ t \in Nat
    BY <1>1, StampTimes DEF KTypeOK
<1>7. /\ KeepAll \in Nat /\ KeepDaily \in Nat /\ KeepWeekly \in Nat
      /\ KeepAll <= KeepDaily /\ KeepDaily <= KeepWeekly
    BY BackupsAssumption
<1>8. ASSUME NEW t \in made, now - t <= KeepAll PROVE t \in Complete'
    <2>1. t \in Complete /\ Tier(t) = "all" /\ t \in Stamps
        BY <1>1, <1>8, StampTimes DEF BackupsInv, NothingIsUncovered, Tier
    <2> QED BY <1>1, <1>3, <2>1, BucketKept
<1>9. ASSUME NEW t \in made, NEW v \in Stamps, v \in Retained, v >= t
      PROVE  v \in Stamps' /\ StandsFor(v, t)'
    BY <1>2, <1>3, <1>4, <1>9 DEF StandsFor
<1>10. ASSUME NEW t \in made, now - t <= KeepDaily
       PROVE  \E u \in Stamps' : CycleDay(u) = CycleDay(t) /\ StandsFor(u, t)'
    <2>1. PICK u \in Stamps : CycleDay(u) = CycleDay(t) /\ u >= t
        BY <1>10 DEF BackupsInv, NothingIsUncovered, StandsFor
    <2>2. Tier(u) \in {"all", "daily"}
        BY <1>1, <1>6, <1>7, <1>10, <2>1 DEF Tier
    <2>3. PICK v \in Stamps : v \in Retained /\ v >= u /\ CycleDay(v) = CycleDay(u)
        BY <1>1, <1>6, <2>2, BucketKept
    <2>4. v >= t
        BY <1>6, <2>1, <2>3
    <2> QED BY <1>9, <2>1, <2>3, <2>4
<1>11. ASSUME NEW t \in made, now - t <= KeepWeekly
       PROVE  \E u \in Stamps' : Week(u) = Week(t) /\ StandsFor(u, t)'
    <2>1. PICK u \in Stamps : Week(u) = Week(t) /\ u >= t
        BY <1>11 DEF BackupsInv, NothingIsUncovered, StandsFor
    <2>2. Tier(u) \in {"all", "daily", "weekly"}
        BY <1>1, <1>6, <1>7, <1>11, <2>1 DEF Tier
    <2>3. PICK v \in Stamps : v \in Retained /\ v >= u /\ Week(v) = Week(u)
        <3>1. CASE Tier(u) = "daily"
            <4>1. PICK v \in Stamps : v \in Retained /\ v >= u /\ CycleDay(v) = CycleDay(u)
                BY <1>1, <3>1, BucketKept
            <4> QED BY <4>1 DEF Week
        <3> QED BY <1>1, <1>6, <2>2, <3>1, BucketKept
    <2>4. v >= t
        BY <1>6, <2>1, <2>3
    <2> QED BY <1>9, <2>1, <2>3, <2>4
<1>12. NothingIsUncovered'
    <2> SUFFICES ASSUME NEW t \in made
                 PROVE  /\ now - t <= KeepAll   => t \in Complete'
                        /\ now - t <= KeepDaily =>
                              \E u \in Stamps' : CycleDay(u) = CycleDay(t) /\ StandsFor(u, t)'
                        /\ now - t <= KeepWeekly =>
                              \E u \in Stamps' : Week(u) = Week(t) /\ StandsFor(u, t)'
        BY DEF NothingIsUncovered
    <2> QED BY <1>8, <1>10, <1>11
<1> QED BY <1>5, <1>12

LEMMA Sooner == \A a, b, t, k \in Nat : a <= b /\ b - t <= k => a - t <= k
OBVIOUS

\* What was covered is, while no copy of it goes; a copy just made covers itself.
LEMMA StillCovered ==
    ASSUME BackupsInv, KTypeOK', now' >= now,
           \A t \in Complete : t \in Complete' , \A t \in Stamps \cap killed : t \in Stamps',
           killed \subseteq killed', \A t \in made' \ made : t = now' /\ t \in Complete'
    PROVE  NothingIsUncovered'
<1>1. KTypeOK /\ now \in Nat /\ now' \in Nat /\ now' >= now
    BY DEF BackupsInv, KTypeOK
<1>2. /\ KeepAll \in Nat /\ KeepDaily \in Nat /\ KeepWeekly \in Nat
    BY BackupsAssumption
<1> SUFFICES ASSUME NEW t \in made'
             PROVE  /\ now' - t <= KeepAll   => t \in Complete'
                    /\ now' - t <= KeepDaily =>
                          \E u \in Stamps' : CycleDay(u) = CycleDay(t) /\ StandsFor(u, t)'
                    /\ now' - t <= KeepWeekly =>
                          \E u \in Stamps' : Week(u) = Week(t) /\ StandsFor(u, t)'
    BY DEF NothingIsUncovered
<1>3. Complete' \subseteq Stamps' /\ t \in Nat
    BY DEF Complete, KTypeOK
<1>4. CASE t \notin made
    <2>1. t \in Complete' /\ t \in Stamps' /\ t >= t
        BY <1>3, <1>4
    <2> QED BY <2>1 DEF StandsFor
<1>5. CASE t \in made
    <2>1. /\ now' - t <= KeepAll => now - t <= KeepAll
          /\ now' - t <= KeepDaily => now - t <= KeepDaily
          /\ now' - t <= KeepWeekly => now - t <= KeepWeekly
        <3>1. \A k \in Nat : now' - t <= k => now - t <= k
            BY <1>1, <1>3, Sooner
        <3> QED BY <1>2, <3>1
    <2>2. \A u \in Stamps : StandsFor(u, t) => u \in Stamps' /\ StandsFor(u, t)'
        BY <1>3 DEF StandsFor
    <2> QED BY <1>5, <2>1, <2>2 DEF BackupsInv, NothingIsUncovered
<1> QED BY <1>4, <1>5

LEMMA BackupsTypes == ASSUME KTypeOK, KNext PROVE KTypeOK'
<1> USE DEF KTypeOK, Kinds
<1>1. CASE Dump \/ Checksum
    BY <1>1 DEF Dump, Checksum, Moves, StepsTo
<1>2. CASE Encrypt \/ Fails
    BY <1>2 DEF Encrypt, Fails, Moves, StepsTo
<1>3. CASE Sync
    BY <1>3 DEF Sync, StepsTo
<1>4. CASE Prune
    BY <1>4 DEF Prune, StepsTo
<1>5. CASE KillCycle
    BY <1>5 DEF KillCycle
<1>6. CASE Sleep
    BY <1>6 DEF Sleep
<1> QED BY <1>1, <1>2, <1>3, <1>4, <1>5, <1>6 DEF KNext

\* Files of the past do not change until they are pruned.
LEMMA WritesOwn ==
    ASSUME BackupsInv, KTypeOK', Dump \/ Checksum \/ Encrypt \/ Fails
    PROVE  BackupsInv'
<1>1. /\ KTypeOK /\ now \in Nat /\ Needed' = Needed /\ job' = job /\ now' = now /\ killed' = killed
      /\ Kinds = {"dump", "age", "sha256"} /\ Needed \subseteq Kinds /\ Kinds' = Kinds /\ Needed # {}
      /\ job \in {"service", "snapshot"} /\ now \notin killed /\ offsite' = offsite
    BY DEF BackupsInv, OwnCopy, KTypeOK, Kinds, Dump, Checksum, Encrypt, Fails, Moves, StepsTo, Needed
<1>2. \A t : t # now => \A k : <<t, k>> \in files' <=> <<t, k>> \in files
    BY DEF Dump, Checksum, Encrypt, Fails, Leftovers
<1>3. ASSUME NEW t, t # now
      PROVE  (t \in Stamps' <=> t \in Stamps) /\ (t \in Complete' <=> t \in Complete)
    <2>1. t \in Stamps' <=> t \in Stamps
        BY <1>1, <1>2, <1>3, StampTimes
    <2>2. /\ t \in Complete <=> t \in 0..now /\ \A k \in Needed : <<t, k>> \in files
          /\ t \in Complete' <=> t \in 0..now /\ \A k \in Needed : <<t, k>> \in files'
        BY <1>1, StampTimes
    <2> QED BY <1>2, <1>3, <2>1, <2>2
<1>4. now \notin Complete
    <2>1. CASE job = "service"
        <3>1. <<now, "age">> \notin files
            BY DEF BackupsInv, OwnCopy, Dump, Checksum, Encrypt, Fails
        <3> QED BY <1>1, <2>1, <3>1, StampTimes DEF Needed
    <2>2. CASE job = "snapshot" /\ step = "start"
        BY <2>2 DEF BackupsInv, OwnCopy, Complete
    <2>3. CASE job = "snapshot" /\ step = "checksum"
        <3>1. <<now, "sha256">> \notin files
            BY <2>3 DEF BackupsInv, OwnCopy
        <3> QED BY <1>1, <2>3, <3>1, StampTimes DEF Needed
    <2> QED BY <1>1, <2>1, <2>2, <2>3 DEF Dump, Checksum, Encrypt, Fails, BackupsInv, KTypeOK
<1>5. made' \subseteq made \cup {now} /\ (now \in made' => now \in Complete')
    <2>1. CASE Dump \/ Fails
        BY <2>1 DEF Dump, Fails, BackupsInv, OwnCopy
    <2>2. CASE Checksum
        <3>1. made' = IF job = "snapshot" THEN made \cup {now} ELSE made
            BY <2>2 DEF Checksum
        <3>2. <<now, "dump">> \in files' /\ <<now, "sha256">> \in files'
            BY <2>2 DEF Checksum, BackupsInv, OwnCopy
        <3>3. now \notin made
            BY <2>2 DEF Checksum, BackupsInv, OwnCopy
        <3>4. job = "snapshot" => now \in Complete'
            BY <1>1, <3>2, StampTimes DEF Needed
        <3> QED BY <3>1, <3>3, <3>4
    <2>3. CASE Encrypt
        <3>1. /\ made' = made \cup {now} /\ job = "service"
              /\ <<now, "age">> \in files' /\ <<now, "sha256">> \in files'
            BY <2>3 DEF Encrypt, BackupsInv, OwnCopy, KTypeOK
        <3>2. now \in Complete'
            BY <1>1, <3>1, StampTimes DEF Needed
        <3> QED BY <3>1, <3>2
    <2> QED BY <2>1, <2>2, <2>3
<1>6. NothingIsUncovered'
    <2>1. \A t \in Complete : t \in Complete'
        BY <1>3, <1>4
    <2>2. \A t \in Stamps \cap killed : t \in Stamps'
        BY <1>1, <1>3
    <2>3. now' >= now /\ killed \subseteq killed' /\ \A t \in made' \ made : t = now' /\ t \in Complete'
        BY <1>1, <1>5
    <2> QED BY <2>1, <2>2, <2>3, StillCovered
<1>7. now \in Stamps' => now \in Complete' \/ step' \in Writing
    <2>1. CASE Dump
        BY <2>1 DEF Dump, Moves, StepsTo, Writing
    <2>2. CASE Checksum
        <3>1. job = "snapshot" => now \in made'
            BY <2>2 DEF Checksum
        <3>2. job = "service" => step' \in Writing
            BY <2>2 DEF Checksum, Moves, StepsTo, Writing
        <3> QED BY <1>1, <1>5, <3>1, <3>2
    <2>3. CASE Encrypt
        BY <1>5, <2>3 DEF Encrypt
    <2>4. CASE Fails
        <3>1. \A k \in Kinds : <<now, k>> \notin files'
            BY <1>1, <2>4 DEF Fails, Leftovers
        <3> QED BY <1>1, <3>1, StampTimes
    <2> QED BY <2>1, <2>2, <2>3, <2>4
<1>8. Halves'
    <2> SUFFICES ASSUME NEW t \in Stamps', t # now
                 PROVE  t \in Complete' \/ t \in killed
        BY <1>1, <1>7 DEF Halves
    <2> QED BY <1>3 DEF BackupsInv, Halves
<1>9. PlainLeft'
    <2> SUFFICES ASSUME job = "service"
                 PROVE  /\ \A t \in 0..now : <<t, "dump">> \in files' =>
                                                t \in killed \/ (t = now /\ step' \in Writing)
                        /\ \A f \in offsite : f[2] # "dump"
        BY <1>1 DEF PlainLeft
    <2>1. ASSUME <<now, "dump">> \in files' PROVE step' \in Writing
        BY <1>1, <2>1 DEF Dump, Checksum, Encrypt, Fails, Moves, StepsTo, Writing, Leftovers
    <2>2. ASSUME NEW t \in 0..now, t # now, <<t, "dump">> \in files' PROVE t \in killed
        BY <1>2, <2>2 DEF BackupsInv, PlainLeft
    <2> QED BY <2>1, <2>2 DEF BackupsInv, PlainLeft
<1>10. OwnCopy'
    <2>1. CASE Dump
        <3>1. /\ files' = files \cup {<<now, "dump">>} /\ step = "start" /\ step' = "checksum"
              /\ UNCHANGED <<now, killed, made>>
            BY <2>1 DEF Dump, Moves, StepsTo
        <3>0. now \notin Stamps /\ now \notin made
            BY <3>1 DEF BackupsInv, OwnCopy
        <3>2. /\ <<now, "sha256">> \notin files /\ <<now, "age">> \notin files
              /\ now \notin killed /\ now \notin made
            BY <1>1, <3>0 DEF Stamps
        <3> QED BY <3>1, <3>2 DEF OwnCopy
    <2>2. CASE Checksum
        <3>1. /\ files' = files \cup {<<now, "sha256">>} /\ step = "checksum"
              /\ step' = IF job = "service" THEN "encrypt" ELSE "prune"
              /\ UNCHANGED <<now, killed>> /\ made' = IF job = "snapshot" THEN made \cup {now} ELSE made
            BY <2>2 DEF Checksum, Moves, StepsTo
        <3> QED BY <1>1, <3>1 DEF BackupsInv, OwnCopy
    <2>3. CASE Encrypt
        <3>1. step = "encrypt" /\ step' = "sync" /\ UNCHANGED <<now, killed>>
            BY <2>3 DEF Encrypt, Moves, StepsTo
        <3> QED BY <1>1, <3>1 DEF OwnCopy
    <2>4. CASE Fails
        <3>1. step' = "end"
            BY <2>4 DEF Fails, StepsTo
        <3> QED BY <3>1 DEF OwnCopy
    <2> QED BY <2>1, <2>2, <2>3, <2>4
<1> QED BY <1>6, <1>8, <1>9, <1>10 DEF BackupsInv

LEMMA BackupsStep == ASSUME BackupsInv, KNext PROVE BackupsInv'
<1>1. KTypeOK /\ KTypeOK' /\ now \in Nat
    BY BackupsTypes DEF BackupsInv, KTypeOK
<1>2. CASE Dump \/ Checksum \/ Encrypt \/ Fails
    BY <1>1, <1>2, WritesOwn
<1>3. ASSUME UNCHANGED <<job, files, made>>
      PROVE  Needed' = Needed /\ Stamps' = Stamps /\ Complete' = Complete
    BY <1>3 DEF Needed, Stamps, Complete
<1>4. ASSUME UNCHANGED <<job, files, made>>, now' >= now, killed \subseteq killed'
      PROVE  NothingIsUncovered'
    BY <1>1, <1>3, <1>4, StillCovered
<1>5. ASSUME Sync PROVE BackupsInv'
    <2>1. /\ step = "sync" /\ step' = "prune" /\ UNCHANGED <<job, now, files, made, killed>>
          /\ job = "service"
          /\ offsite' = {f \in files : f[2] # "dump"} \/ offsite' = offsite
        BY <1>1, <1>5 DEF Sync, StepsTo, KTypeOK
    <2>2. OwnCopy' /\ Halves'
        BY <1>3, <2>1 DEF BackupsInv, OwnCopy, Halves, Writing
    <2>3. PlainLeft'
        BY <2>1 DEF BackupsInv, PlainLeft, Writing
    <2> QED BY <1>1, <1>4, <2>1, <2>2, <2>3 DEF BackupsInv
<1>6. ASSUME Prune PROVE BackupsInv'
    <2>1. /\ step = "prune" /\ step' = "end" /\ UNCHANGED <<job, now, offsite, made, killed>>
          /\ files' = {f \in files : f[1] \in Retained} \/ files' = files
        BY <1>6 DEF Prune, StepsTo
    <2>2. OwnCopy'
        BY <2>1 DEF OwnCopy
    <2>3. PlainLeft'
        BY <2>1 DEF BackupsInv, PlainLeft, Writing
    <2>4. CASE files' = files
        <3>1. Halves'
            BY <1>3, <2>1, <2>4 DEF BackupsInv, Halves, Writing
        <3> QED BY <1>1, <1>4, <2>1, <2>2, <2>3, <2>4, <3>1 DEF BackupsInv
    <2>5. CASE files' = {f \in files : f[1] \in Retained}
        BY <1>1, <2>1, <2>2, <2>3, <2>5, PruneCovers DEF BackupsInv
    <2> QED BY <2>1, <2>4, <2>5
<1>7. ASSUME KillCycle PROVE BackupsInv'
    <2>1. /\ step' = "end" /\ killed' = killed \cup {now} /\ UNCHANGED <<job, now, files, offsite, made>>
        BY <1>7 DEF KillCycle
    <2>2. OwnCopy' /\ Halves' /\ PlainLeft'
        BY <1>3, <2>1 DEF BackupsInv, OwnCopy, Halves, PlainLeft
    <2> QED BY <1>1, <1>4, <2>1, <2>2 DEF BackupsInv
<1>8. ASSUME Sleep PROVE BackupsInv'
    <2>1. /\ step = "end" /\ step' = "start" /\ now' = now + 1
          /\ UNCHANGED <<job, files, offsite, made, killed>>
        BY <1>8 DEF Sleep
    <2>2. now' \notin made /\ now' \notin killed
        BY <1>1, <2>1 DEF KTypeOK
    <2>3. now' \notin Stamps
        BY <1>1, <2>1, StampTimes
    <2>4. <<now', "age">> \notin files
        BY <2>3 DEF Stamps
    <2>5. OwnCopy'
        BY <1>3, <2>1, <2>2, <2>3, <2>4 DEF OwnCopy
    <2>6. Halves'
        BY <1>3, <2>1 DEF BackupsInv, Halves, Writing
    <2>7. PlainLeft'
        <3>1. \A t : <<t, "dump">> \in files => t \in 0..now
            BY <1>1 DEF KTypeOK
        <3> QED BY <2>1, <3>1 DEF BackupsInv, PlainLeft, Writing
    <2>8. now' >= now
        BY <1>1, <2>1
    <2> QED BY <1>1, <1>4, <2>1, <2>5, <2>6, <2>7, <2>8 DEF BackupsInv
<1> QED BY <1>2, <1>5, <1>6, <1>7, <1>8 DEF KNext

LEMMA BackupsStutter == ASSUME BackupsInv, UNCHANGED kvars PROVE BackupsInv'
<1>1. UNCHANGED <<job, now, step, files, offsite, made, killed>>
    BY DEF kvars
<1>2. Stamps' = Stamps /\ Complete' = Complete
    BY <1>1 DEF Stamps, Complete, Needed
<1>3. NothingIsUncovered'
    BY <1>1, <1>2 DEF BackupsInv, NothingIsUncovered, StandsFor
<1>4. KTypeOK' /\ OwnCopy' /\ Halves'
    BY <1>1, <1>2 DEF BackupsInv, KTypeOK, OwnCopy, Halves
<1>5. PlainLeft'
    BY <1>1 DEF BackupsInv, PlainLeft
<1> QED BY <1>3, <1>4, <1>5 DEF BackupsInv

LEMMA BackupsStart == KInit => BackupsInv
<1> SUFFICES ASSUME KInit PROVE BackupsInv
    OBVIOUS
<1>1. KTypeOK
    BY DEF KInit, KTypeOK
<1>2. Stamps = {} /\ made = {} /\ killed = {} /\ files = {} /\ offsite = {} /\ step = "start"
    BY DEF KInit, Stamps
<1> QED BY <1>1, <1>2 DEF BackupsInv, OwnCopy, Halves, PlainLeft, NothingIsUncovered

LEMMA BackupsStand == ASSUME BackupsInv PROVE CopiesKept
<1>1. PlainIsTransient
    <2> SUFFICES ASSUME job = "service"
                 PROVE  /\ \A f \in files : f[2] = "dump" => f[1] \in killed \/ (f[1] = now /\ step # "end")
                        /\ \A f \in offsite : f[2] # "dump"
        BY DEF PlainIsTransient
    <2>1. ASSUME NEW f \in files, f[2] = "dump"
          PROVE  f[1] \in killed \/ (f[1] = now /\ step # "end")
        <3>1. f = <<f[1], "dump">> /\ f[1] \in 0..now
            BY <2>1 DEF BackupsInv, KTypeOK
        <3> QED BY <3>1 DEF BackupsInv, PlainLeft, Writing
    <2> QED BY <2>1 DEF BackupsInv, PlainLeft
<1> QED BY <1>1 DEF BackupsInv, CopiesKept

(* The night *)

JobEntries == DOMAIN JobList

NTypeOK ==
    /\ clock \in Nat
    /\ sched \in {[step |-> "pick"], [step |-> "down"]}
                  \cup [step : {"sleep", "run"}, due : Nat, left : SUBSET JobEntries]
    /\ ran \in Seq([entry : JobEntries, due : Nat, at : Nat, failed : BOOLEAN])
    /\ happened \in Seq([kind : {"sale", "event", "purged"}, at : Nat])

Awake == sched.step \in {"sleep", "run"}

\* The scheduler sleeps to the next time that has entries, and for those.
SleepsToNext ==
    /\ sched.step = "sleep" =>
          /\ clock <= sched.due
          /\ \A j \in JobEntries, d \in Nat :
                LET due == On(d, JobList[j].time)
                IN  /\ due > clock => due >= sched.due
                    /\ due = sched.due => j \in sched.left
    /\ sched.step = "run" => sched.due <= clock

\* What was begun was begun for a time that had come; what is left was not.
BegunBefore ==
    /\ \A i \in DOMAIN ran :
          /\ ran[i].due <= ran[i].at /\ ran[i].at <= clock
          /\ sched.step = "sleep" => ran[i].due < sched.due
          /\ sched.step = "run" => /\ ran[i].due <= sched.due
                                   /\ ran[i].due = sched.due => ran[i].entry \notin sched.left
    /\ OncePerSlot

\* What has been due was begun, or missed for a reason, or is about to be begun.
DueAccounted ==
    \A j \in JobEntries, d \in Nat :
        LET due == On(d, JobList[j].time)
        IN  due <= clock => \/ Began(j, due) \/ due \in away
                            \/ Awake /\ due = sched.due /\ j \in sched.left

\* The command of a run that did not fail.
Did(i, cmd) == JobList[ran[i].entry].cmd = cmd /\ ~ran[i].failed

\* Events of a day before a moment.
EventsUntil(t) ==
    {i \in DOMAIN happened : /\ happened[i].kind # "sale" /\ happened[i].at < t
                             /\ DateOf(happened[i].at) = DateOf(t)}

\* A report has the sales of its day so far, a digest counted its events; what is
\* purged is older than a day.
RunsTell ==
    /\ \A i \in DOMAIN happened :
          /\ happened[i].at <= clock
          /\ happened[i].kind = "purged" => happened[i].at + Retain < clock
    /\ \A k \in DOMAIN ran :
          /\ Did(k, "send_daily_report") =>
                \A i \in OfKind("sale") :
                   happened[i].at < ran[k].at /\ DateOf(happened[i].at) = DateOf(ran[k].at)
                       => i \in reported
          /\ Did(k, "send_security_digest") =>
                (Cardinality(EventsUntil(ran[k].at)) > AlertAbove => DateOf(ran[k].at) \in alerted)

NightInv == NTypeOK /\ SleepsToNext /\ BegunBefore /\ DueAccounted /\ RunsTell

\* Days and ticks.
LEMMA DaysInTicks ==
    ASSUME NEW t \in Nat
    PROVE  /\ DateOf(t) \in Nat
           /\ DateOf(t) * DayTicks <= t /\ t < DateOf(t) * DayTicks + DayTicks
<1>1. DayTicks \in Nat /\ DayTicks > 0
    BY NightlyAssumption
<1>2. t \div DayTicks \in Nat
    BY <1>1
<1>3. (t \div DayTicks) * DayTicks <= t
    BY <1>1
<1>4. t < DayTicks * (t \div DayTicks) + DayTicks
    BY <1>1
<1>5. DayTicks * (t \div DayTicks) = (t \div DayTicks) * DayTicks
    BY <1>1, <1>2
<1> QED BY <1>2, <1>3, <1>4, <1>5 DEF DateOf

LEMMA Product ==
    ASSUME NEW a \in Nat, NEW b \in Nat, NEW k \in Nat, a <= b
    PROVE  a * k <= b * k /\ a * k \in Nat /\ (a + 1) * k = a * k + k
OBVIOUS

\* A moment of a day is on that day, and on no other.
LEMMA DateOfTick ==
    ASSUME NEW d \in Nat, NEW time \in 0..(DayTicks - 1)
    PROVE  On(d, time) \in Nat /\ DateOf(On(d, time)) = d
<1> DEFINE t == d * DayTicks + time
           e == DateOf(t)
<1>1. DayTicks \in Nat /\ DayTicks > 0 /\ d * DayTicks \in Nat /\ time \in Nat /\ time < DayTicks
    BY NightlyAssumption, Product
<1>2. t \in Nat
    BY <1>1
<1>3. e \in Nat /\ e * DayTicks <= t /\ t < e * DayTicks + DayTicks /\ e * DayTicks \in Nat
    BY <1>1, <1>2, DaysInTicks, Product
<1> HIDE DEF e
<1>4. ASSUME e > d PROVE FALSE
    <2>1. (d + 1) * DayTicks <= e * DayTicks /\ (d + 1) * DayTicks = d * DayTicks + DayTicks
        BY <1>1, <1>3, <1>4, Product
    <2> QED BY <1>1, <1>3, <2>1
<1>5. ASSUME e < d PROVE FALSE
    <2>1. (e + 1) * DayTicks <= d * DayTicks /\ (e + 1) * DayTicks = e * DayTicks + DayTicks
        BY <1>1, <1>3, <1>5, Product
    <2> QED BY <1>1, <1>3, <2>1
<1>6. e = d
    BY <1>3, <1>4, <1>5
<1> QED BY <1>2, <1>6 DEF e, On

LEMMA OneTime ==
    ASSUME NEW d \in Nat, NEW e \in Nat, NEW time \in 0..(DayTicks - 1),
           NEW other \in 0..(DayTicks - 1), On(d, time) = On(e, other)
    PROVE  d = e /\ time = other
<1>1. d = e
    BY DateOfTick
<1>2. DayTicks \in Nat /\ d * DayTicks \in Nat
    BY NightlyAssumption, Product
<1> QED BY <1>1, <1>2 DEF On

\* A later moment is not on an earlier day; one of the next day is on a later one.
LEMMA DaysPass ==
    ASSUME NEW a \in Nat, NEW b \in Nat, a <= b
    PROVE  DateOf(a) <= DateOf(b) /\ (a + DayTicks <= b => DateOf(a) < DateOf(b))
<1>1. DayTicks \in Nat /\ DayTicks > 0
    BY NightlyAssumption
<1> DEFINE e == DateOf(a)
           f == DateOf(b)
<1>2. e \in Nat /\ e * DayTicks <= a /\ a < e * DayTicks + DayTicks /\ e * DayTicks \in Nat
    BY <1>1, DaysInTicks, Product
<1>3. f \in Nat /\ f * DayTicks <= b /\ b < f * DayTicks + DayTicks /\ f * DayTicks \in Nat
    BY <1>1, DaysInTicks, Product
<1> HIDE DEF e, f
<1>4. ASSUME f < e PROVE FALSE
    <2>1. (f + 1) * DayTicks <= e * DayTicks /\ (f + 1) * DayTicks = f * DayTicks + DayTicks
        BY <1>1, <1>2, <1>3, <1>4, Product
    <2> QED BY <1>1, <1>2, <1>3, <2>1
<1>5. ASSUME a + DayTicks <= b, e = f PROVE FALSE
    BY <1>1, <1>2, <1>3, <1>5
<1>6. e <= f /\ (a + DayTicks <= b => e < f)
    BY <1>2, <1>3, <1>4, <1>5
<1> QED BY <1>6 DEF e, f

LEMMA IsASeq ==
    ASSUME NEW S, NEW n \in Nat, NEW s, s = [i \in 1..n |-> s[i]], \A i \in 1..n : s[i] \in S
    PROVE  s \in Seq(S)
<1>1. s \in [1..n -> S]
    OBVIOUS
<1> QED BY <1>1

LEMMA Element == ASSUME NEW S, NEW s \in Seq(S), NEW i \in DOMAIN s PROVE s[i] \in S
OBVIOUS

LEMMA EntryTimes ==
    /\ \A j \in JobEntries : JobList[j].time \in 0..(DayTicks - 1) /\ JobList[j].time \in Nat
    /\ JobEntries \subseteq Nat /\ JobEntries # {}
    /\ DayTicks \in Nat /\ DayTicks > 0
<1>1. JobList \in Seq([time : 0..(DayTicks - 1), cmd : STRING]) /\ JobList # <<>>
      /\ DayTicks \in Nat /\ DayTicks > 0
    BY NightlyAssumption
<1>2. JobEntries = 1..Len(JobList) /\ Len(JobList) \in Nat /\ Len(JobList) # 0
    BY <1>1 DEF JobEntries
<1>3. \A j \in JobEntries : JobList[j] \in [time : 0..(DayTicks - 1), cmd : STRING]
    BY <1>1, Element DEF JobEntries
<1> QED BY <1>1, <1>2, <1>3

\* The next occurrence of a time is the first one that is to come.
LEMMA NextIsFirst ==
    ASSUME NEW t \in Nat, NEW time \in 0..(DayTicks - 1)
    PROVE  LET n == NextOccurrence(time, t)
           IN  /\ n \in Nat /\ n > t /\ \E d \in Nat : n = On(d, time)
               /\ \A d \in Nat : On(d, time) > t => On(d, time) >= n
<1> DEFINE e == DateOf(t)
<1>1. DayTicks \in Nat /\ DayTicks > 0 /\ time \in Nat /\ time < DayTicks
    BY EntryTimes
<1>2. e \in Nat /\ t < e * DayTicks + DayTicks /\ t >= e * DayTicks /\ e * DayTicks \in Nat
    BY <1>1, DaysInTicks, Product
<1>3. (e + 1) * DayTicks = e * DayTicks + DayTicks
    BY <1>1, <1>2, Product
<1>4. NextOccurrence(time, t) = IF On(e, time) > t THEN On(e, time) ELSE On(e + 1, time)
    BY DEF NextOccurrence
<1> HIDE DEF e
<1>5. On(e, time) = e * DayTicks + time /\ On(e + 1, time) = e * DayTicks + DayTicks + time
    BY <1>3 DEF On
<1>6. ASSUME NEW d \in Nat, d < e PROVE On(d, time) <= t
    <2>1. (d + 1) * DayTicks <= e * DayTicks /\ (d + 1) * DayTicks = d * DayTicks + DayTicks
          /\ d * DayTicks \in Nat
        BY <1>1, <1>2, <1>6, Product
    <2> QED BY <1>1, <1>2, <2>1 DEF On
<1>7. ASSUME NEW d \in Nat, d > e PROVE On(d, time) >= On(e + 1, time) /\ On(d, time) >= On(e, time)
    <2>1. (e + 1) * DayTicks <= d * DayTicks /\ d * DayTicks \in Nat
        BY <1>1, <1>2, <1>7, Product
    <2>2. On(d, time) = d * DayTicks + time
        BY DEF On
    <2> QED BY <1>1, <1>2, <1>3, <1>5, <2>1, <2>2
<1>8. \A d \in Nat : On(d, time) \in Nat
    BY DateOfTick
<1>9. CASE On(e, time) > t
    <2>1. \A d \in Nat : On(d, time) > t => d >= e
        BY <1>2, <1>6, <1>8
    <2>2. \A d \in Nat : On(d, time) > t => On(d, time) >= On(e, time)
        BY <1>2, <1>7, <1>8, <2>1
    <2> QED BY <1>2, <1>4, <1>8, <1>9, <2>2
<1>10. CASE ~(On(e, time) > t)
    <2>1. On(e + 1, time) > t /\ e + 1 \in Nat
        BY <1>1, <1>2, <1>5
    <2>2. \A d \in Nat : On(d, time) > t => d > e
        BY <1>2, <1>6, <1>8, <1>10
    <2>3. \A d \in Nat : On(d, time) > t => On(d, time) >= On(e + 1, time)
        BY <1>7, <2>2
    <2> QED BY <1>4, <1>8, <1>10, <2>1, <2>3
<1> QED BY <1>9, <1>10

LEMMA Least ==
    ASSUME NEW S \in SUBSET Nat, S # {}
    PROVE  Min(S) \in S /\ \A m \in S : Min(S) <= m
<1>1. \E n \in S : \A m \in S : n <= m
    BY LeastOf
<1> QED BY <1>1 DEF Min

LEMMA NightTypes == ASSUME NTypeOK, NNext PROVE NTypeOK'
<1> USE DEF NTypeOK
<1>0. {0, MaxLong} \subseteq Nat
    BY NightlyAssumption
<1>1. ASSUME Pick PROVE NTypeOK'
    <2>1. PICK time \in Times :
              sched' = [step |-> "sleep", due |-> NextOccurrence(time, clock), left |-> Grouped(time)]
        BY <1>1 DEF Pick
    <2>2. PICK j \in JobEntries : time = JobList[j].time
        BY DEF Times, JobEntries
    <2>3. NextOccurrence(time, clock) \in Nat
        BY <2>2, EntryTimes, NextIsFirst
    <2>4. Grouped(time) \in SUBSET JobEntries
        BY DEF Grouped, JobEntries
    <2> QED BY <1>1, <2>1, <2>3, <2>4 DEF Pick
<1>2. ASSUME NEW long \in {0, MaxLong}, NEW failed \in BOOLEAN, RunCommand(long, failed)
      PROVE  NTypeOK'
    <2> DEFINE j == Min(sched.left)
    <2>1. /\ sched \in [step : {"sleep", "run"}, due : Nat, left : SUBSET JobEntries]
          /\ sched.left # {}
        BY <1>2 DEF RunCommand
    <2>2. j \in JobEntries
        <3>1. sched.left \in SUBSET Nat
            BY <2>1, EntryTimes
        <3> QED BY <2>1, <3>1, Least
    <2> DEFINE r == [entry |-> j, due |-> sched.due, at |-> clock, failed |-> failed]
    <2>3. r \in [entry : JobEntries, due : Nat, at : Nat, failed : BOOLEAN]
        BY <2>1, <2>2
    <2>4. ran' = Append(ran, r) /\ sched' = [sched EXCEPT !.left = @ \ {j}]
          /\ (happened' = happened \/ happened' = PurgeSecurityEvents) /\ clock' = clock + long
        BY <1>2 DEF RunCommand, Effect
    <2>5. happened' \in Seq([kind : {"sale", "event", "purged"}, at : Nat])
        <3>1. CASE happened' = PurgeSecurityEvents
            <4> DEFINE n == Len(happened)
            <4>1. n \in Nat /\ DOMAIN happened = 1..n
                OBVIOUS
            <4>2. \A i \in 1..n : happened[i] \in [kind : {"sale", "event", "purged"}, at : Nat]
                <5> DEFINE T == [kind : {"sale", "event", "purged"}, at : Nat]
                <5>1. happened \in Seq(T)
                    OBVIOUS
                <5> HIDE DEF T
                <5>2. \A i \in DOMAIN happened : happened[i] \in T
                    BY <5>1, Element
                <5> QED BY <4>1, <5>2 DEF T
            <4>3. \A i \in 1..n : happened'[i] \in [kind : {"sale", "event", "purged"}, at : Nat]
                BY <3>1, <4>1, <4>2 DEF PurgeSecurityEvents
            <4>4. happened' = [i \in 1..n |-> happened'[i]]
                BY <3>1, <4>1 DEF PurgeSecurityEvents
            <4> DEFINE T == [kind : {"sale", "event", "purged"}, at : Nat]
            <4>5. \A i \in 1..n : happened'[i] \in T
                BY <4>3
            <4> HIDE DEF n, T
            <4>6. PICK new : new = happened'
                OBVIOUS
            <4>7. new = [i \in 1..n |-> new[i]] /\ \A i \in 1..n : new[i] \in T
                BY <4>4, <4>5, <4>6
            <4>8. new \in Seq(T)
                BY ONLY <4>1, <4>7, IsASeq
            <4> QED BY <4>6, <4>8 DEF T
        <3> QED BY <2>4, <3>1
    <2> HIDE DEF r, j
    <2> QED BY <1>0, <2>1, <2>3, <2>4, <2>5
<1>3. ASSUME NEW kind \in {"sale", "event"}, Happens(kind) PROVE NTypeOK'
    BY <1>3 DEF Happens
<1>4. CASE Wake \/ Finish
    BY <1>4 DEF Wake, Finish
<1>5. CASE Stop \/ Start \/ Pass
    BY <1>5 DEF Stop, Start, Pass
<1> QED BY <1>1, <1>2, <1>3, <1>4, <1>5 DEF NNext

\* Sequences that a step appends to.
LEMMA Appended ==
    ASSUME NEW S, NEW s \in Seq(S), NEW x
    PROVE  /\ Len(s) \in Nat /\ DOMAIN s = 1..Len(s) /\ DOMAIN Append(s, x) = 1..(Len(s) + 1)
           /\ \A i \in DOMAIN s : i \in DOMAIN Append(s, x) /\ Append(s, x)[i] = s[i]
           /\ \A i \in DOMAIN Append(s, x) : i \in DOMAIN s \/ i = Len(s) + 1
           /\ Append(s, x)[Len(s) + 1] = x /\ Len(s) + 1 \notin DOMAIN s
OBVIOUS

LEMMA RanTypes ==
    ASSUME NTypeOK
    PROVE  /\ \A i \in DOMAIN ran : /\ ran[i].entry \in JobEntries /\ ran[i].due \in Nat
                                   /\ ran[i].at \in Nat /\ ran[i].failed \in BOOLEAN
           /\ \A i \in DOMAIN happened : /\ happened[i].kind \in {"sale", "event", "purged"}
                                        /\ happened[i].at \in Nat
           /\ DOMAIN happened = 1..Len(happened) /\ Len(happened) \in Nat
           /\ clock \in Nat
<1> DEFINE T == [entry : JobEntries, due : Nat, at : Nat, failed : BOOLEAN]
           H == [kind : {"sale", "event", "purged"}, at : Nat]
<1>1. ran \in Seq(T) /\ happened \in Seq(H) /\ clock \in Nat
    BY DEF NTypeOK
<1> HIDE DEF T, H
<1>2. \A i \in DOMAIN ran : ran[i] \in T
    BY <1>1, Element
<1>3. \A i \in DOMAIN happened : happened[i] \in H
    BY <1>1, Element
<1>4. DOMAIN happened = 1..Len(happened) /\ Len(happened) \in Nat
    BY <1>1
<1> QED BY <1>1, <1>2, <1>3, <1>4 DEF T, H

\* Picking the next time.
LEMMA PickStep ==
    ASSUME NightInv, Pick, NTypeOK'
    PROVE  SleepsToNext' /\ BegunBefore' /\ DueAccounted'
<1>1. PICK time \in Times :
          /\ \A other \in Times : NextOccurrence(time, clock) <= NextOccurrence(other, clock)
          /\ sched' = [step |-> "sleep", due |-> NextOccurrence(time, clock), left |-> Grouped(time)]
    BY DEF Pick
<1>2. /\ clock \in Nat /\ sched.step = "pick" /\ UNCHANGED <<clock, ran, away, happened>>
      /\ NTypeOK
    BY DEF Pick, NightInv, NTypeOK
<1>3. time \in 0..(DayTicks - 1) /\ \A j \in JobEntries : JobList[j].time \in Times
    BY EntryTimes DEF Times, JobEntries
<1> DEFINE n == NextOccurrence(time, clock)
<1>4. n \in Nat /\ n > clock /\ \E e \in Nat : n = On(e, time)
    BY <1>2, <1>3, NextIsFirst
<1>5. \A j \in JobEntries, d \in Nat :
          LET due == On(d, JobList[j].time)
          IN  /\ due > clock => due >= n
              /\ due = n => j \in Grouped(time)
    <2> SUFFICES ASSUME NEW j \in JobEntries, NEW d \in Nat
                 PROVE  /\ On(d, JobList[j].time) > clock => On(d, JobList[j].time) >= n
                        /\ On(d, JobList[j].time) = n => j \in Grouped(time)
        OBVIOUS
    <2> DEFINE other == JobList[j].time
               m == NextOccurrence(other, clock)
    <2>1. other \in 0..(DayTicks - 1) /\ other \in Times
        BY <1>3, EntryTimes
    <2>2. m \in Nat /\ (On(d, other) > clock => On(d, other) >= m)
        BY <1>2, <2>1, NextIsFirst
    <2>3. n <= m /\ On(d, other) \in Nat
        BY <1>1, <2>1, DateOfTick
    <2>4. ASSUME On(d, other) = n PROVE j \in Grouped(time)
        <3>1. PICK e \in Nat : n = On(e, time)
            BY <1>4
        <3>2. On(d, other) = On(e, time)
            BY <2>4, <3>1
        <3> HIDE DEF other
        <3>3. other = time
            BY <1>3, <2>1, <3>2, OneTime
        <3> QED BY <3>3 DEF Grouped, JobEntries, other
    <2> HIDE DEF m, n, other
    <2>5. On(d, other) > clock => On(d, other) >= n
        BY <1>4, <2>2, <2>3 DEF n
    <2> QED BY <2>4, <2>5 DEF other
<1>6. sched'.step = "sleep" /\ sched'.due = n /\ sched'.left = Grouped(time)
    BY <1>1
<1> HIDE DEF n
<1>7. SleepsToNext'
    BY <1>2, <1>4, <1>5, <1>6 DEF SleepsToNext
<1>8. BegunBefore'
    <2>1. \A i \in DOMAIN ran : ran[i].due <= ran[i].at /\ ran[i].at <= clock /\ OncePerSlot
        BY DEF NightInv, BegunBefore
    <2>2. \A i \in DOMAIN ran : ran[i].due < n
        BY <1>2, <1>4, <2>1, RanTypes
    <2>3. OncePerSlot'
        BY <1>2 DEF NightInv, BegunBefore, OncePerSlot
    <2> QED BY <1>2, <1>6, <2>1, <2>2, <2>3 DEF BegunBefore
<1>9. DueAccounted'
    BY <1>2, <1>6 DEF NightInv, DueAccounted, Awake, Began
<1> QED BY <1>7, <1>8, <1>9

\* A command is begun; what becomes due while it takes its time is missed.
LEMMA RunStep ==
    ASSUME NightInv, NTypeOK', NEW long \in {0, MaxLong}, NEW failed \in BOOLEAN,
           RunCommand(long, failed)
    PROVE  SleepsToNext' /\ BegunBefore' /\ DueAccounted'
<1> DEFINE j0 == Min(sched.left)
           r  == [entry |-> j0, due |-> sched.due, at |-> clock, failed |-> failed]
<1>1. /\ ran' = Append(ran, r) /\ sched' = [sched EXCEPT !.left = @ \ {j0}]
      /\ clock' = clock + long /\ away' = away \cup (clock + 1)..clock' /\ sched.step = "run"
      /\ sched.left # {}
    BY DEF RunCommand
<1>2. /\ NTypeOK /\ clock \in Nat /\ long \in Nat /\ clock' \in Nat /\ clock' >= clock
      /\ sched \in [step : {"sleep", "run"}, due : Nat, left : SUBSET JobEntries]
    <2>1. NTypeOK /\ clock \in Nat /\ long \in Nat
        BY NightlyAssumption DEF NightInv, NTypeOK
    <2>2. sched \in [step : {"sleep", "run"}, due : Nat, left : SUBSET JobEntries]
        BY <1>1 DEF NightInv, NTypeOK
    <2> QED BY <1>1, <2>1, <2>2
<1>3. j0 \in sched.left /\ j0 \in JobEntries
    <2>1. sched.left \in SUBSET Nat
        BY <1>2, EntryTimes
    <2> QED BY <1>1, <1>2, <2>1, Least
<1>4. /\ sched'.step = "run" /\ sched'.due = sched.due /\ sched'.left = sched.left \ {j0}
      /\ r.entry = j0 /\ r.due = sched.due /\ r.at = clock
    BY <1>1, <1>2
<1>5. sched.due <= clock /\ sched.due \in Nat
    BY <1>1, <1>2 DEF NightInv, SleepsToNext
<1> HIDE DEF r, j0
<1> DEFINE T == [entry : JobEntries, due : Nat, at : Nat, failed : BOOLEAN]
<1>6. ran \in Seq(T)
    BY <1>2 DEF NTypeOK
<1> HIDE DEF T
<1> DEFINE n == Len(ran) + 1
<1>7. /\ \A i \in DOMAIN ran : i \in DOMAIN ran' /\ ran'[i] = ran[i]
      /\ \A i \in DOMAIN ran' : i \in DOMAIN ran \/ i = n
      /\ ran'[n] = r /\ n \in DOMAIN ran'
    BY <1>1, <1>6, Appended
<1> HIDE DEF n
<1>8. SleepsToNext'
    BY <1>2, <1>4, <1>5 DEF SleepsToNext
<1>9. \A i \in DOMAIN ran :
          /\ ran[i].due <= ran[i].at /\ ran[i].at <= clock /\ ran[i].due <= sched.due
          /\ ran[i].due = sched.due => ran[i].entry \notin sched.left
    BY <1>1 DEF NightInv, BegunBefore
<1>10. BegunBefore'
    <2>1. \A i \in DOMAIN ran' :
              /\ ran'[i].due <= ran'[i].at /\ ran'[i].at <= clock'
              /\ ran'[i].due <= sched'.due
              /\ ran'[i].due = sched'.due => ran'[i].entry \notin sched'.left
        <3> SUFFICES ASSUME NEW i \in DOMAIN ran'
                     PROVE  /\ ran'[i].due <= ran'[i].at /\ ran'[i].at <= clock'
                            /\ ran'[i].due <= sched'.due
                            /\ ran'[i].due = sched'.due => ran'[i].entry \notin sched'.left
            OBVIOUS
        <3>1. CASE i = n
            BY <1>2, <1>4, <1>5, <1>7, <3>1
        <3>2. CASE i \in DOMAIN ran
            <4>1. ran[i].at \in Nat
                BY <1>2, <3>2, RanTypes
            <4> QED BY <1>2, <1>4, <1>7, <1>9, <3>2, <4>1
        <3> QED BY <1>7, <3>1, <3>2
    <2>2. OncePerSlot'
        <3> SUFFICES ASSUME NEW i \in DOMAIN ran', NEW k \in DOMAIN ran',
                            ran'[i].entry = ran'[k].entry, ran'[i].due = ran'[k].due
                     PROVE  i = k
            BY DEF OncePerSlot
        <3>1. \A l \in DOMAIN ran : ~(ran[l].entry = j0 /\ ran[l].due = sched.due)
            BY <1>3, <1>9
        <3>2. CASE i \in DOMAIN ran /\ k \in DOMAIN ran
            BY <1>7, <3>2 DEF NightInv, BegunBefore, OncePerSlot
        <3> QED BY <1>4, <1>7, <3>1, <3>2
    <2> QED BY <1>4, <2>1, <2>2 DEF BegunBefore
<1>11. DueAccounted'
    <2> SUFFICES ASSUME NEW j \in JobEntries, NEW d \in Nat, On(d, JobList[j].time) <= clock'
                 PROVE  LET due == On(d, JobList[j].time)
                        IN  Began(j, due)' \/ due \in away' \/ (due = sched.due /\ j \in sched.left \ {j0})
        BY <1>4 DEF DueAccounted, Awake, JobEntries
    <2> DEFINE due == On(d, JobList[j].time)
    <2>1. due \in Nat
        BY EntryTimes, DateOfTick
    <2> HIDE DEF due
    <2>2. CASE due > clock
        BY <1>1, <1>2, <2>1, <2>2 DEF due
    <2>3. CASE due <= clock
        <3>1. Began(j, due) \/ due \in away \/ (due = sched.due /\ j \in sched.left)
            BY <2>3 DEF NightInv, DueAccounted, due
        <3>2. Began(j, due) => Began(j, due)'
            BY <1>7 DEF Began
        <3>3. j = j0 /\ due = sched.due => Began(j, due)'
            BY <1>4, <1>7 DEF Began
        <3> QED BY <1>1, <3>1, <3>2, <3>3 DEF due
    <2> QED BY <1>2, <2>1, <2>2, <2>3 DEF due
<1> QED BY <1>8, <1>10, <1>11

\* Steps that begin no command.
LEMMA ClockSteps ==
    ASSUME NightInv, NTypeOK', Wake \/ Finish \/ Stop \/ Start \/ Pass \/ UNCHANGED <<clock, sched, ran, away>>
    PROVE  SleepsToNext' /\ BegunBefore' /\ DueAccounted'
<1>1. NTypeOK /\ clock \in Nat /\ ran' = ran /\ \A j, due : Began(j, due)' = Began(j, due)
    BY DEF NightInv, NTypeOK, Wake, Finish, Stop, Start, Pass, Began
<1>2. /\ \A i \in DOMAIN ran : /\ ran[i].due \in Nat /\ ran[i].at \in Nat
                              /\ ran[i].due <= ran[i].at /\ ran[i].at <= clock
      /\ OncePerSlot'
    BY <1>1, RanTypes DEF NightInv, BegunBefore, OncePerSlot
<1>3. ASSUME NEW j \in JobEntries, NEW d \in Nat
      PROVE  On(d, JobList[j].time) \in Nat
    BY EntryTimes, DateOfTick
<1>4. ASSUME Wake PROVE SleepsToNext' /\ BegunBefore' /\ DueAccounted'
    <2>1. /\ sched \in [step : {"sleep", "run"}, due : Nat, left : SUBSET JobEntries]
          /\ sched.step = "sleep" /\ clock >= sched.due
        BY <1>1, <1>4 DEF Wake, NTypeOK
    <2>2. /\ sched'.step = "run" /\ sched'.due = sched.due /\ sched'.left = sched.left
          /\ UNCHANGED <<clock, away>>
        BY <1>4, <2>1 DEF Wake
    <2>3. \A i \in DOMAIN ran : ran[i].due < sched.due
        BY <2>1 DEF NightInv, BegunBefore
    <2>4. BegunBefore'
        BY <1>1, <1>2, <2>1, <2>2, <2>3 DEF BegunBefore
    <2>5. SleepsToNext'
        BY <1>1, <2>1, <2>2 DEF SleepsToNext
    <2>6. DueAccounted'
        BY <1>1, <2>1, <2>2 DEF NightInv, DueAccounted, Awake
    <2> QED BY <2>4, <2>5, <2>6
<1>5. ASSUME Finish \/ Stop \/ Start PROVE SleepsToNext' /\ BegunBefore' /\ DueAccounted'
    <2>1. sched'.step \in {"pick", "down"} /\ UNCHANGED clock /\ away \subseteq away'
        BY <1>5 DEF Finish, Stop, Start
    <2>2. SleepsToNext' /\ BegunBefore'
        BY <1>1, <1>2, <2>1 DEF SleepsToNext, BegunBefore
    <2>3. ASSUME NEW j \in JobEntries, NEW d \in Nat, On(d, JobList[j].time) <= clock
          PROVE  Began(j, On(d, JobList[j].time)) \/ On(d, JobList[j].time) \in away'
        <3> DEFINE due == On(d, JobList[j].time)
        <3>1. Began(j, due) \/ due \in away \/ (Awake /\ due = sched.due /\ j \in sched.left)
            BY <2>3 DEF NightInv, DueAccounted
        <3>2. ASSUME Awake, due = sched.due, j \in sched.left PROVE due \in away'
            <4>1. Stop
                BY <1>5, <3>2 DEF Finish, Start, Awake
            <4>2. CASE sched.step = "run"
                BY <3>2, <4>1, <4>2 DEF Stop
            <4>3. CASE sched.step = "sleep"
                <5>1. sched.due \in Nat /\ clock <= sched.due
                    BY <1>1, <4>3 DEF NTypeOK, NightInv, SleepsToNext
                <5>2. due = clock
                    BY <1>1, <2>3, <3>2, <5>1
                <5> QED BY <4>1, <5>2 DEF Stop
            <4> QED BY <3>2, <4>2, <4>3 DEF Awake
        <3> HIDE DEF due
        <3>3. Began(j, due) \/ due \in away'
            BY <2>1, <3>1, <3>2
        <3> QED BY <3>3 DEF due
    <2>4. DueAccounted'
        BY <1>1, <2>1, <2>3 DEF DueAccounted
    <2> QED BY <2>2, <2>4
<1>6. ASSUME Pass PROVE SleepsToNext' /\ BegunBefore' /\ DueAccounted'
    <2>1. clock' = clock + 1 /\ UNCHANGED sched
        BY <1>6 DEF Pass
    <2>2. CASE sched.step = "sleep" /\ clock < sched.due /\ UNCHANGED away
        <3>1. sched.due \in Nat
            BY <1>1, <2>2 DEF NTypeOK
        <3>2. \A j \in JobEntries, d \in Nat :
                  LET due == On(d, JobList[j].time)
                  IN  /\ due > clock => due >= sched.due
                      /\ due = sched.due => j \in sched.left
            BY <2>2 DEF NightInv, SleepsToNext
        <3>3. SleepsToNext'
            BY <1>1, <1>3, <2>1, <2>2, <3>1, <3>2 DEF SleepsToNext, JobEntries
        <3>4. BegunBefore'
            BY <1>1, <1>2, <2>1, <2>2 DEF NightInv, BegunBefore
        <3>5. DueAccounted'
            <4> SUFFICES ASSUME NEW j \in JobEntries, NEW d \in Nat, On(d, JobList[j].time) <= clock + 1
                         PROVE  LET due == On(d, JobList[j].time)
                                IN  Began(j, due) \/ due \in away \/ (due = sched.due /\ j \in sched.left)
                BY <1>1, <2>1, <2>2 DEF DueAccounted, Awake, JobEntries
            <4> DEFINE due == On(d, JobList[j].time)
            <4>1. due \in Nat /\ (due > clock => due >= sched.due) /\ (due = sched.due => j \in sched.left)
                BY <1>3, <3>2
            <4>2. due <= clock => Began(j, due) \/ due \in away \/ (due = sched.due /\ j \in sched.left)
                BY DEF NightInv, DueAccounted
            <4> HIDE DEF due
            <4>3. due <= clock + 1
                BY DEF due
            <4>4. CASE due <= clock
                BY <4>2, <4>4 DEF due
            <4>5. CASE due > clock
                BY <1>1, <2>2, <3>1, <4>1, <4>3, <4>5 DEF due
            <4> QED BY <1>1, <4>1, <4>4, <4>5
        <3> QED BY <3>3, <3>4, <3>5
    <2>3. CASE sched.step = "down" /\ away' = away \cup {clock + 1}
        <3>1. SleepsToNext' /\ BegunBefore'
            BY <1>1, <1>2, <2>1, <2>3 DEF SleepsToNext, BegunBefore
        <3>2. ASSUME NEW j \in JobEntries, NEW d \in Nat, On(d, JobList[j].time) <= clock + 1
              PROVE  Began(j, On(d, JobList[j].time)) \/ On(d, JobList[j].time) \in away'
            <4> DEFINE due == On(d, JobList[j].time)
            <4>1. due \in Nat /\ due <= clock + 1
                BY <1>3, <3>2
            <4>2. due <= clock => Began(j, due) \/ due \in away
                BY <2>3 DEF NightInv, DueAccounted, Awake
            <4> HIDE DEF due
            <4>3. Began(j, due) \/ due \in away'
                BY <1>1, <2>3, <4>1, <4>2
            <4> QED BY <4>3 DEF due
        <3>3. DueAccounted'
            BY <1>1, <2>1, <3>2 DEF DueAccounted
        <3> QED BY <3>1, <3>3
    <2> QED BY <1>6, <2>2, <2>3 DEF Pass
<1>7. ASSUME UNCHANGED <<clock, sched, ran, away>>
      PROVE  SleepsToNext' /\ BegunBefore' /\ DueAccounted'
    <2>1. SleepsToNext' /\ DueAccounted'
        BY <1>1, <1>7 DEF NightInv, SleepsToNext, DueAccounted, Awake
    <2>2. BegunBefore'
        BY <1>2, <1>7 DEF NightInv, BegunBefore
    <2> QED BY <2>1, <2>2
<1> QED BY <1>4, <1>5, <1>6, <1>7

\* A run that is told of: the sales of its day so far, the alarm of its day.
Told(k) ==
    /\ Did(k, "send_daily_report") =>
          \A i \in OfKind("sale") :
             happened[i].at < ran[k].at /\ DateOf(happened[i].at) = DateOf(ran[k].at) => i \in reported
    /\ Did(k, "send_security_digest") =>
          (Cardinality(EventsUntil(ran[k].at)) > AlertAbove => DateOf(ran[k].at) \in alerted)

\* What is in the books grows: nothing that a report or a digest told of is lost.
LEMMA StillTold ==
    ASSUME NightInv, NTypeOK', clock' >= clock, reported \subseteq reported', alerted \subseteq alerted',
           DOMAIN happened \subseteq DOMAIN happened',
           \A i \in DOMAIN happened :
              /\ happened'[i].at = happened[i].at
              /\ \/ happened'[i].kind = happened[i].kind
                 \/ /\ happened[i].kind = "event" /\ happened'[i].kind = "purged"
                    /\ happened[i].at + Retain < clock,
           \A i \in DOMAIN happened' \ DOMAIN happened :
              happened'[i].at = clock /\ happened'[i].kind # "purged",
           \A k \in DOMAIN ran' : (k \in DOMAIN ran /\ ran'[k] = ran[k]) \/ Told(k)'
    PROVE  RunsTell'
<1>1. /\ NTypeOK /\ clock \in Nat /\ clock' \in Nat /\ Retain \in Nat
      /\ \A i \in DOMAIN happened : /\ happened[i].at \in Nat
                                   /\ happened[i].kind \in {"sale", "event", "purged"}
      /\ \A k \in DOMAIN ran : ran[k].at \in Nat /\ ran[k].at <= clock
    BY RanTypes, NightlyAssumption DEF NightInv, NTypeOK, BegunBefore
<1>2. ASSUME NEW i \in DOMAIN happened'
      PROVE  /\ happened'[i].at <= clock'
             /\ happened'[i].kind = "purged" => happened'[i].at + Retain < clock'
    <2>1. CASE i \in DOMAIN happened
        <3>1. /\ happened[i].at <= clock
              /\ happened[i].kind = "purged" => happened[i].at + Retain < clock
            BY <2>1 DEF NightInv, RunsTell
        <3>2. happened'[i].at = happened[i].at /\ (happened'[i].kind = "purged" => happened[i].at + Retain < clock)
            BY <2>1, <3>1
        <3> QED BY <1>1, <2>1, <3>1, <3>2
    <2>2. CASE i \notin DOMAIN happened
        <3>1. happened'[i].at = clock /\ happened'[i].kind # "purged"
            BY <2>2
        <3> QED BY <1>1, <3>1
    <2> QED BY <2>1, <2>2
<1>3. ASSUME NEW i \in DOMAIN happened', NEW t \in Nat, t <= clock, happened'[i].at < t
      PROVE  i \in DOMAIN happened
    BY <1>1, <1>3
<1>4. ASSUME NEW t \in Nat, t <= clock
      PROVE  EventsUntil(t)' = EventsUntil(t)
    <2>1. ASSUME NEW i \in EventsUntil(t)' PROVE i \in EventsUntil(t)
        <3>1. i \in DOMAIN happened' /\ happened'[i].kind # "sale" /\ happened'[i].at < t
              /\ DateOf(happened'[i].at) = DateOf(t)
            BY <2>1 DEF EventsUntil
        <3>2. i \in DOMAIN happened
            BY <1>3, <1>4, <3>1
        <3>3. happened'[i].at = happened[i].at /\ happened[i].kind # "sale"
            BY <3>1, <3>2
        <3> QED BY <3>1, <3>2, <3>3 DEF EventsUntil
    <2>2. ASSUME NEW i \in EventsUntil(t) PROVE i \in EventsUntil(t)'
        <3>1. i \in DOMAIN happened /\ happened[i].kind # "sale" /\ happened[i].at < t
              /\ DateOf(happened[i].at) = DateOf(t)
            BY <2>2 DEF EventsUntil
        <3>2. i \in DOMAIN happened' /\ happened'[i].at = happened[i].at /\ happened'[i].kind # "sale"
            BY <3>1
        <3> QED BY <3>1, <3>2 DEF EventsUntil
    <2> QED BY <2>1, <2>2
<1>5. ASSUME NEW k \in DOMAIN ran', k \in DOMAIN ran, ran'[k] = ran[k] PROVE Told(k)'
    <2>1. ran[k].at \in Nat /\ ran[k].at <= clock
        BY <1>1, <1>5
    <2>2. ASSUME Did(k, "send_daily_report")', NEW i \in OfKind("sale")',
                 happened'[i].at < ran'[k].at, DateOf(happened'[i].at) = DateOf(ran'[k].at)
          PROVE  i \in reported'
        <3>1. i \in DOMAIN happened' /\ happened'[i].kind = "sale" /\ happened'[i].at < ran[k].at
            BY <1>5, <2>2 DEF OfKind
        <3>2. i \in DOMAIN happened
            BY <1>3, <2>1, <3>1
        <3>3. happened[i].kind = "sale" /\ happened[i].at = happened'[i].at
            BY <3>1, <3>2
        <3>4. Did(k, "send_daily_report")
            BY <1>5, <2>2 DEF Did
        <3> QED BY <1>5, <2>2, <3>1, <3>2, <3>3, <3>4 DEF NightInv, RunsTell, OfKind
    <2>4. ASSUME Did(k, "send_security_digest")', NEW t \in Nat, t = ran'[k].at,
                 Cardinality(EventsUntil(t)') > AlertAbove
          PROVE  DateOf(t) \in alerted'
        <3>1. t = ran[k].at /\ Did(k, "send_security_digest")
            BY <1>5, <2>4 DEF Did
        <3>2. Cardinality(EventsUntil(t)) > AlertAbove
            BY <1>4, <2>1, <2>4, <3>1
        <3> QED BY <1>5, <3>1, <3>2 DEF NightInv, RunsTell
    <2>5. EventsUntil(ran[k].at)' = {i \in DOMAIN happened' :
                  happened'[i].kind # "sale" /\ happened'[i].at < ran'[k].at
                  /\ DateOf(happened'[i].at) = DateOf(ran'[k].at)}
        BY DEF EventsUntil
    <2>6. \A t : EventsUntil(t)' = {i \in DOMAIN happened' :
                  happened'[i].kind # "sale" /\ happened'[i].at < t
                  /\ DateOf(happened'[i].at) = DateOf(t)}
        BY DEF EventsUntil
    <2>7. Did(k, "send_security_digest")' /\ Cardinality(EventsUntil(ran[k].at)') > AlertAbove
              => DateOf(ran'[k].at) \in alerted'
        BY <1>5, <2>1, <2>4, <2>5, <2>6
    <2> QED BY <2>2, <2>7 DEF Told
<1> QED BY <1>2, <1>5 DEF RunsTell, Told

\* Today's events before now are not purged, and the digest counts them.
LEMMA TodaysEvents ==
    ASSUME NightInv, alerted' = SendSecurityDigest, Cardinality(EventsUntil(clock)) > AlertAbove
    PROVE  DateOf(clock) \in alerted'
<1> DEFINE todays == {i \in OfKind("event") : DateOf(happened[i].at) = DateOf(clock)}
<1>1. /\ clock \in Nat /\ Retain \in Nat /\ DayTicks \in Nat /\ DayTicks <= Retain /\ AlertAbove \in Nat
      /\ DOMAIN happened = 1..Len(happened) /\ Len(happened) \in Nat
      /\ \A i \in DOMAIN happened : /\ happened[i].at \in Nat
                                   /\ happened[i].kind \in {"sale", "event", "purged"}
    BY RanTypes, NightlyAssumption DEF NightInv
<1>2. ASSUME NEW i \in EventsUntil(clock) PROVE i \in todays
    <2>1. i \in DOMAIN happened /\ happened[i].kind # "sale" /\ DateOf(happened[i].at) = DateOf(clock)
        BY DEF EventsUntil
    <2>2. ASSUME happened[i].kind = "purged" PROVE FALSE
        <3> DEFINE t == happened[i].at
        <3>1. t \in Nat /\ t + Retain < clock
            BY <1>1, <2>1, <2>2 DEF NightInv, RunsTell
        <3> HIDE DEF t
        <3>2. t + DayTicks <= clock /\ t <= clock
            BY <1>1, <3>1
        <3>3. DateOf(t) \in Nat /\ DateOf(clock) \in Nat /\ DateOf(t) < DateOf(clock)
            BY <1>1, <3>1, <3>2, DaysPass, DaysInTicks
        <3> QED BY <2>1, <3>3 DEF t
    <2> QED BY <1>1, <2>1, <2>2 DEF OfKind
<1>3. IsFiniteSet(todays)
    <2>1. todays \subseteq 1..Len(happened)
        BY <1>1 DEF OfKind
    <2> HIDE DEF todays
    <2>2. IsFiniteSet(1..Len(happened))
        BY <1>1, FS_Interval
    <2> QED BY <2>1, <2>2, FS_Subset
<1>4. alerted' = IF Cardinality(todays) > AlertAbove THEN alerted \cup {DateOf(clock)} ELSE alerted
    BY DEF SendSecurityDigest
<1> HIDE DEF todays
<1>5. /\ Cardinality(EventsUntil(clock)) <= Cardinality(todays) /\ Cardinality(todays) \in Nat
      /\ Cardinality(EventsUntil(clock)) \in Nat
    BY <1>2, <1>3, FS_Subset, FS_CardinalityType
<1> QED BY <1>1, <1>4, <1>5

LEMMA RunTells ==
    ASSUME NightInv, NTypeOK', NEW long \in {0, MaxLong}, NEW failed \in BOOLEAN,
           RunCommand(long, failed)
    PROVE  RunsTell'
<1> DEFINE j0 == Min(sched.left)
           r  == [entry |-> j0, due |-> sched.due, at |-> clock, failed |-> failed]
           cmd == JobList[j0].cmd
<1>1. /\ ran' = Append(ran, r) /\ clock' = clock + long
      /\ IF failed THEN UNCHANGED <<reported, alerted, happened>> ELSE Effect(cmd)
    BY DEF RunCommand
<1>2. clock \in Nat /\ long \in Nat /\ clock' >= clock /\ Retain \in Nat
    BY <1>1, NightlyAssumption DEF NightInv, NTypeOK
<1>3. r.entry = j0 /\ r.at = clock /\ r.failed = failed
    OBVIOUS
<1> HIDE DEF r
<1>4. PICK n \in Nat : /\ \A k \in DOMAIN ran' : (k \in DOMAIN ran /\ ran'[k] = ran[k]) \/ k = n
                      /\ ran'[n] = r
    <2> DEFINE T == [entry : JobEntries, due : Nat, at : Nat, failed : BOOLEAN]
    <2>1. ran \in Seq(T)
        BY DEF NightInv, NTypeOK
    <2> HIDE DEF T
    <2> DEFINE m == Len(ran) + 1
    <2>2. m \in Nat
        BY <2>1
    <2>3. /\ \A k \in DOMAIN ran' : (k \in DOMAIN ran /\ ran'[k] = ran[k]) \/ k = m
          /\ ran'[m] = r
        BY <1>1, <2>1, Appended
    <2> HIDE DEF m
    <2> QED BY <2>2, <2>3
<1>5. /\ reported \subseteq reported' /\ alerted \subseteq alerted'
      /\ DOMAIN happened' = DOMAIN happened
    BY <1>1 DEF Effect, SendDailyReport, SendSecurityDigest, PurgeSecurityEvents
<1>6. ASSUME NEW i \in DOMAIN happened
      PROVE  /\ happened'[i].at = happened[i].at
             /\ \/ happened'[i].kind = happened[i].kind
                \/ /\ happened[i].kind = "event" /\ happened'[i].kind = "purged"
                   /\ happened[i].at + Retain < clock
    <2>1. CASE happened' = happened
        BY <2>1
    <2>2. CASE happened' = PurgeSecurityEvents
        <3>1. happened[i].at \in Nat /\ happened[i] \in [kind : {"sale", "event", "purged"}, at : Nat]
            <4> DEFINE H == [kind : {"sale", "event", "purged"}, at : Nat]
            <4>1. happened \in Seq(H)
                BY DEF NightInv, NTypeOK
            <4> HIDE DEF H
            <4>2. happened[i] \in H
                BY <4>1, Element
            <4> QED BY <4>2 DEF H
        <3>2. happened'[i] = IF happened[i].kind = "event" /\ happened[i].at < clock - Retain
                             THEN [happened[i] EXCEPT !.kind = "purged"] ELSE happened[i]
            BY <2>2 DEF PurgeSecurityEvents
        <3>3. CASE happened[i].kind = "event" /\ happened[i].at < clock - Retain
            <4>1. happened'[i].kind = "purged" /\ happened'[i].at = happened[i].at
                BY <3>1, <3>2, <3>3
            <4> QED BY <1>2, <3>1, <3>3, <4>1
        <3> QED BY <3>2, <3>3
    <2> QED BY <1>1, <2>1, <2>2 DEF Effect
<1>7. Told(n)'
    <2>1. \A c : Did(n, c)' => ~failed /\ cmd = c
        <3>1. \A c : Did(n, c)' <=> JobList[ran'[n].entry].cmd = c /\ ~ran'[n].failed
            BY DEF Did
        <3> QED BY <1>3, <1>4, <3>1
    <2> HIDE DEF cmd
    <2>2. ASSUME ~failed, cmd = "send_daily_report", NEW i \in OfKind("sale")',
                 DateOf(happened'[i].at) = DateOf(clock)
          PROVE  i \in reported'
        <3>1. happened' = happened /\ reported' = SendDailyReport
            BY <1>1, <2>2 DEF Effect
        <3>2. i \in OfKind("sale")
            BY <3>1 DEF OfKind
        <3> QED BY <2>2, <3>1, <3>2 DEF SendDailyReport, ReportDate
    <2>3. ASSUME ~failed, cmd = "send_security_digest", NEW S,
                 S = {i \in DOMAIN happened' : happened'[i].kind # "sale" /\ happened'[i].at < clock
                                              /\ DateOf(happened'[i].at) = DateOf(clock)},
                 Cardinality(S) > AlertAbove
          PROVE  DateOf(clock) \in alerted'
        <3>1. happened' = happened /\ alerted' = SendSecurityDigest
            BY <1>1, <2>3 DEF Effect
        <3>2. S = EventsUntil(clock)
            BY <2>3, <3>1 DEF EventsUntil
        <3> QED BY <2>3, <3>1, <3>2, TodaysEvents
    <2>4. ran'[n].at = clock
        BY <1>3, <1>4
    <2>5. EventsUntil(ran[n].at)' = {i \in DOMAIN happened' :
                  happened'[i].kind # "sale" /\ happened'[i].at < ran'[n].at
                  /\ DateOf(happened'[i].at) = DateOf(ran'[n].at)}
        BY DEF EventsUntil
    <2>6. Did(n, "send_daily_report")' =>
             \A i \in OfKind("sale")' :
                happened'[i].at < ran'[n].at /\ DateOf(happened'[i].at) = DateOf(ran'[n].at) => i \in reported'
        BY <2>1, <2>2, <2>4
    <2>7. Did(n, "send_security_digest")' =>
              (Cardinality(EventsUntil(ran[n].at)') > AlertAbove => DateOf(ran'[n].at) \in alerted')
        BY <2>1, <2>3, <2>4, <2>5
    <2> QED BY <2>6, <2>7 DEF Told
<1>8. \A k \in DOMAIN ran' : (k \in DOMAIN ran /\ ran'[k] = ran[k]) \/ Told(k)'
    BY <1>4, <1>7
<1> QED BY <1>2, <1>5, <1>6, <1>8, StillTold

LEMMA NightStep == ASSUME NightInv, [NNext]_nvars PROVE NightInv'
<1>1. NTypeOK'
    <2>1. CASE NNext
        BY <2>1, NightTypes DEF NightInv
    <2>2. CASE UNCHANGED nvars
        BY <2>2 DEF NightInv, NTypeOK, nvars
    <2> QED BY <2>1, <2>2
<1>2. ASSUME Pick \/ Wake \/ Finish \/ Stop \/ Start \/ Pass \/ UNCHANGED nvars
      PROVE  RunsTell'
    <2>1. /\ UNCHANGED <<ran, happened, reported, alerted>>
          /\ clock' = clock \/ clock' = clock + 1
        BY <1>2 DEF Pick, Wake, Finish, Stop, Start, Pass, nvars
    <2>2. clock \in Nat
        BY DEF NightInv, NTypeOK
    <2>3. clock' >= clock
        BY <2>1, <2>2
    <2> QED BY <1>1, <2>1, <2>3, StillTold
<1>3. ASSUME Pick PROVE NightInv'
    BY <1>1, <1>2, <1>3, PickStep DEF NightInv
<1>4. ASSUME Wake \/ Finish \/ Stop \/ Start \/ Pass \/ UNCHANGED nvars PROVE NightInv'
    BY <1>1, <1>2, <1>4, ClockSteps DEF NightInv, nvars
<1>5. ASSUME NEW long \in {0, MaxLong}, NEW failed \in BOOLEAN, RunCommand(long, failed)
      PROVE  NightInv'
    BY <1>1, <1>5, RunStep, RunTells DEF NightInv
<1>6. ASSUME NEW kind \in {"sale", "event"}, Happens(kind) PROVE NightInv'
    <2>1. SleepsToNext' /\ BegunBefore' /\ DueAccounted'
        BY <1>1, <1>6, ClockSteps DEF Happens
    <2> DEFINE H == [kind : {"sale", "event", "purged"}, at : Nat]
               x == [kind |-> kind, at |-> clock]
               n == Len(happened) + 1
    <2>2. happened \in Seq(H) /\ happened' = Append(happened, x)
        BY <1>6 DEF NightInv, NTypeOK, Happens
    <2>3. x.kind \in {"sale", "event"} /\ x.at = clock
        BY <1>6
    <2> HIDE DEF H, x
    <2>4. /\ \A i \in DOMAIN happened : i \in DOMAIN happened' /\ happened'[i] = happened[i]
          /\ \A i \in DOMAIN happened' \ DOMAIN happened : happened'[i] = x
        <3>1. /\ \A i \in DOMAIN happened : i \in DOMAIN happened' /\ happened'[i] = happened[i]
              /\ \A i \in DOMAIN happened' : i \in DOMAIN happened \/ i = n
              /\ happened'[n] = x
            BY <2>2, Appended
        <3> HIDE DEF n
        <3> QED BY <3>1
    <2> HIDE DEF n
    <2>5. UNCHANGED <<clock, ran, reported, alerted>> /\ clock \in Nat
        BY <1>6 DEF Happens, NightInv, NTypeOK
    <2>6. RunsTell'
        <3>1. /\ DOMAIN happened \subseteq DOMAIN happened' /\ clock' >= clock
              /\ \A i \in DOMAIN happened : /\ happened'[i].at = happened[i].at
                                           /\ happened'[i].kind = happened[i].kind
              /\ \A i \in DOMAIN happened' \ DOMAIN happened :
                    happened'[i].at = clock /\ happened'[i].kind # "purged"
              /\ \A k \in DOMAIN ran' : k \in DOMAIN ran /\ ran'[k] = ran[k]
              /\ reported \subseteq reported' /\ alerted \subseteq alerted'
            BY <2>3, <2>4, <2>5
        <3> QED BY <1>1, <3>1, StillTold
    <2> QED BY <1>1, <2>1, <2>6 DEF NightInv
<1> QED BY <1>3, <1>4, <1>5, <1>6 DEF NNext

LEMMA NightStart == NInit => NightInv
<1> SUFFICES ASSUME NInit PROVE NightInv
    OBVIOUS
<1>1. NTypeOK
    BY DEF NInit, NTypeOK
<1>2. clock = 0 /\ sched.step = "pick" /\ DOMAIN ran = {} /\ DOMAIN happened = {} /\ away = {0}
    BY DEF NInit
<1>3. SleepsToNext /\ BegunBefore /\ RunsTell
    BY <1>2 DEF SleepsToNext, BegunBefore, OncePerSlot, RunsTell
<1>4. DueAccounted
    <2> SUFFICES ASSUME NEW j \in JobEntries, NEW d \in Nat, On(d, JobList[j].time) <= 0
                 PROVE  On(d, JobList[j].time) \in away
        BY <1>2 DEF DueAccounted
    <2>1. On(d, JobList[j].time) \in Nat
        BY EntryTimes, DateOfTick
    <2> QED BY <1>2, <2>1
<1> QED BY <1>1, <1>3, <1>4 DEF NightInv

LEMMA NightStands == ASSUME NightInv PROVE JobsAccounted
<1>0. NTypeOK /\ clock \in Nat
    BY DEF NightInv, NTypeOK
<1>1. OncePerSlot
    BY DEF NightInv, BegunBefore
<1>2. MissesAccounted
    <2> SUFFICES ASSUME NEW j \in DOMAIN JobList, NEW d \in 0..DateOf(clock),
                        On(d, JobList[j].time) < clock, sched.step \in {"sleep", "pick"},
                        ~Began(j, On(d, JobList[j].time))
                 PROVE  On(d, JobList[j].time) \in away
        BY DEF MissesAccounted
    <2> DEFINE due == On(d, JobList[j].time)
    <2>1. j \in JobEntries /\ d \in Nat
        BY DEF JobEntries
    <2>2. due \in Nat
        BY <2>1, EntryTimes, DateOfTick
    <2>3. due \in away \/ (Awake /\ due = sched.due)
        BY <1>0, <2>1, <2>2 DEF NightInv, DueAccounted
    <2>4. sched.step = "sleep" => clock <= sched.due
        BY DEF NightInv, SleepsToNext
    <2> HIDE DEF due
    <2>5. due < clock
        BY DEF due
    <2>6. due \in away
        BY <1>0, <2>2, <2>3, <2>4, <2>5 DEF Awake
    <2> QED BY <2>6 DEF due
<1>3. \A i \in DOMAIN ran : /\ ran[i].due \in Nat /\ ran[i].at \in Nat /\ ran[i].due <= ran[i].at
                           /\ ran[i].at <= clock
    BY <1>0, RanTypes DEF NightInv, BegunBefore
<1>4. \A i \in DOMAIN happened : happened[i].at \in Nat
    BY <1>0, RanTypes
<1>5. \A cmd, d, due : d \in Nat /\ due \in DueOf(cmd, d) => due \in Nat /\ DateOf(due) = d
    BY EntryTimes, DateOfTick DEF DueOf, JobEntries
<1>6. ASSUME NEW i \in OfKind("sale") \ reported,
             NEW due \in DueOf("send_daily_report", DateOf(happened[i].at)), happened[i].at < due,
             InTime("send_daily_report", due)
      PROVE  FALSE
    <2>1. PICK k \in DOMAIN ran : /\ Did(k, "send_daily_report") /\ ran[k].due = due
                                 /\ DateOf(ran[k].at) = DateOf(due)
        BY <1>6 DEF InTime, Did
    <2>2. i \in DOMAIN happened /\ DateOf(happened[i].at) \in Nat
        BY <1>4, DaysInTicks DEF OfKind
    <2>3. DateOf(due) = DateOf(happened[i].at) /\ due \in Nat
        BY <1>5, <2>2
    <2>4. happened[i].at < ran[k].at
        BY <1>3, <1>4, <1>6, <2>1, <2>2, <2>3
    <2> QED BY <2>1, <2>3, <2>4 DEF NightInv, RunsTell
<1>7. ASSUME NEW d \in (0..DateOf(clock)) \ alerted, NEW due \in DueOf("send_security_digest", d),
             Cardinality({i \in DOMAIN happened : /\ happened[i].kind # "sale" /\ happened[i].at < due
                                                  /\ DateOf(happened[i].at) = d}) > AlertAbove,
             InTime("send_security_digest", due)
      PROVE  FALSE
    <2>1. PICK k \in DOMAIN ran : /\ Did(k, "send_security_digest") /\ ran[k].due = due
                                 /\ DateOf(ran[k].at) = DateOf(due)
        BY <1>7 DEF InTime, Did
    <2>2. DateOf(due) = d /\ due \in Nat
        BY <1>5
    <2> DEFINE S == {i \in DOMAIN happened : /\ happened[i].kind # "sale" /\ happened[i].at < due
                                             /\ DateOf(happened[i].at) = d}
               R == EventsUntil(ran[k].at)
    <2>3. S \subseteq R
        BY <1>3, <1>4, <2>1, <2>2 DEF EventsUntil
    <2>4. IsFiniteSet(R)
        <3>1. R \subseteq 1..Len(happened) /\ Len(happened) \in Nat
            BY <1>0, RanTypes DEF EventsUntil
        <3>2. IsFiniteSet(1..Len(happened))
            BY <3>1, FS_Interval
        <3> HIDE DEF R
        <3> QED BY <3>1, <3>2, FS_Subset
    <2> HIDE DEF S, R
    <2>5. /\ Cardinality(S) <= Cardinality(R) /\ Cardinality(R) \in Nat /\ Cardinality(S) \in Nat
          /\ AlertAbove \in Nat
        BY <2>3, <2>4, FS_Subset, FS_CardinalityType, NightlyAssumption
    <2>6. Cardinality(R) > AlertAbove
        BY <1>7, <2>5 DEF S
    <2>7. d \in alerted
        BY <2>1, <2>2, <2>6 DEF R, NightInv, RunsTell
    <2> QED BY <2>7
<1> QED BY <1>1, <1>2, <1>6, <1>7 DEF ReportsAreWhole, JobsAccounted

(* Carts *)

SaleCarts == [kind : {"sale", "order"}, token : Nat, status : {"draft", "confirmed", "deleted"},
              client : BOOLEAN, old : BOOLEAN, rows : Seq(Nat), added : Int, sold : BOOLEAN]

Requests ==
    {NoTap}
    \cup [step : {"create"}, token : Nat, visit : Nat, asked : Quantities]
    \cup [step : {"read"}, cart : Nat, token : Nat, first : BOOLEAN, asked : Quantities]
    \cup [step : {"write"}, cart : Nat, token : Nat, first : BOOLEAN, quantity : Nat \ {0},
          row : Nat, seen : Nat]
    \cup [step : {"save"}, token : Nat, first : BOOLEAN]

Pages == [token : Nat, known : Nat, quiet : BOOLEAN]

DraftTypes ==
    /\ cart \in Seq(SaleCarts) /\ req \in [TapWorkers -> Requests]
    /\ {session, minted, taps} \subseteq Nat /\ visit \in Seq(Pages)
    /\ landed \subseteq [visit : Nat, cart : Nat, own : BOOLEAN] /\ revived \in BOOLEAN

Writes(w, c) == req[w].step = "write" /\ req[w].cart = c

\* A request refers to a page, a token, a cart and a row that are there.
Refers(r) ==
    /\ r.step = "create" => r.visit \in DOMAIN visit /\ r.token <= minted
    /\ r.step \in {"read", "write", "save"} => r.token <= minted /\ (r.first => r.token = NoToken)
    /\ r.step \in {"read", "write"} => r.cart \in Carts /\ (r.first => r.cart # TheOrder)
    /\ r.step = "write" => /\ r.row \in 0..Len(cart[r.cart].rows)
                           /\ r.row = 0 => r.seen = 0

\* What refers to a cart, a row of it, a page or a token refers to one there is.
DraftRefs ==
    /\ session <= minted /\ TheOrder \in Carts
    /\ \A c \in Carts \ {TheOrder} :
          cart[c].kind = "sale" /\ cart[c].token \in 1..minted /\ (cart[c].status = "deleted" => cart[c].old)
    /\ cart[TheOrder].status # "deleted" /\ cart[TheOrder].kind = "order" /\ cart[TheOrder].token = NoToken
    /\ \A w \in TapWorkers : Refers(req[w])
    /\ removal.step \in {"collect", "delete"} =>
          \A c \in removal.found : c \in Carts /\ c # TheOrder /\ cart[c].old
    /\ \A v \in DOMAIN visit : visit[v].token \in 1..minted /\ visit[v].known <= Len(cart)
    /\ \A l \in landed : l.visit \in DOMAIN visit /\ l.cart \in Carts

\* Numbers and sequences.
LEMMA LesserOf == ASSUME NEW a \in Int, NEW b \in Int PROVE Min({a, b}) = IF a <= b THEN a ELSE b
<1> DEFINE m == IF a <= b THEN a ELSE b
<1>1. m \in {a, b} /\ \A y \in {a, b} : m <= y
    OBVIOUS
<1>2. \A x \in {a, b} : (\A y \in {a, b} : x <= y) => x = m
    OBVIOUS
<1> HIDE DEF m
<1>3. Min({a, b}) = m
    BY <1>1, <1>2 DEF Min
<1> QED BY <1>3 DEF m

LEMMA GreaterOf == ASSUME NEW a \in Int, NEW b \in Int PROVE Max({a, b}) = IF a >= b THEN a ELSE b
<1> DEFINE m == IF a >= b THEN a ELSE b
<1>1. m \in {a, b} /\ \A y \in {a, b} : m >= y
    OBVIOUS
<1>2. \A x \in {a, b} : (\A y \in {a, b} : x >= y) => x = m
    OBVIOUS
<1> HIDE DEF m
<1>3. Max({a, b}) = m
    BY <1>1, <1>2 DEF Max
<1> QED BY <1>3 DEF m

LEMMA MostOf ==
    ASSUME NEW S, IsFiniteSet(S), S \subseteq Nat, NEW x \in S
    PROVE  Max(S) \in S /\ x <= Max(S)
<1>1. \E n \in S : \A m \in S : m <= n
    BY GreatestOf
<1>2. \E n \in S : \A m \in S : n >= m
    BY <1>1
<1> QED BY <1>2 DEF Max

\* A set of workers, when one of them may have left it and may be in it again.
LEMMA MovesOf ==
    ASSUME NEW W, IsFiniteSet(W), NEW S \in SUBSET W, NEW T \in SUBSET W, NEW w \in W,
           S \ {w} = T \ {w}
    PROVE  /\ Cardinality(S) \in Nat /\ Cardinality(T) \in Nat
           /\ Cardinality(T) <= Cardinality(W) /\ Cardinality(W) \in Nat
           /\ Cardinality(T) = Cardinality(S) - (IF w \in S THEN 1 ELSE 0) + (IF w \in T THEN 1 ELSE 0)
<1>1. /\ IsFiniteSet(S) /\ IsFiniteSet(T) /\ Cardinality(S) \in Nat /\ Cardinality(T) \in Nat
      /\ Cardinality(T) <= Cardinality(W) /\ Cardinality(W) \in Nat
    BY FS_Subset, FS_CardinalityType
<1>2. Cardinality(S \ {w}) = Cardinality(S) - (IF w \in S THEN 1 ELSE 0)
    BY <1>1, Joined
<1>3. Cardinality(T \ {w}) = Cardinality(T) - (IF w \in T THEN 1 ELSE 0)
    BY <1>1, Joined
<1> QED BY <1>1, <1>2, <1>3

LEMMA Changed ==
    ASSUME NEW S, NEW s \in Seq(S), NEW i \in 1..Len(s), NEW x \in S
    PROVE  /\ [s EXCEPT ![i] = x] \in Seq(S) /\ Len([s EXCEPT ![i] = x]) = Len(s)
           /\ DOMAIN [s EXCEPT ![i] = x] = DOMAIN s
OBVIOUS

LEMMA Refilled ==
    ASSUME NEW k \in SaleCarts, NEW n \in Int, NEW lines \in Seq(Nat)
    PROVE  LET new == [k EXCEPT !.added = n, !.rows = lines]
           IN  /\ new \in SaleCarts /\ new.added = n /\ new.rows = lines
               /\ new.kind = k.kind /\ new.token = k.token /\ new.status = k.status
               /\ new.old = k.old /\ new.sold = k.sold
<1> DEFINE R == Seq(Nat)
<1>1. lines \in R /\ k \in [kind : {"sale", "order"}, token : Nat, status : {"draft", "confirmed", "deleted"},
              client : BOOLEAN, old : BOOLEAN, rows : R, added : Int, sold : BOOLEAN]
    BY DEF SaleCarts
<1> HIDE DEF R
<1> DEFINE new == [k EXCEPT !.added = n, !.rows = lines]
<1>2. /\ new \in [kind : {"sale", "order"}, token : Nat, status : {"draft", "confirmed", "deleted"},
              client : BOOLEAN, old : BOOLEAN, rows : R, added : Int, sold : BOOLEAN]
      /\ new.added = n /\ new.rows = lines
      /\ new.kind = k.kind /\ new.token = k.token /\ new.status = k.status
      /\ new.old = k.old /\ new.sold = k.sold
    BY <1>1
<1> QED BY <1>2 DEF R, SaleCarts

LEMMA CartElements ==
    /\ DraftTypes => /\ Carts = 1..Len(cart) /\ Len(cart) \in Nat
                     /\ \A c \in Carts : /\ cart[c] \in SaleCarts /\ cart[c].rows \in Seq(Nat)
                                         /\ DOMAIN cart[c].rows = 1..Len(cart[c].rows)
                                         /\ Len(cart[c].rows) \in Nat
                                         /\ IsFiniteSet(DOMAIN cart[c].rows)
                                         /\ \A i \in DOMAIN cart[c].rows : cart[c].rows[i] \in Nat
    /\ DraftTypes' => /\ Carts' = 1..Len(cart') /\ Len(cart') \in Nat
                      /\ \A c \in Carts' : cart'[c] \in SaleCarts
<1>1. ASSUME DraftTypes
      PROVE  /\ Carts = 1..Len(cart) /\ Len(cart) \in Nat
             /\ \A c \in Carts : /\ cart[c] \in SaleCarts /\ cart[c].rows \in Seq(Nat)
                                 /\ DOMAIN cart[c].rows = 1..Len(cart[c].rows)
                                 /\ Len(cart[c].rows) \in Nat
                                 /\ IsFiniteSet(DOMAIN cart[c].rows)
                                 /\ \A i \in DOMAIN cart[c].rows : cart[c].rows[i] \in Nat
    <2>1. cart \in Seq(SaleCarts)
        BY <1>1 DEF DraftTypes
    <2>2. \A c \in Carts : cart[c] \in SaleCarts
        BY <2>1, Element DEF Carts
    <2>3. \A c \in Carts : cart[c].rows \in Seq(Nat)
        BY <2>2 DEF SaleCarts
    <2>4. ASSUME NEW s \in Seq(Nat)
          PROVE  /\ DOMAIN s = 1..Len(s) /\ Len(s) \in Nat /\ \A i \in DOMAIN s : s[i] \in Nat
                 /\ IsFiniteSet(DOMAIN s)
        <3>1. DOMAIN s = 1..Len(s) /\ Len(s) \in Nat /\ \A i \in DOMAIN s : s[i] \in Nat
            OBVIOUS
        <3>2. IsFiniteSet(1..Len(s))
            BY <3>1, FS_Interval
        <3> QED BY <3>1, <3>2
    <2> QED BY <2>1, <2>2, <2>3, <2>4 DEF Carts
<1>2. ASSUME DraftTypes'
      PROVE  /\ Carts' = 1..Len(cart') /\ Len(cart') \in Nat
             /\ \A c \in Carts' : cart'[c] \in SaleCarts
    <2>1. cart' \in Seq(SaleCarts)
        BY <1>2 DEF DraftTypes
    <2> QED BY <2>1, Element DEF Carts
<1> QED BY <1>1, <1>2

\* The first row that is left.
LEMMA FirstLeft ==
    ASSUME NEW lines \in Seq(Nat)
    PROVE  /\ FirstRow(lines) \in 0..Len(lines)
           /\ FirstRow(lines) # 0 => FirstRow(lines) \in DOMAIN lines /\ lines[FirstRow(lines)] > 0
           /\ FirstRow(lines) = 0 => \A i \in DOMAIN lines : lines[i] = 0
<1> DEFINE S == {i \in DOMAIN lines : lines[i] > 0}
<1>1. DOMAIN lines = 1..Len(lines) /\ \A i \in DOMAIN lines : lines[i] \in Nat
    OBVIOUS
<1>2. S \in SUBSET Nat
    BY <1>1
<1>3. FirstRow(lines) = IF S # {} THEN Min(S) ELSE 0
    BY DEF FirstRow
<1>4. S # {} => Min(S) \in S
    BY <1>2, Least
<1> QED BY <1>1, <1>3, <1>4

LEMMA QuantitySum == \A lines : Quantity(lines) = SumOf(lines, DOMAIN lines)
BY DEF Quantity, SumOf, MapThenSumSet, MapThenFoldSet

LEMMA QuantityNat ==
    ASSUME NEW lines \in Seq(Nat)
    PROVE  /\ Quantity(lines) \in Nat /\ \A i \in DOMAIN lines : lines[i] <= Quantity(lines)
<1>1. DOMAIN lines = 1..Len(lines) /\ Len(lines) \in Nat /\ \A i \in DOMAIN lines : lines[i] \in Nat
    OBVIOUS
<1>2. IsFiniteSet(DOMAIN lines)
    BY <1>1, FS_Interval
<1>3. Quantity(lines) \in Nat
    BY <1>1, <1>2, QuantitySum, SumNat
<1>4. ASSUME NEW i \in DOMAIN lines PROVE lines[i] <= Quantity(lines)
    <2> DEFINE S == DOMAIN lines
    <2>1. SumOf(lines, S) = lines[i] + SumOf(lines, S \ {i})
        BY <1>1, <1>2, SumRemove
    <2>2. IsFiniteSet(S \ {i})
        BY <1>2, FS_Subset
    <2>3. SumOf(lines, S \ {i}) \in Nat
        BY <1>1, <2>2, SumNat
    <2> QED BY <1>1, <2>1, <2>3, QuantitySum
<1> QED BY <1>3, <1>4

\* What is asked is cut to the room there is.
LEMMA RoomLeft ==
    ASSUME DraftTypes, DraftRefs, NEW w \in TapWorkers, req[w].step = "read"
    PROVE  LET c == req[w].cart
               q == Min({req[w].asked, Room(c)})
           IN  /\ c \in Carts /\ q \in Nat
               /\ c # TheOrder /\ q # 0 => Quantity(cart[c].rows) + q <= Stock
<1> DEFINE c == req[w].cart
           n == Quantity(cart[c].rows)
<1>1. /\ c \in Carts /\ req[w] \in [step : {"read"}, cart : Nat, token : Nat, first : BOOLEAN,
                                    asked : Quantities]
    BY DEF DraftTypes, DraftRefs, Refers, Requests, NoTap
<1>2. n \in Nat /\ Stock \in Nat /\ req[w].asked \in Quantities /\ req[w].asked \in Nat
    BY <1>1, CartElements, QuantityNat, DraftsAssumption
<1>3. Max(Quantities) \in Nat
    BY <1>2, MostOf, DraftsAssumption
<1>4. Max({0, Stock - n}) = IF 0 >= Stock - n THEN 0 ELSE Stock - n
    BY <1>2, GreaterOf
<1>5. Room(c) = IF cart[c].kind = "order" THEN Max(Quantities) ELSE Max({0, Stock - n})
    BY DEF Room
<1>6. Room(c) \in Nat /\ (c # TheOrder => Room(c) = IF 0 >= Stock - n THEN 0 ELSE Stock - n)
    BY <1>1, <1>2, <1>3, <1>4, <1>5 DEF DraftRefs
<1> DEFINE q == Min({req[w].asked, Room(c)})
<1>7. q = IF req[w].asked <= Room(c) THEN req[w].asked ELSE Room(c)
    BY <1>2, <1>6, LesserOf
<1> HIDE DEF c, q, n
<1>8. q \in Nat /\ (c # TheOrder /\ q # 0 => n + q <= Stock)
    BY <1>2, <1>6, <1>7
<1> QED BY <1>1, <1>8 DEF c, q, n

LEMMA EditTypes ==
    ASSUME DraftTypes, NEW c \in Carts, NEW k \in SaleCarts, cart' = [cart EXCEPT ![c] = k]
    PROVE  /\ cart' \in Seq(SaleCarts) /\ Carts' = Carts /\ Len(cart') = Len(cart)
           /\ cart'[c] = k /\ \A b \in Carts \ {c} : cart'[b] = cart[b]
<1>1. cart \in Seq(SaleCarts) /\ Carts = 1..Len(cart) /\ Len(cart) \in Nat
    BY CartElements DEF DraftTypes
<1> HIDE DEF SaleCarts
<1> QED BY <1>1 DEF Carts

\* A row is written.
LEMMA RowWritten ==
    ASSUME DraftTypes, DraftRefs, NEW w \in TapWorkers, WriteCart(w)
    PROVE  LET r == req[w]
               c == req[w].cart
               lines == cart[c].rows
           IN  /\ c \in Carts /\ r \in [step : {"write"}, cart : Nat, token : Nat, first : BOOLEAN,
                                        quantity : Nat \ {0}, row : Nat, seen : Nat]
               /\ r.row \in 0..Len(lines)
               /\ \/ /\ cart[c].status = "deleted" \/ (r.row # 0 /\ lines[r.row] = 0)
                     /\ req' = [req EXCEPT ![w] = NoTap] /\ cart' = cart
                  \/ /\ cart[c].status # "deleted" /\ (r.row # 0 => lines[r.row] # 0)
                     /\ \E new \in Seq(Nat), k \in SaleCarts :
                           /\ new = IF r.row = 0 THEN Append(lines, r.quantity)
                                    ELSE [lines EXCEPT ![r.row] = r.seen + r.quantity]
                           /\ k = [cart[c] EXCEPT !.added = @ + r.quantity, !.rows = new]
                           /\ cart' = [cart EXCEPT ![c] = k]
                     /\ req' = [req EXCEPT ![w] = [step |-> "save", token |-> r.token, first |-> r.first]]
<1> DEFINE r == req[w]
           c == req[w].cart
           lines == cart[c].rows
           new == IF r.row = 0 THEN Append(lines, r.quantity) ELSE [lines EXCEPT ![r.row] = r.seen + r.quantity]
           k == [cart[c] EXCEPT !.added = @ + r.quantity, !.rows = new]
<1>1. /\ c \in Carts /\ r \in [step : {"write"}, cart : Nat, token : Nat, first : BOOLEAN,
                               quantity : Nat \ {0}, row : Nat, seen : Nat]
      /\ r.row \in 0..Len(lines)
    BY DEF WriteCart, DraftTypes, DraftRefs, Refers, Requests, NoTap
<1>2. cart[c] \in SaleCarts /\ lines \in Seq(Nat)
    BY <1>1, CartElements
<1>3. new \in Seq(Nat)
    <2>1. r.quantity \in Nat /\ r.seen + r.quantity \in Nat /\ r.row \in 0..Len(lines)
        BY <1>1
    <2> HIDE DEF r, lines
    <2>2. Append(lines, r.quantity) \in Seq(Nat)
        BY <1>2, <2>1
    <2>3. r.row # 0 => [lines EXCEPT ![r.row] = r.seen + r.quantity] \in Seq(Nat)
        BY <1>2, <2>1, Changed
    <2> QED BY <2>2, <2>3
<1> HIDE DEF new
<1>4. k \in SaleCarts
    <2>1. r.quantity \in Nat /\ cart[c].added \in Int
        BY <1>1, <1>2 DEF SaleCarts
    <2>2. cart[c].added + r.quantity \in Int
        BY <2>1
    <2> HIDE DEF r, c
    <2>3. [cart[c] EXCEPT !.added = cart[c].added + r.quantity, !.rows = new] \in SaleCarts
        BY <1>2, <1>3, <2>2, Refilled, Zenon
    <2> QED BY <1>2, <2>3 DEF k, SaleCarts
<1>5. CASE cart[c].status = "deleted" \/ (r.row # 0 /\ lines[r.row] = 0)
    BY <1>1, <1>5, Zenon DEF WriteCart
<1>6. CASE ~(cart[c].status = "deleted" \/ (r.row # 0 /\ lines[r.row] = 0))
    <2>1. /\ cart' = [cart EXCEPT ![c] = k]
          /\ req' = [req EXCEPT ![w] = [step |-> "save", token |-> r.token, first |-> r.first]]
        BY <1>1, <1>2, <1>6 DEF WriteCart, Stored, new
    <2> HIDE DEF k
    <2> QED BY <1>1, <1>3, <1>4, <1>6, <2>1, Zenon DEF new, k
<1> QED BY <1>5, <1>6, Zenon

LEMMA DraftStepTypes == ASSUME DraftTypes, DraftRefs, DNext PROVE DraftTypes'
<1>1. /\ cart \in Seq(SaleCarts) /\ req \in [TapWorkers -> Requests]
      /\ {session, minted, taps} \subseteq Nat /\ visit \in Seq(Pages)
      /\ landed \subseteq [visit : Nat, cart : Nat, own : BOOLEAN] /\ revived \in BOOLEAN
    BY DEF DraftTypes
<1>2. /\ Carts = 1..Len(cart) /\ Len(cart) \in Nat
      /\ \A c \in Carts : cart[c] \in SaleCarts
    BY CartElements
<1>3. ASSUME NEW w \in TapWorkers, NEW r, r \in Requests, req' = [req EXCEPT ![w] = r]
      PROVE  req' \in [TapWorkers -> Requests]
    BY <1>1, <1>3
<1>4. NoTap \in Requests
    BY DEF Requests
<1>5. CASE OpenPage
    <2> DEFINE p == [token |-> session', known |-> Len(cart),
                     quiet |-> \A w \in TapWorkers : req[w] = NoTap]
    <2>1. session' \in Nat /\ minted' \in Nat
        BY <1>1, <1>5 DEF OpenPage
    <2>2. p \in Pages
        BY <1>2, <2>1 DEF Pages
    <2>3. visit' = Append(visit, p) /\ UNCHANGED <<cart, req, taps, landed, revived>>
        BY <1>5 DEF OpenPage
    <2> HIDE DEF p
    <2>4. visit' \in Seq(Pages)
        BY <1>1, <2>2, <2>3
    <2> QED BY <1>1, <2>1, <2>3, <2>4 DEF DraftTypes
<1>6. ASSUME NEW w \in TapWorkers, NEW v \in DOMAIN visit, NEW q \in Quantities, FirstTap(w, v, q)
      PROVE  DraftTypes'
    <2> DEFINE r == [step |-> "create", token |-> session, visit |-> v, asked |-> q]
    <2>1. v \in Nat
        BY <1>1
    <2>2. r \in Requests
        BY <1>1, <2>1 DEF Requests
    <2> HIDE DEF r
    <2> QED BY <1>1, <1>3, <1>6, <2>2 DEF FirstTap, Takes, DraftTypes, r
<1>7. ASSUME NEW w \in TapWorkers, NEW c \in Carts, NEW q \in Quantities, Tap(w, c, q)
      PROVE  DraftTypes'
    <2> DEFINE r == [step |-> "read", cart |-> c, token |-> session, first |-> FALSE, asked |-> q]
    <2>1. r \in Requests
        BY <1>1, <1>2 DEF Requests
    <2> HIDE DEF r
    <2>2. req' = [req EXCEPT ![w] = r] /\ taps' = taps + 1
          /\ UNCHANGED <<cart, session, minted, visit, landed, revived>>
        BY <1>7 DEF Tap, Takes, r
    <2>3. req' \in [TapWorkers -> Requests]
        BY <1>3, <2>1, <2>2
    <2> QED BY <1>1, <2>2, <2>3 DEF DraftTypes
<1>8. ASSUME NEW w \in TapWorkers, GetOrCreate(w) PROVE DraftTypes'
    <2> DEFINE token == IF req[w].token = NoToken THEN minted + 1 ELSE req[w].token
               found == WithToken(token)
               c == IF found = {} THEN Len(cart) + 1 ELSE Min(found)
               v == req[w].visit
               r == [step |-> "read", cart |-> c, token |-> Used(w), first |-> TRUE, asked |-> req[w].asked]
               l == [visit |-> v, cart |-> c, own |-> req[w].token = visit[v].token]
    <2>1. req[w] \in [step : {"create"}, token : Nat, visit : Nat, asked : Quantities]
        BY <1>1, <1>8 DEF GetOrCreate, Requests, NoTap
    <2>2. token \in Nat /\ found \in SUBSET Nat
        BY <1>1, <1>2, <2>1 DEF WithToken
    <2>3. c \in Nat
        BY <1>2, <2>2, Least
    <2>4. r \in Requests
        BY <2>1, <2>3 DEF Requests, Used, NoToken
    <2>5. l \in [visit : Nat, cart : Nat, own : BOOLEAN]
        BY <2>1, <2>3
    <2>6. Max({minted, token}) \in Nat
        BY <1>1, <2>2, GreaterOf
    <2>7. EmptyCart(token, "sale") \in SaleCarts
        BY <2>2 DEF EmptyCart, SaleCarts
    <2>8. Append(cart, EmptyCart(token, "sale")) \in Seq(SaleCarts)
        BY <1>1, <2>7
    <2>9. /\ cart' = cart \/ cart' = Append(cart, EmptyCart(token, "sale"))
          /\ minted' = Max({minted, token}) /\ landed' = landed \cup {l}
          /\ req' = [req EXCEPT ![w] = r] /\ UNCHANGED <<session, taps, visit, revived>>
        BY <1>8 DEF GetOrCreate
    <2> HIDE DEF r, l, token
    <2>10. req' \in [TapWorkers -> Requests]
        BY <1>3, <2>4, <2>9
    <2>11. landed' \subseteq [visit : Nat, cart : Nat, own : BOOLEAN]
        BY <1>1, <2>5, <2>9
    <2>12. cart' \in Seq(SaleCarts)
        BY <1>1, <2>8, <2>9
    <2> QED BY <1>1, <2>6, <2>9, <2>10, <2>11, <2>12 DEF DraftTypes
<1>9. ASSUME NEW w \in TapWorkers, ReadCart(w) PROVE DraftTypes'
    <2> DEFINE c == req[w].cart
               q == Min({req[w].asked, Room(c)})
               i == FirstRow(cart[c].rows)
               a == [step |-> "save", token |-> req[w].token, first |-> req[w].first]
               b == [step |-> "write", cart |-> c, token |-> req[w].token,
                      first |-> req[w].first, quantity |-> q, row |-> i,
                      seen |-> IF i = 0 THEN 0 ELSE cart[c].rows[i]]
    <2>1. req[w] \in [step : {"read"}, cart : Nat, token : Nat, first : BOOLEAN, asked : Quantities]
        BY <1>1, <1>9 DEF ReadCart, Requests, NoTap
    <2>2. a \in Requests
        BY <2>1 DEF Requests
    <2>3. c \in Carts /\ q \in Nat
        BY <1>9, RoomLeft DEF ReadCart
    <2>4. cart[c].rows \in Seq(Nat)
        BY <2>3, CartElements
    <2>5. i \in Nat /\ (i # 0 => cart[c].rows[i] \in Nat)
        BY <2>3, <2>4, FirstLeft, CartElements
    <2> HIDE DEF q, i
    <2>6. q # 0 => b \in Requests
        BY <2>1, <2>3, <2>5 DEF Requests
    <2>7. \/ req' = [req EXCEPT ![w] = a]
          \/ q # 0 /\ req' = [req EXCEPT ![w] = b]
        BY <1>9 DEF ReadCart, q, i
    <2> HIDE DEF a, b
    <2>8. req' \in [TapWorkers -> Requests]
        BY <1>3, <2>2, <2>6, <2>7
    <2> QED BY <1>1, <1>9, <2>8 DEF ReadCart, DraftTypes
<1>10. ASSUME NEW w \in TapWorkers, WriteCart(w) PROVE DraftTypes'
    <2> DEFINE r == [step |-> "save", token |-> req[w].token, first |-> req[w].first]
    <2>1. r \in Requests
        BY <1>10, RowWritten, Zenon DEF Requests
    <2>2. req' = [req EXCEPT ![w] = NoTap] \/ req' = [req EXCEPT ![w] = r]
        BY <1>10, RowWritten, Zenon
    <2> HIDE DEF r
    <2>3. req' \in [TapWorkers -> Requests]
        BY <1>3, <1>4, <2>1, <2>2
    <2>4. \/ cart' = cart
          \/ \E k \in SaleCarts : cart' = [cart EXCEPT ![req[w].cart] = k]
        BY <1>10, RowWritten, Zenon
    <2>5. req[w].cart \in Carts
        BY <1>10, RowWritten, Zenon
    <2>6. cart' \in Seq(SaleCarts)
        BY <1>1, <2>4, <2>5, EditTypes
    <2> QED BY <1>1, <1>10, <2>3, <2>6 DEF WriteCart, DraftTypes
<1>11. ASSUME NEW w \in TapWorkers, SaveSession(w) PROVE DraftTypes'
    <2>1. session' = req[w].token /\ req' = [req EXCEPT ![w] = NoTap]
          /\ UNCHANGED <<cart, minted, taps, visit, landed>> /\ revived' \in BOOLEAN
        BY <1>1, <1>11 DEF SaveSession
    <2>2. session' \in Nat
        BY <1>1, <1>11, <2>1 DEF SaveSession, Requests, NoTap
    <2>3. req' \in [TapWorkers -> Requests]
        BY <1>3, <1>4, <2>1
    <2> QED BY <1>1, <2>1, <2>2, <2>3 DEF DraftTypes
<1>12. ASSUME NEW c \in Carts, RemoveRow(c) \/ SetClient(c) \/ ConfirmCart(c) \/ GrowOld(c)
       PROVE  DraftTypes'
    <2>1. cart[c] \in SaleCarts /\ cart[c].rows \in Seq(Nat)
        BY CartElements
    <2>2. PICK k \in SaleCarts : Edit(c, k)
        <3>1. CASE RemoveRow(c)
            <4> DEFINE i == FirstRow(cart[c].rows)
                       new == [cart[c].rows EXCEPT ![i] = 0]
                       k == [cart[c] EXCEPT !.rows = new, !.added = @ - cart[c].rows[i]]
            <4>1. i \in 1..Len(cart[c].rows) /\ cart[c].rows[i] \in Nat
                BY <2>1, <3>1, FirstLeft, CartElements DEF RemoveRow
            <4> HIDE DEF i
            <4>2. new \in Seq(Nat)
                BY <2>1, <4>1, Changed
            <4> HIDE DEF new
            <4>3. k \in SaleCarts
                <5>1. cart[c].added - cart[c].rows[i] \in Int
                    BY <2>1, <4>1 DEF SaleCarts
                <5>2. [cart[c] EXCEPT !.added = cart[c].added - cart[c].rows[i], !.rows = new] \in SaleCarts
                    BY <2>1, <4>2, <5>1, Refilled, Zenon
                <5>3. k = [cart[c] EXCEPT !.added = cart[c].added - cart[c].rows[i], !.rows = new]
                    BY <2>1 DEF SaleCarts
                <5> QED BY <5>2, <5>3
            <4>4. Edit(c, k)
                BY <2>1, <3>1 DEF RemoveRow, i, new, SaleCarts
            <4> QED BY <4>3, <4>4
        <3>2. CASE SetClient(c)
            BY <2>1, <3>2 DEF SetClient, SaleCarts
        <3>3. CASE ConfirmCart(c)
            BY <2>1, <3>3 DEF ConfirmCart, SaleCarts
        <3>4. CASE GrowOld(c)
            BY <2>1, <3>4 DEF GrowOld, SaleCarts
        <3> QED BY <1>12, <3>1, <3>2, <3>3, <3>4
    <2> QED BY <1>1, <2>2, EditTypes DEF Edit, DraftTypes
<1>13. CASE Select \/ Collect
    BY <1>1, <1>13 DEF Select, Collect, DraftTypes
<1>14. CASE Delete
    <2>1. cart' = cart \/ cart' = [c \in Carts |-> IF c \in removal.found
                                     THEN [cart[c] EXCEPT !.status = "deleted"] ELSE cart[c]]
        BY <1>14 DEF Delete
    <2>2. \A c \in Carts : [cart[c] EXCEPT !.status = "deleted"] \in SaleCarts
        BY <1>2 DEF SaleCarts
    <2>3. cart' \in Seq(SaleCarts)
        <3>1. CASE cart' = [c \in Carts |-> IF c \in removal.found
                                     THEN [cart[c] EXCEPT !.status = "deleted"] ELSE cart[c]]
            <4>1. cart' = [c \in 1..Len(cart) |-> cart'[c]] /\ \A c \in 1..Len(cart) : cart'[c] \in SaleCarts
                BY <1>2, <2>2, <3>1
            <4> QED BY <1>2, <4>1, IsASeq
        <3> QED BY <1>1, <2>1, <3>1
    <2> QED BY <1>1, <1>14, <2>3 DEF Delete, DraftTypes
<1> QED
    BY <1>5, <1>6, <1>7, <1>8, <1>9, <1>10, <1>11, <1>12, <1>13, <1>14 DEF DNext, TapStep

\* What an edit of a cart leaves as it was.
EditKept(c, k) ==
    /\ k.token = cart[c].token /\ k.kind = cart[c].kind /\ (cart[c].old => k.old)
    /\ (k.status = "deleted" <=> cart[c].status = "deleted")
    /\ Len(k.rows) = Len(cart[c].rows)

LEMMA EditsKeep ==
    ASSUME DraftTypes, DraftRefs, NEW c \in Carts,
           RemoveRow(c) \/ SetClient(c) \/ ConfirmCart(c) \/ GrowOld(c)
    PROVE  \E k \in SaleCarts :
              /\ Edit(c, k) /\ EditKept(c, k) /\ (k.old # cart[c].old => GrowOld(c))
              /\ (k.sold => k.status = "confirmed" \/ (cart[c].sold /\ k.status = cart[c].status))
              /\ \/ k.rows = cart[c].rows /\ k.added = cart[c].added
                 \/ \E i \in DOMAIN cart[c].rows :
                       /\ i = FirstRow(cart[c].rows) /\ cart[c].rows[i] > 0
                       /\ k.rows = [cart[c].rows EXCEPT ![i] = 0]
                       /\ k.added = cart[c].added - cart[c].rows[i]
<1>1. cart[c] \in SaleCarts /\ cart[c].rows \in Seq(Nat)
    BY CartElements
<1>2. CASE RemoveRow(c)
    <2> DEFINE lines == cart[c].rows
               i == FirstRow(lines)
               new == [lines EXCEPT ![i] = 0]
               n == cart[c].added - lines[i]
               k == [cart[c] EXCEPT !.rows = new, !.added = n]
    <2>1. i \in 1..Len(lines) /\ lines[i] \in Nat /\ i \in DOMAIN lines /\ lines[i] > 0
        BY <1>1, <1>2, FirstLeft, CartElements DEF RemoveRow
    <2>2. Edit(c, k)
        BY <1>1, <1>2 DEF RemoveRow, SaleCarts
    <2>3. new \in Seq(Nat) /\ Len(new) = Len(lines)
        <3> HIDE DEF i
        <3> QED BY <1>1, <2>1, Changed
    <2>4. n \in Int
        BY <1>1, <2>1 DEF SaleCarts
    <2>5. k = [cart[c] EXCEPT !.added = n, !.rows = new]
        BY <1>1 DEF SaleCarts
    <2> HIDE DEF lines, i, n, new, k
    <2>6. /\ k \in SaleCarts /\ k.added = n /\ k.rows = new
          /\ k.kind = cart[c].kind /\ k.token = cart[c].token /\ k.status = cart[c].status
          /\ k.old = cart[c].old /\ k.sold = cart[c].sold
        <3>1. PICK old : old = cart[c] /\ old \in SaleCarts
            BY <1>1
        <3>2. new \in Seq(Nat) /\ n \in Int /\ k = [old EXCEPT !.added = n, !.rows = new]
            BY <2>3, <2>4, <2>5, <3>1
        <3>3. /\ k \in SaleCarts /\ k.added = n /\ k.rows = new
              /\ k.kind = old.kind /\ k.token = old.token /\ k.status = old.status
              /\ k.old = old.old /\ k.sold = old.sold
            <4> DEFINE R == Seq(Nat)
            <4>1. new \in R /\ old \in [kind : {"sale", "order"}, token : Nat, status : {"draft", "confirmed", "deleted"},
                      client : BOOLEAN, old : BOOLEAN, rows : R, added : Int, sold : BOOLEAN]
                BY <3>1, <3>2 DEF SaleCarts
            <4> HIDE DEF R
            <4>2. /\ k \in [kind : {"sale", "order"}, token : Nat, status : {"draft", "confirmed", "deleted"},
                          client : BOOLEAN, old : BOOLEAN, rows : R, added : Int, sold : BOOLEAN]
                  /\ k.added = n /\ k.rows = new
                  /\ k.kind = old.kind /\ k.token = old.token /\ k.status = old.status
                  /\ k.old = old.old /\ k.sold = old.sold
                BY <3>2, <4>1
            <4> QED BY <4>2 DEF R, SaleCarts
        <3> QED BY <3>1, <3>3
    <2> QED BY <2>1, <2>2, <2>3, <2>6 DEF EditKept, i, lines, n, new
<1>3. CASE SetClient(c)
    <2> DEFINE k == [cart[c] EXCEPT !.client = TRUE]
    <2>1. k \in SaleCarts /\ EditKept(c, k) /\ k.rows = cart[c].rows /\ k.added = cart[c].added
          /\ k.old = cart[c].old /\ k.sold = cart[c].sold /\ k.status = cart[c].status
        BY <1>1 DEF SaleCarts, EditKept
    <2> QED BY <1>3, <2>1 DEF SetClient
<1>4. CASE ConfirmCart(c)
    <2> DEFINE k == [cart[c] EXCEPT !.status = "confirmed", !.sold = TRUE]
    <2>1. k \in SaleCarts /\ EditKept(c, k) /\ k.rows = cart[c].rows /\ k.added = cart[c].added
          /\ k.old = cart[c].old /\ k.status = "confirmed"
        BY <1>1, <1>4 DEF SaleCarts, EditKept, ConfirmCart
    <2> QED BY <1>4, <2>1 DEF ConfirmCart
<1>5. CASE GrowOld(c)
    <2> DEFINE k == [cart[c] EXCEPT !.old = TRUE]
    <2>1. k \in SaleCarts /\ EditKept(c, k) /\ k.rows = cart[c].rows /\ k.added = cart[c].added
          /\ k.sold = cart[c].sold /\ k.status = cart[c].status
        BY <1>1 DEF SaleCarts, EditKept
    <2> QED BY <1>5, <2>1 DEF GrowOld
<1> QED BY <1>2, <1>3, <1>4, <1>5

\* The first tap of a page makes a cart or finds one.
LEMMA Created ==
    ASSUME DraftTypes, DraftRefs, NEW w \in TapWorkers, GetOrCreate(w)
    PROVE  \E token \in 1..minted + 1, c \in Nat :
              /\ token = IF req[w].token = NoToken THEN minted + 1 ELSE req[w].token
              /\ \/ /\ c \in Carts /\ c # TheOrder /\ cart[c].token = token /\ cart[c].status # "deleted"
                    /\ cart' = cart
                 \/ /\ WithToken(token) = {} /\ c = Len(cart) + 1 /\ c # TheOrder
                    /\ cart' = Append(cart, EmptyCart(token, "sale"))
              /\ minted' = IF token > minted THEN token ELSE minted
              /\ landed' = landed \cup {[visit |-> req[w].visit, cart |-> c,
                                        own |-> req[w].token = visit[req[w].visit].token]}
              /\ req' = [req EXCEPT ![w] = [step |-> "read", cart |-> c, token |-> NoToken,
                                           first |-> TRUE, asked |-> req[w].asked]]
<1> DEFINE token == IF req[w].token = NoToken THEN minted + 1 ELSE req[w].token
           found == WithToken(token)
           c == IF found = {} THEN Len(cart) + 1 ELSE Min(found)
<1>1. /\ req[w] \in [step : {"create"}, token : Nat, visit : Nat, asked : Quantities]
      /\ minted \in Nat /\ req[w].token <= minted
    BY DEF GetOrCreate, Requests, NoTap, DraftTypes, DraftRefs, Refers
<1>2. token \in 1..minted + 1
    BY <1>1 DEF NoToken
<1>3. Carts = 1..Len(cart) /\ Len(cart) \in Nat /\ TheOrder \in Carts
    BY CartElements DEF DraftRefs
<1>4. found \in SUBSET Nat
    BY <1>3 DEF WithToken
<1>5. found # {} => /\ c \in Carts /\ c # TheOrder /\ cart[c].token = token
                    /\ cart[c].status # "deleted"
    <2>1. found # {} => c \in found
        BY <1>4, Least
    <2> HIDE DEF token
    <2>2. token # NoToken
        BY <1>2 DEF NoToken
    <2> QED BY <2>1, <2>2 DEF WithToken, DraftRefs
<1>6. found = {} => c = Len(cart) + 1 /\ c # TheOrder /\ c \in Nat
    BY <1>3 DEF TheOrder
<1>7. minted' = IF token > minted THEN token ELSE minted
    <2>1. minted' = Max({minted, token})
        BY DEF GetOrCreate
    <2> HIDE DEF token
    <2> QED BY <1>1, <1>2, <2>1, GreaterOf
<1>8. /\ cart' = IF found = {} THEN Append(cart, EmptyCart(token, "sale")) ELSE cart
      /\ landed' = landed \cup {[visit |-> req[w].visit, cart |-> c,
                                own |-> req[w].token = visit[req[w].visit].token]}
      /\ req' = [req EXCEPT ![w] = [step |-> "read", cart |-> c, token |-> NoToken,
                                   first |-> TRUE, asked |-> req[w].asked]]
    BY DEF GetOrCreate, Used
<1>9. token = IF req[w].token = NoToken THEN minted + 1 ELSE req[w].token
    OBVIOUS
<1>10. c \in Nat
    BY <1>3, <1>5, <1>6
<1> HIDE DEF token, c
<1> QED BY <1>2, <1>5, <1>6, <1>7, <1>8, <1>9, <1>10 DEF found

\* Carts stay, as what they were made.
LEMMA CartsStay ==
    ASSUME DraftTypes, DraftRefs, DNext, DraftTypes'
    PROVE  /\ Len(cart) <= Len(cart') /\ Len(cart) \in Nat /\ Len(cart') \in Nat /\ Carts \subseteq Carts'
           /\ Carts = 1..Len(cart)
           /\ \A c \in Carts : /\ cart'[c].token = cart[c].token /\ cart'[c].kind = cart[c].kind
                               /\ cart[c].old => cart'[c].old
                               /\ cart'[c].status = "deleted" =>
                                     \/ cart[c].status = "deleted"
                                     \/ removal.step = "delete" /\ c \in removal.found
                               /\ Len(cart[c].rows) \in Nat /\ Len(cart'[c].rows) \in Nat
                               /\ Len(cart[c].rows) <= Len(cart'[c].rows)
                               /\ Len(cart'[c].rows) # Len(cart[c].rows) =>
                                     \E w \in TapWorkers : WriteCart(w) /\ Writes(w, c)
<1>1. /\ Carts = 1..Len(cart) /\ Len(cart) \in Nat /\ Carts' = 1..Len(cart') /\ Len(cart') \in Nat
      /\ \A c \in Carts : cart[c] \in SaleCarts /\ Len(cart[c].rows) \in Nat
      /\ \A c \in Carts : cart[c].rows \in Seq(Nat)
    BY CartElements
<1>2. CASE cart' = cart
    BY <1>1, <1>2
<1>3. ASSUME NEW w \in TapWorkers, GetOrCreate(w), cart' # cart
      PROVE  Len(cart') = Len(cart) + 1 /\ \A c \in Carts : cart'[c] = cart[c]
    <2>1. PICK k : cart' = Append(cart, k)
        BY <1>3, Created
    <2> QED BY <1>1, <2>1, Appended DEF DraftTypes
<1>4. ASSUME NEW w \in TapWorkers, WriteCart(w), cart' # cart
      PROVE  /\ Carts' = Carts /\ Len(cart') = Len(cart)
             /\ \A c \in Carts : /\ cart'[c].token = cart[c].token /\ cart'[c].kind = cart[c].kind
                                 /\ cart'[c].old = cart[c].old /\ cart'[c].status = cart[c].status
                                 /\ Len(cart[c].rows) <= Len(cart'[c].rows)
                                 /\ Len(cart'[c].rows) # Len(cart[c].rows) => Writes(w, c)
    <2> DEFINE c == req[w].cart
               lines == cart[c].rows
    <2>1. PICK new \in Seq(Nat), k \in SaleCarts :
              /\ c \in Carts
              /\ req[w].row \in 0..Len(lines) /\ req[w].quantity \in Nat /\ req[w].seen \in Nat
              /\ new = IF req[w].row = 0 THEN Append(lines, req[w].quantity)
                       ELSE [lines EXCEPT ![req[w].row] = req[w].seen + req[w].quantity]
              /\ k = [cart[c] EXCEPT !.added = @ + req[w].quantity, !.rows = new]
              /\ cart' = [cart EXCEPT ![c] = k]
        <3>1. ~(/\ cart[c].status = "deleted" \/ (req[w].row # 0 /\ lines[req[w].row] = 0)
                /\ req' = [req EXCEPT ![w] = NoTap] /\ cart' = cart)
            BY <1>4
        <3>2. req[w].quantity \in Nat /\ req[w].seen \in Nat /\ c \in Carts /\ req[w].row \in 0..Len(lines)
            BY <1>4, RowWritten, Zenon
        <3>3. \/ /\ cart[c].status = "deleted" \/ (req[w].row # 0 /\ lines[req[w].row] = 0)
                 /\ req' = [req EXCEPT ![w] = NoTap] /\ cart' = cart
              \/ \E new \in Seq(Nat), k \in SaleCarts :
                    /\ new = IF req[w].row = 0 THEN Append(lines, req[w].quantity)
                             ELSE [lines EXCEPT ![req[w].row] = req[w].seen + req[w].quantity]
                    /\ k = [cart[c] EXCEPT !.added = @ + req[w].quantity, !.rows = new]
                    /\ cart' = [cart EXCEPT ![c] = k]
            BY <1>4, RowWritten, Zenon
        <3> HIDE DEF lines, c
        <3>4. \E new \in Seq(Nat), k \in SaleCarts :
                    /\ new = IF req[w].row = 0 THEN Append(lines, req[w].quantity)
                             ELSE [lines EXCEPT ![req[w].row] = req[w].seen + req[w].quantity]
                    /\ k = [cart[c] EXCEPT !.added = @ + req[w].quantity, !.rows = new]
                    /\ cart' = [cart EXCEPT ![c] = k]
            BY <3>1, <3>3, Zenon
        <3> QED BY <3>2, <3>4, Zenon
    <2>2. lines \in Seq(Nat) /\ cart[c] \in SaleCarts /\ cart[c].added \in Int /\ Len(lines) \in Nat
        BY <1>1, <2>1 DEF SaleCarts
    <2>3. Len(lines) <= Len(new)
        <3>1. CASE req[w].row = 0
            <4>1. new = Append(lines, req[w].quantity)
                BY <2>1, <3>1
            <4> HIDE DEF lines
            <4> QED BY <2>1, <2>2, <4>1
        <3>2. CASE req[w].row # 0
            <4>1. req[w].row \in 1..Len(lines) /\ req[w].seen + req[w].quantity \in Nat
                BY <2>1, <2>2, <3>2
            <4> QED BY <2>1, <2>2, <3>2, <4>1, Changed
        <3> QED BY <3>1, <3>2
    <2>4. k.kind = cart[c].kind /\ k.token = cart[c].token /\ k.status = cart[c].status
          /\ k.old = cart[c].old /\ k.rows = new
        BY <2>1, <2>2, Zenon DEF SaleCarts
    <2>5. /\ Carts' = Carts /\ Len(cart') = Len(cart)
          /\ cart'[c] = k /\ \A b \in Carts \ {c} : cart'[b] = cart[b]
        BY <2>1, EditTypes, Zenon
    <2>6. Writes(w, c)
        BY <1>4 DEF WriteCart, Writes
    <2> HIDE DEF c
    <2> QED BY <1>1, <2>1, <2>3, <2>4, <2>5, <2>6
<1>5. ASSUME NEW c \in Carts, RemoveRow(c) \/ SetClient(c) \/ ConfirmCart(c) \/ GrowOld(c)
      PROVE  /\ Carts' = Carts /\ Len(cart') = Len(cart)
             /\ \E k \in SaleCarts : cart'[c] = k /\ EditKept(c, k)
             /\ \A b \in Carts \ {c} : cart'[b] = cart[b]
    <2>1. PICK k \in SaleCarts : Edit(c, k) /\ EditKept(c, k)
        BY <1>5, EditsKeep
    <2> QED BY <2>1, EditTypes DEF Edit
<1>6. ASSUME Delete, cart' # cart
      PROVE  /\ Carts' = Carts /\ Len(cart') = Len(cart) /\ removal.step = "delete"
             /\ \A c \in Carts : \/ cart'[c] = cart[c]
                                 \/ c \in removal.found /\ cart'[c] = [cart[c] EXCEPT !.status = "deleted"]
    <2>1. cart' = [c \in Carts |-> IF c \in removal.found
                                     THEN [cart[c] EXCEPT !.status = "deleted"] ELSE cart[c]]
        BY <1>6 DEF Delete
    <2>2. Len(cart') = Len(cart)
        BY <1>1, <2>1 DEF Carts
    <2> QED BY <1>1, <1>6, <2>1, <2>2 DEF Delete
<1>7. \/ cart' = cart \/ Delete \/ \E w \in TapWorkers : GetOrCreate(w) \/ WriteCart(w)
      \/ \E c \in Carts : RemoveRow(c) \/ SetClient(c) \/ ConfirmCart(c) \/ GrowOld(c)
    BY DEF DNext, TapStep, OpenPage, FirstTap, Tap, Takes, ReadCart, SaveSession, Select, Collect
<1>8. CASE cart' # cart /\ \E w \in TapWorkers : GetOrCreate(w)
    BY <1>1, <1>3, <1>8
<1>9. CASE cart' # cart /\ \E w \in TapWorkers : WriteCart(w)
    BY <1>1, <1>4, <1>9
<1>10. CASE \E c \in Carts : RemoveRow(c) \/ SetClient(c) \/ ConfirmCart(c) \/ GrowOld(c)
    <2>1. PICK c \in Carts : RemoveRow(c) \/ SetClient(c) \/ ConfirmCart(c) \/ GrowOld(c)
        BY <1>10
    <2>2. PICK k \in SaleCarts : cart'[c] = k /\ EditKept(c, k)
        BY <1>5, <2>1
    <2>3. Carts' = Carts /\ Len(cart') = Len(cart) /\ \A b \in Carts \ {c} : cart'[b] = cart[b]
        BY <1>5, <2>1
    <2> QED BY <1>1, <2>2, <2>3 DEF EditKept
<1>11. CASE Delete /\ cart' # cart
    <2>1. \A c \in Carts : LET k == [cart[c] EXCEPT !.status = "deleted"]
                            IN  /\ k.token = cart[c].token /\ k.kind = cart[c].kind /\ k.old = cart[c].old
                                /\ k.rows = cart[c].rows /\ k.status = "deleted"
        BY <1>1 DEF SaleCarts
    <2>2. \A c \in Carts : cart[c].rows = cart[c].rows /\ Len(cart[c].rows) \in Nat
        BY <1>1
    <2>3. ASSUME NEW c \in Carts
          PROVE  /\ cart'[c].token = cart[c].token /\ cart'[c].kind = cart[c].kind
                 /\ cart[c].old => cart'[c].old
                 /\ cart'[c].rows = cart[c].rows
                 /\ cart'[c].status = "deleted" => cart[c].status = "deleted" \/ c \in removal.found
        <3>1. CASE cart'[c] = cart[c]
            BY <3>1
        <3>2. CASE c \in removal.found /\ cart'[c] = [cart[c] EXCEPT !.status = "deleted"]
            BY <2>1, <3>2
        <3> QED BY <1>6, <1>11, <3>1, <3>2
    <2>4. Carts' = Carts /\ Len(cart') = Len(cart) /\ removal.step = "delete"
        BY <1>6, <1>11
    <2>5. ASSUME NEW c \in Carts PROVE Len(cart'[c].rows) = Len(cart[c].rows)
        <3>1. cart'[c].rows = cart[c].rows
            BY <2>3
        <3> QED BY <3>1
    <2>6. Len(cart) <= Len(cart') /\ Carts \subseteq Carts'
        BY <1>1, <2>4
    <2> QED BY <1>1, <2>3, <2>4, <2>5, <2>6
<1> QED BY <1>2, <1>7, <1>8, <1>9, <1>10, <1>11

\* A cart that was not there is the one of a first tap.
LEMMA NewCart ==
    ASSUME DraftTypes, DraftRefs, DNext, DraftTypes', NEW c \in Carts' \ Carts
    PROVE  \E w \in TapWorkers, token \in 1..minted + 1 :
              /\ GetOrCreate(w) /\ c = Len(cart) + 1 /\ WithToken(token) = {}
              /\ token = IF req[w].token = NoToken THEN minted + 1 ELSE req[w].token
              /\ cart' = Append(cart, EmptyCart(token, "sale")) /\ cart'[c] = EmptyCart(token, "sale")
<1>1. Carts = 1..Len(cart) /\ Len(cart) \in Nat /\ Carts' = 1..Len(cart') /\ Len(cart') \in Nat
    BY CartElements
<1>2. \/ Carts' = Carts \/ \E w \in TapWorkers : GetOrCreate(w)
    <2>1. ASSUME NEW w \in TapWorkers, WriteCart(w) PROVE Carts' = Carts
        <3>1. cart' = cart \/ \E k \in SaleCarts : cart' = [cart EXCEPT ![req[w].cart] = k]
            BY <2>1, RowWritten, Zenon
        <3>2. req[w].cart \in Carts
            BY <2>1, RowWritten, Zenon
        <3> QED BY <3>1, <3>2, EditTypes DEF Carts
    <2>2. ASSUME NEW b \in Carts, RemoveRow(b) \/ SetClient(b) \/ ConfirmCart(b) \/ GrowOld(b)
          PROVE  Carts' = Carts
        <3>1. PICK k \in SaleCarts : Edit(b, k)
            BY <2>2, EditsKeep
        <3> QED BY <3>1, EditTypes DEF Edit
    <2>3. Delete => Carts' = Carts
        BY DEF Delete, Carts
    <2> QED BY <2>1, <2>2, <2>3, Zenon DEF DNext, TapStep, OpenPage, FirstTap, Tap, Takes, ReadCart, SaveSession,
                                    Select, Collect, Carts
<1>3. PICK w \in TapWorkers : GetOrCreate(w)
    BY <1>2
<1>4. PICK token \in 1..minted + 1 :
          /\ token = IF req[w].token = NoToken THEN minted + 1 ELSE req[w].token
          /\ cart' = cart \/ (WithToken(token) = {} /\ cart' = Append(cart, EmptyCart(token, "sale")))
    BY <1>3, Created
<1>5. cart' # cart
    BY DEF Carts
<1>6. cart \in Seq(SaleCarts)
    BY DEF DraftTypes
<1>7. /\ DOMAIN cart' = 1..(Len(cart) + 1) /\ cart'[Len(cart) + 1] = EmptyCart(token, "sale")
    BY <1>4, <1>5, <1>6, Appended
<1>8. c = Len(cart) + 1
    BY <1>1, <1>7 DEF Carts
<1> QED BY <1>3, <1>4, <1>5, <1>7, <1>8

\* Tokens and pages stay.
LEMMA PagesStay ==
    ASSUME DraftTypes, DraftRefs, DNext
    PROVE  /\ minted \in Nat /\ minted' \in Nat /\ minted <= minted'
           /\ DOMAIN visit \subseteq DOMAIN visit' /\ \A v \in DOMAIN visit : visit'[v] = visit[v]
<1>1. minted \in Nat /\ visit \in Seq(Pages)
    BY DEF DraftTypes
<1>2. CASE OpenPage
    <2>1. minted' \in {minted, minted + 1} /\ \E v : visit' = Append(visit, v)
        BY <1>2 DEF OpenPage
    <2> QED BY <1>1, <2>1, Appended
<1>3. ASSUME NEW w \in TapWorkers, GetOrCreate(w) PROVE minted' \in Nat /\ minted <= minted' /\ visit' = visit
    <2>1. PICK token \in 1..minted + 1 : minted' = IF token > minted THEN token ELSE minted
        BY <1>3, Created
    <2> QED BY <1>1, <1>3, <2>1 DEF GetOrCreate
<1>4. CASE UNCHANGED <<minted, visit>>
    BY <1>1, <1>4
<1>5. \/ OpenPage \/ (\E w \in TapWorkers : GetOrCreate(w)) \/ UNCHANGED <<minted, visit>>
    BY Zenon DEF DNext, TapStep, FirstTap, Tap, Takes, ReadCart, WriteCart, SaveSession, Select, Collect, Delete,
           RemoveRow, SetClient, ConfirmCart, GrowOld, Edit
<1>6. ASSUME NEW w \in TapWorkers, GetOrCreate(w)
      PROVE  /\ minted' \in Nat /\ minted <= minted'
             /\ DOMAIN visit \subseteq DOMAIN visit' /\ \A v \in DOMAIN visit : visit'[v] = visit[v]
    BY <1>3, <1>6
<1> QED BY <1>1, <1>2, <1>4, <1>5, <1>6

LEMMA StillRefers ==
    ASSUME DraftTypes, DraftRefs, DNext, DraftTypes', NEW r \in Requests, Refers(r)
    PROVE  Refers(r)'
<1>1. /\ minted <= minted' /\ minted \in Nat /\ minted' \in Nat /\ DOMAIN visit \subseteq DOMAIN visit'
      /\ Carts \subseteq Carts'
      /\ \A c \in Carts : /\ Len(cart[c].rows) \in Nat /\ Len(cart'[c].rows) \in Nat
                          /\ Len(cart[c].rows) <= Len(cart'[c].rows)
    BY PagesStay, CartsStay
<1>2. r.step \in {"create", "read", "write", "save"} => r.token \in Nat
    BY DEF Requests, NoTap
<1>3. r.step = "write" => r.row \in 0..Len(cart'[r.cart].rows)
    BY <1>1 DEF Refers
<1> QED BY <1>1, <1>2, <1>3 DEF Refers

\* What each worker may go on with.
LEMMA Requested ==
    ASSUME DraftTypes, DraftRefs, DNext, DraftTypes'
    PROVE  \/ req' = req
           \/ \E w \in TapWorkers, r \in Requests :
                 /\ req' = [req EXCEPT ![w] = r] /\ Refers(r)'
                 /\ r.step = "create" => req[w] = NoTap /\ r.token = session /\ UNCHANGED <<cart, session, visit, landed>>
                 /\ r.step = "write"  => ReadCart(w) /\ UNCHANGED <<cart, session>>
                 /\ r.step = "read"   => \/ GetOrCreate(w) /\ r.first
                                         \/ /\ req[w] = NoTap /\ ~r.first /\ r.token = session
                                            /\ UNCHANGED <<cart, session>>
                 /\ r.step = "save"   => /\ ReadCart(w) \/ WriteCart(w)
                                         /\ r.token = req[w].token /\ r.first = req[w].first
<1>1. /\ minted <= minted' /\ minted \in Nat /\ minted' \in Nat /\ DOMAIN visit \subseteq DOMAIN visit'
      /\ Carts \subseteq Carts' /\ session <= minted /\ session \in Nat
      /\ \A c \in Carts : /\ Len(cart[c].rows) \in Nat /\ Len(cart'[c].rows) \in Nat
                          /\ Len(cart[c].rows) <= Len(cart'[c].rows)
    BY PagesStay, CartsStay DEF DraftTypes, DraftRefs
<1>2. NoTap \in Requests /\ Refers(NoTap)'
    BY DEF Refers, NoTap, Requests
<1>3. req' \in [TapWorkers -> Requests] /\ req \in [TapWorkers -> Requests]
    BY DEF DraftTypes
<1>4. ASSUME NEW w \in TapWorkers, NEW v \in DOMAIN visit, NEW q \in Quantities, FirstTap(w, v, q)
      PROVE  \E r \in Requests :
                /\ req' = [req EXCEPT ![w] = r] /\ Refers(r)' /\ r.step = "create" /\ req[w] = NoTap
                /\ r.token = session /\ UNCHANGED <<cart, session, visit, landed>>
    <2> DEFINE r == [step |-> "create", token |-> session, visit |-> v, asked |-> q]
    <2>1. req' = [req EXCEPT ![w] = r] /\ req[w] = NoTap /\ UNCHANGED <<cart, session, visit, minted, landed>>
        BY <1>4 DEF FirstTap, Takes
    <2>2. r \in Requests
        BY <1>3, <2>1
    <2>3. Refers(r)'
        BY <1>1, <2>1 DEF Refers
    <2> QED BY <2>1, <2>2, <2>3
<1>5. ASSUME NEW w \in TapWorkers, NEW c \in Carts, NEW q \in Quantities, Tap(w, c, q)
      PROVE  \E r \in Requests :
                /\ req' = [req EXCEPT ![w] = r] /\ Refers(r)' /\ r.step = "read" /\ ~r.first /\ req[w] = NoTap
                /\ r.token = session /\ UNCHANGED <<cart, session>>
    <2> DEFINE r == [step |-> "read", cart |-> c, token |-> session, first |-> FALSE, asked |-> q]
    <2>1. req' = [req EXCEPT ![w] = r] /\ req[w] = NoTap /\ UNCHANGED <<cart, session, visit, minted>>
        BY <1>5 DEF Tap, Takes
    <2>2. r \in Requests
        BY <1>3, <2>1
    <2>3. Refers(r)'
        BY <1>1, <2>1 DEF Refers
    <2> QED BY <2>1, <2>2, <2>3
<1>6. ASSUME NEW w \in TapWorkers, GetOrCreate(w)
      PROVE  \E r \in Requests :
                /\ req' = [req EXCEPT ![w] = r] /\ Refers(r)' /\ r.step = "read" /\ r.first
    <2>1. PICK token \in 1..minted + 1, c \in Nat :
              /\ \/ c \in Carts /\ c # TheOrder
                 \/ c = Len(cart) + 1 /\ c # TheOrder /\ cart' = Append(cart, EmptyCart(token, "sale"))
              /\ req' = [req EXCEPT ![w] = [step |-> "read", cart |-> c, token |-> NoToken,
                                           first |-> TRUE, asked |-> req[w].asked]]
        BY <1>6, Created
    <2>5. PICK r : r = [step |-> "read", cart |-> c, token |-> NoToken, first |-> TRUE, asked |-> req[w].asked]
        OBVIOUS
    <2>2. req' = [req EXCEPT ![w] = r] /\ r \in Requests
        BY <1>3, <2>1, <2>5
    <2>3. c \in Carts'
        <3>1. c = Len(cart) + 1 /\ cart' = Append(cart, EmptyCart(token, "sale")) => c \in Carts'
            BY Appended DEF DraftTypes, Carts
        <3> QED BY <1>1, <2>1, <3>1
    <2>4. Refers(r)'
        BY <1>1, <2>1, <2>3, <2>5 DEF Refers, NoToken
    <2> QED BY <2>2, <2>4, <2>5
<1>7. ASSUME NEW w \in TapWorkers, ReadCart(w)
      PROVE  \E r \in Requests :
                /\ req' = [req EXCEPT ![w] = r] /\ Refers(r)' /\ r.step \in {"write", "save"}
                /\ UNCHANGED <<cart, session>> /\ r.token = req[w].token /\ r.first = req[w].first
    <2> DEFINE c == req[w].cart
               q == Min({req[w].asked, Room(c)})
               i == FirstRow(cart[c].rows)
    <2>7. PICK r :
              r = IF cart[c].status # "draft" \/ q = 0
                  THEN [step |-> "save", token |-> req[w].token, first |-> req[w].first]
                  ELSE [step |-> "write", cart |-> c, token |-> req[w].token,
                        first |-> req[w].first, quantity |-> q, row |-> i,
                        seen |-> IF i = 0 THEN 0 ELSE cart[c].rows[i]]
        OBVIOUS
    <2>1. /\ req' = [req EXCEPT ![w] = r] /\ UNCHANGED <<cart, session, visit, minted>> /\ req[w].step = "read"
        BY <1>7, <2>7 DEF ReadCart
    <2>2. c \in Carts /\ req[w].token <= minted /\ (req[w].first => req[w].token = NoToken /\ c # TheOrder)
        BY <2>1 DEF DraftRefs, Refers
    <2>3. i \in 0..Len(cart[c].rows)
        BY <2>2, CartElements, FirstLeft
    <2>4. r \in Requests
        BY <1>3, <2>1
    <2>5. UNCHANGED Carts
        BY <2>1 DEF Carts
    <2> HIDE DEF c, i, q
    <2>6. Refers(r)'
        BY <2>1, <2>2, <2>3, <2>5, <2>7 DEF Refers
    <2>8. r.step \in {"write", "save"} /\ r.token = req[w].token /\ r.first = req[w].first
        BY <2>7
    <2> QED BY <2>1, <2>4, <2>6, <2>8
<1>8. ASSUME NEW w \in TapWorkers, WriteCart(w)
      PROVE  \E r \in Requests :
                /\ req' = [req EXCEPT ![w] = r] /\ Refers(r)'
                /\ r = NoTap \/ (r.step = "save" /\ r.token = req[w].token /\ r.first = req[w].first)
    <2>5. PICK r : r = [step |-> "save", token |-> req[w].token, first |-> req[w].first]
        OBVIOUS
    <2>1. req' = [req EXCEPT ![w] = NoTap] \/ req' = [req EXCEPT ![w] = r]
        BY <1>8, <2>5, RowWritten, Zenon
    <2>2. req[w].token <= minted /\ (req[w].first => req[w].token = NoToken) /\ req[w].token \in Nat
        BY <1>8, RowWritten, Zenon DEF DraftRefs, Refers
    <2>3. req' = [req EXCEPT ![w] = r] => r \in Requests
        BY <1>3
    <2>4. Refers(r)'
        BY <1>1, <2>2, <2>5 DEF Refers
    <2> QED BY <1>2, <2>1, <2>3, <2>4, <2>5
<1>9. ASSUME NEW w \in TapWorkers, SaveSession(w) PROVE req' = [req EXCEPT ![w] = NoTap]
    BY <1>9 DEF SaveSession
<1>10. NoTap.step = "idle"
    BY DEF NoTap
<1>11. CASE \E w \in TapWorkers : TapStep(w)
    <2>1. PICK w \in TapWorkers : TapStep(w)
        BY <1>11
    <2>2. CASE \E v \in DOMAIN visit, q \in Quantities : FirstTap(w, v, q)
        <3>1. PICK r \in Requests :
                /\ req' = [req EXCEPT ![w] = r] /\ Refers(r)' /\ r.step = "create" /\ req[w] = NoTap
                /\ r.token = session /\ UNCHANGED <<cart, session, visit, landed>>
            BY <1>4, <2>2
        <3> QED BY <3>1
    <2>3. CASE \E c \in Carts, q \in Quantities : Tap(w, c, q)
        <3>1. PICK r \in Requests :
                /\ req' = [req EXCEPT ![w] = r] /\ Refers(r)' /\ r.step = "read" /\ ~r.first /\ req[w] = NoTap
                /\ r.token = session /\ UNCHANGED <<cart, session>>
            BY <1>5, <2>3
        <3> QED BY <3>1
    <2>4. CASE GetOrCreate(w)
        <3>1. PICK r \in Requests :
                /\ req' = [req EXCEPT ![w] = r] /\ Refers(r)' /\ r.step = "read" /\ r.first
            BY <1>6, <2>4
        <3> QED BY <2>4, <3>1
    <2>5. CASE ReadCart(w)
        <3>1. PICK r \in Requests :
                /\ req' = [req EXCEPT ![w] = r] /\ Refers(r)' /\ r.step \in {"write", "save"}
                /\ UNCHANGED <<cart, session>> /\ r.token = req[w].token /\ r.first = req[w].first
            BY <1>7, <2>5
        <3> QED BY <2>5, <3>1
    <2>6. CASE WriteCart(w)
        <3>1. PICK r \in Requests :
                /\ req' = [req EXCEPT ![w] = r] /\ Refers(r)'
                /\ r = NoTap \/ (r.step = "save" /\ r.token = req[w].token /\ r.first = req[w].first)
            BY <1>8, <2>6
        <3> QED BY <1>10, <2>6, <3>1
    <2>7. CASE SaveSession(w)
        BY <1>2, <1>9, <1>10, <2>7
    <2> QED BY <2>1, <2>2, <2>3, <2>4, <2>5, <2>6, <2>7 DEF TapStep
<1> QED
    BY <1>11, Zenon DEF DNext, OpenPage, Select, Collect, Delete, RemoveRow, SetClient, ConfirmCart, GrowOld, Edit

LEMMA DraftStepRefs == ASSUME DraftTypes, DraftRefs, DNext, DraftTypes' PROVE DraftRefs'
<1>1. /\ minted <= minted' /\ minted \in Nat /\ minted' \in Nat
      /\ DOMAIN visit \subseteq DOMAIN visit' /\ \A v \in DOMAIN visit : visit'[v] = visit[v]
    BY PagesStay
<1>2. /\ Len(cart) <= Len(cart') /\ Len(cart) \in Nat /\ Len(cart') \in Nat /\ Carts \subseteq Carts'
      /\ Carts = 1..Len(cart) /\ Carts' = 1..Len(cart')
      /\ \A c \in Carts : /\ cart'[c].token = cart[c].token /\ cart'[c].kind = cart[c].kind
                          /\ cart[c].old => cart'[c].old
                          /\ cart'[c].status = "deleted" =>
                                \/ cart[c].status = "deleted"
                                \/ removal.step = "delete" /\ c \in removal.found
    BY CartsStay, CartElements
<1>3. session' <= minted'
    <2>1. CASE UNCHANGED session
        BY <1>1, <2>1 DEF DraftRefs, DraftTypes
    <2>2. CASE OpenPage
        BY <1>1, <2>2 DEF OpenPage, DraftRefs, DraftTypes
    <2>3. ASSUME NEW w \in TapWorkers, SaveSession(w) PROVE session' <= minted'
        BY <2>3 DEF SaveSession, DraftRefs, Refers
    <2> QED BY <2>1, <2>2, <2>3, Zenon DEF DNext, TapStep, FirstTap, Tap, Takes, GetOrCreate, ReadCart, WriteCart,
               Select, Collect, Delete, RemoveRow, SetClient, ConfirmCart, GrowOld, Edit
<1>4. ASSUME NEW c \in Carts' \ {TheOrder}
      PROVE  /\ cart'[c].kind = "sale" /\ cart'[c].token \in 1..minted'
             /\ cart'[c].status = "deleted" => cart'[c].old
    <2>1. CASE c \in Carts
        BY <1>1, <1>2, <2>1 DEF DraftRefs
    <2>2. CASE c \notin Carts
        <3>1. PICK w \in TapWorkers, token \in 1..minted + 1 :
                  GetOrCreate(w) /\ cart'[c] = EmptyCart(token, "sale")
                  /\ token = IF req[w].token = NoToken THEN minted + 1 ELSE req[w].token
            BY <2>2, NewCart
        <3>2. PICK other \in 1..minted + 1 :
                  /\ other = IF req[w].token = NoToken THEN minted + 1 ELSE req[w].token
                  /\ minted' = IF other > minted THEN other ELSE minted
            BY <3>1, Created
        <3>3. token \in 1..minted'
            BY <1>1, <3>1, <3>2
        <3> QED BY <3>1, <3>3 DEF EmptyCart
    <2> QED BY <2>1, <2>2
<1>5. /\ TheOrder \in Carts' /\ cart'[TheOrder].status # "deleted"
      /\ cart'[TheOrder].kind = "order" /\ cart'[TheOrder].token = NoToken
    BY <1>2 DEF DraftRefs
<1>6. ASSUME NEW w \in TapWorkers PROVE Refers(req[w])'
    <2>1. req \in [TapWorkers -> Requests] /\ req' \in [TapWorkers -> Requests]
        BY DEF DraftTypes
    <2>2. PICK p : p = req'[w]
        OBVIOUS
    <2>3. Refers(p)'
        <3>1. CASE p = req[w]
            BY <2>1, <3>1, StillRefers DEF DraftRefs
        <3>2. CASE p # req[w]
            <4>1. PICK u \in TapWorkers, r \in Requests : req' = [req EXCEPT ![u] = r] /\ Refers(r)'
                BY <2>2, <3>2, Requested
            <4>2. p = r
                BY <2>1, <2>2, <3>2, <4>1
            <4> QED BY <4>1, <4>2
        <3> QED BY <3>1, <3>2
    <2> QED BY <2>2, <2>3
<1>7. removal'.step \in {"collect", "delete"} =>
          \A c \in removal'.found : c \in Carts' /\ c # TheOrder /\ cart'[c].old
    <2>1. CASE UNCHANGED removal
        BY <1>2, <2>1 DEF DraftRefs
    <2>2. CASE Select
        BY <1>2, <2>2 DEF Select, Abandoned, DraftRefs
    <2>3. CASE Collect
        BY <1>2, <2>3 DEF Collect, NoTap, DraftRefs
    <2>4. CASE Delete
        BY <2>4 DEF Delete, NoTap
    <2> QED BY <2>1, <2>2, <2>3, <2>4, Zenon DEF DNext, TapStep, OpenPage, FirstTap, Tap, Takes, GetOrCreate, ReadCart,
               WriteCart, SaveSession, RemoveRow, SetClient, ConfirmCart, GrowOld, Edit
<1>8. \A v \in DOMAIN visit' : visit'[v].token \in 1..minted' /\ visit'[v].known <= Len(cart')
    <2>1. \A v \in DOMAIN visit : visit'[v].token \in 1..minted' /\ visit'[v].known <= Len(cart')
        <3>1. \A v \in DOMAIN visit : visit[v] \in Pages
            BY Element DEF DraftTypes
        <3>2. \A v \in DOMAIN visit : visit[v].known \in Nat /\ visit[v].token \in 1..minted /\ visit[v].known <= Len(cart)
            BY <3>1 DEF Pages, DraftRefs
        <3> QED BY <1>1, <1>2, <3>2
    <2>2. CASE visit' = visit
        BY <2>1, <2>2
    <2>3. CASE OpenPage
        <3>1. PICK v : visit' = Append(visit, v) /\ v.token = session' /\ v.known = Len(cart)
            BY <2>3 DEF OpenPage
        <3>2. session' \in 1..minted'
            BY <1>1, <2>3 DEF OpenPage, DraftRefs, DraftTypes, NoToken
        <3>3. \A i \in DOMAIN visit' : i \in DOMAIN visit \/ visit'[i] = v
            BY <3>1, Appended DEF DraftTypes
        <3> QED BY <1>2, <2>1, <3>1, <3>2, <3>3
    <2> QED BY <2>2, <2>3, Zenon DEF DNext, TapStep, FirstTap, Tap, Takes, GetOrCreate, ReadCart, WriteCart, SaveSession,
               Select, Collect, Delete, RemoveRow, SetClient, ConfirmCart, GrowOld, Edit
<1>9. \A l \in landed' : l.visit \in DOMAIN visit' /\ l.cart \in Carts'
    <2>1. CASE landed' = landed
        BY <1>1, <1>2, <2>1 DEF DraftRefs
    <2>2. ASSUME NEW w \in TapWorkers, GetOrCreate(w) PROVE \A l \in landed' : l.visit \in DOMAIN visit' /\ l.cart \in Carts'
        <3>1. PICK token \in 1..minted + 1, c \in Nat :
              /\ \/ c \in Carts
                 \/ c = Len(cart) + 1 /\ cart' = Append(cart, EmptyCart(token, "sale"))
              /\ landed' = landed \cup {[visit |-> req[w].visit, cart |-> c,
                                        own |-> req[w].token = visit[req[w].visit].token]}
            BY <2>2, Created
        <3>2. req[w].visit \in DOMAIN visit
            BY <2>2 DEF GetOrCreate, DraftRefs, Refers
        <3>3. c = Len(cart) + 1 /\ cart' = Append(cart, EmptyCart(token, "sale")) => c \in Carts'
            BY Appended DEF DraftTypes, Carts
        <3> QED BY <1>1, <1>2, <3>1, <3>2, <3>3 DEF DraftRefs
    <2> QED BY <2>1, <2>2, Zenon DEF DNext, TapStep, OpenPage, FirstTap, Tap, Takes, ReadCart, WriteCart, SaveSession,
               Select, Collect, Delete, RemoveRow, SetClient, ConfirmCart, GrowOld, Edit
<1> QED BY <1>3, <1>4, <1>5, <1>6, <1>7, <1>8, <1>9 DEF DraftRefs

\* How the rows of a cart move, and what is added to it.
RowAdded(w, c) ==
    /\ WriteCart(w) /\ Writes(w, c) /\ req[w].quantity \in Nat \ {0} /\ req[w].seen \in Nat
    /\ req' = [req EXCEPT ![w] = [step |-> "save", token |-> req[w].token, first |-> req[w].first]]
    /\ cart'[c].added = cart[c].added + req[w].quantity
    /\ \/ req[w].row = 0 /\ req[w].seen = 0 /\ cart'[c].rows = Append(cart[c].rows, req[w].quantity)
       \/ /\ req[w].row \in DOMAIN cart[c].rows /\ cart[c].rows[req[w].row] # 0
          /\ cart'[c].rows = [cart[c].rows EXCEPT ![req[w].row] = req[w].seen + req[w].quantity]

RowGone(c, i) ==
    /\ i = FirstRow(cart[c].rows) /\ cart[c].rows[i] > 0 /\ req' = req
    /\ cart'[c].rows = [cart[c].rows EXCEPT ![i] = 0]
    /\ cart'[c].added = cart[c].added - cart[c].rows[i]

LEMMA RowsMove ==
    ASSUME DraftTypes, DraftRefs, DNext, NEW c \in Carts
    PROVE  \/ cart'[c].rows = cart[c].rows /\ cart'[c].added = cart[c].added
           \/ \E w \in TapWorkers : RowAdded(w, c)
           \/ \E i \in DOMAIN cart[c].rows : RowGone(c, i)
<1>1. /\ \A b \in Carts : cart[b] \in SaleCarts /\ cart[b].rows \in Seq(Nat)
                          /\ DOMAIN cart[b].rows = 1..Len(cart[b].rows)
      /\ Carts = 1..Len(cart) /\ Len(cart) \in Nat
    BY CartElements
<1>2. CASE cart'[c] = cart[c]
    BY <1>2
<1>3. ASSUME NEW w \in TapWorkers, GetOrCreate(w) PROVE cart'[c] = cart[c]
    <2>1. cart' = cart \/ \E k : cart' = Append(cart, k)
        BY <1>3, Created
    <2>2. cart \in Seq(SaleCarts) /\ c \in DOMAIN cart
        BY DEF DraftTypes, Carts
    <2>3. ASSUME NEW k, cart' = Append(cart, k) PROVE cart'[c] = cart[c]
        BY <2>2, <2>3, Appended
    <2> QED BY <2>1, <2>3
<1>4. ASSUME NEW w \in TapWorkers, WriteCart(w), cart'[c] # cart[c]
      PROVE  RowAdded(w, c)
    <2>1. req[w].cart \in Carts /\ req[w].step = "write" /\ req[w].quantity \in Nat \ {0} /\ req[w].seen \in Nat
          /\ req[w].row \in 0..Len(cart[req[w].cart].rows) /\ (req[w].row = 0 => req[w].seen = 0)
        BY <1>4, RowWritten, Zenon DEF DraftRefs, Refers
    <2> DEFINE b == req[w].cart
               lines == cart[b].rows
    <2>2. \/ cart' = cart
          \/ /\ cart[b].status # "deleted" /\ (req[w].row # 0 => lines[req[w].row] # 0)
             /\ \E new \in Seq(Nat), k \in SaleCarts :
                   /\ new = IF req[w].row = 0 THEN Append(lines, req[w].quantity)
                            ELSE [lines EXCEPT ![req[w].row] = req[w].seen + req[w].quantity]
                   /\ k = [cart[b] EXCEPT !.added = @ + req[w].quantity, !.rows = new]
                   /\ cart' = [cart EXCEPT ![b] = k]
             /\ req' = [req EXCEPT ![w] = [step |-> "save", token |-> req[w].token, first |-> req[w].first]]
        BY <1>4, RowWritten, Zenon
    <2>3. PICK new \in Seq(Nat), k \in SaleCarts :
              /\ req[w].row # 0 => lines[req[w].row] # 0
              /\ new = IF req[w].row = 0 THEN Append(lines, req[w].quantity)
                            ELSE [lines EXCEPT ![req[w].row] = req[w].seen + req[w].quantity]
              /\ k = [cart[b] EXCEPT !.added = @ + req[w].quantity, !.rows = new]
              /\ cart' = [cart EXCEPT ![b] = k]
              /\ req' = [req EXCEPT ![w] = [step |-> "save", token |-> req[w].token, first |-> req[w].first]]
        <3> HIDE DEF b, lines
        <3> QED BY <1>4, <2>2, Zenon
    <2>4. cart'[b] = k /\ \A a \in Carts \ {b} : cart'[a] = cart[a]
        BY <2>1, <2>3, EditTypes, Zenon
    <2>5. b = c
        BY <1>4, <2>4
    <2>6. k.rows = new /\ k.added = cart[b].added + req[w].quantity
        BY <1>1, <2>1, <2>3, Zenon DEF SaleCarts
    <2>7. req[w].row # 0 => req[w].row \in DOMAIN lines
        BY <1>1, <2>1
    <2> HIDE DEF b
    <2> QED BY <1>4, <2>1, <2>3, <2>4, <2>5, <2>6, <2>7, Zenon DEF RowAdded, Writes, b
<1>5. ASSUME NEW b \in Carts, RemoveRow(b) \/ SetClient(b) \/ ConfirmCart(b) \/ GrowOld(b), cart'[c] # cart[c]
      PROVE  \/ cart'[c].rows = cart[c].rows /\ cart'[c].added = cart[c].added
             \/ \E i \in DOMAIN cart[c].rows : RowGone(c, i)
    <2>1. PICK k \in SaleCarts :
              /\ Edit(b, k)
              /\ \/ k.rows = cart[b].rows /\ k.added = cart[b].added
                 \/ \E i \in DOMAIN cart[b].rows :
                       /\ i = FirstRow(cart[b].rows) /\ cart[b].rows[i] > 0
                       /\ k.rows = [cart[b].rows EXCEPT ![i] = 0]
                       /\ k.added = cart[b].added - cart[b].rows[i]
        BY <1>5, EditsKeep
    <2>2. cart'[b] = k /\ \A a \in Carts \ {b} : cart'[a] = cart[a]
        BY <2>1, EditTypes DEF Edit
    <2>3. b = c
        BY <1>5, <2>2
    <2>4. req' = req
        BY <2>1 DEF Edit
    <2> QED BY <2>1, <2>2, <2>3, <2>4 DEF RowGone
<1>6. CASE Delete /\ cart'[c] # cart[c]
    <2>1. cart'[c] = [cart[c] EXCEPT !.status = "deleted"]
        BY <1>6 DEF Delete
    <2> QED BY <1>1, <2>1 DEF SaleCarts
<1>7. \/ UNCHANGED cart \/ Delete \/ \E w \in TapWorkers : GetOrCreate(w) \/ WriteCart(w)
      \/ \E b \in Carts : RemoveRow(b) \/ SetClient(b) \/ ConfirmCart(b) \/ GrowOld(b)
    BY DEF DNext, TapStep, OpenPage, FirstTap, Tap, Takes, ReadCart, SaveSession, Select, Collect
<1>8. CASE UNCHANGED cart
    BY <1>8
<1> QED BY <1>2, <1>3, <1>4, <1>5, <1>6, <1>7, <1>8

\* Who writes read before, or reads now, when the cart is as it was.
HasRead(w, c) ==
    /\ ReadCart(w) /\ UNCHANGED cart /\ req[w].cart = c /\ c \in Carts
    /\ req'[w].step = "write" /\ req'[w].cart = c /\ req'[w].quantity \in Nat \ {0} /\ req'[w].seen \in Nat
    /\ c # TheOrder => Quantity(cart[c].rows) + req'[w].quantity <= Stock
    /\ req'[w].row = FirstRow(cart[c].rows)
    /\ req'[w].seen = IF req'[w].row = 0 THEN 0 ELSE cart[c].rows[req'[w].row]
    /\ \A u \in TapWorkers \ {w} : req'[u] = req[u]

LEMMA WritersMove ==
    ASSUME DraftTypes, DraftRefs, DNext, NEW w \in TapWorkers, req'[w].step = "write"
    PROVE  \/ req'[w] = req[w] /\ ~WriteCart(w)
           \/ HasRead(w, req[w].cart)
<1>1. CASE ReadCart(w)
    <2> DEFINE c == req[w].cart
               q == Min({req[w].asked, Room(c)})
               i == FirstRow(cart[c].rows)
               r == IF cart[c].status # "draft" \/ q = 0
                    THEN [step |-> "save", token |-> req[w].token, first |-> req[w].first]
                    ELSE [step |-> "write", cart |-> c, token |-> req[w].token,
                          first |-> req[w].first, quantity |-> q, row |-> i,
                          seen |-> IF i = 0 THEN 0 ELSE cart[c].rows[i]]
    <2>1. /\ req' = [req EXCEPT ![w] = r] /\ UNCHANGED cart /\ req[w].step = "read"
        BY <1>1 DEF ReadCart
    <2>2. /\ c \in Carts /\ q \in Nat /\ (c # TheOrder /\ q # 0 => Quantity(cart[c].rows) + q <= Stock)
        BY <2>1, RoomLeft
    <2>3. req \in [TapWorkers -> Requests]
        BY DEF DraftTypes
    <2>4. req'[w] = r /\ \A u \in TapWorkers \ {w} : req'[u] = req[u]
        BY <2>1, <2>3
    <2>5. /\ q # 0 /\ req'[w].cart = c /\ req'[w].quantity = q /\ req'[w].row = i
          /\ req'[w].seen = IF i = 0 THEN 0 ELSE cart[c].rows[i]
        <3> HIDE DEF c, q, i
        <3> QED BY <2>4
    <2>6. i = 0 \/ cart[c].rows[i] \in Nat
        BY <2>2, CartElements, FirstLeft
    <2>7. req'[w].step = "write" /\ req'[w].cart = c /\ req'[w].quantity \in Nat \ {0} /\ req'[w].seen \in Nat
        BY <2>2, <2>5, <2>6
    <2> HIDE DEF q, i, r
    <2> QED BY <1>1, <2>1, <2>2, <2>4, <2>5, <2>7 DEF HasRead, i
<1>2. ASSUME ~ReadCart(w) PROVE req'[w] = req[w] /\ ~WriteCart(w)
    <2>1. req \in [TapWorkers -> Requests]
        BY DEF DraftTypes
    <2>2. ~WriteCart(w)
        <3>1. WriteCart(w) => req' = [req EXCEPT ![w] = NoTap]
                              \/ req' = [req EXCEPT ![w] = [step |-> "save", token |-> req[w].token, first |-> req[w].first]]
            BY RowWritten, Zenon
        <3> QED BY <2>1, <3>1 DEF NoTap
    <2>3. CASE \E u \in TapWorkers : TapStep(u)
        <3>1. PICK u \in TapWorkers : TapStep(u)
            BY <2>3
        <3>2. PICK r : req' = [req EXCEPT ![u] = r] /\ (u = w => r.step # "write")
            <4>1. ReadCart(u) => u # w /\ \E r : req' = [req EXCEPT ![u] = r]
                BY <1>2, Zenon DEF ReadCart
            <4>2. WriteCart(u) => u # w /\ \E r : req' = [req EXCEPT ![u] = r]
                BY <2>2, RowWritten, Zenon
            <4>3. GetOrCreate(u) => \E r : req' = [req EXCEPT ![u] = r] /\ r.step # "write"
                BY DEF GetOrCreate
            <4>4. SaveSession(u) => \E r : req' = [req EXCEPT ![u] = r] /\ r.step # "write"
                BY DEF SaveSession, NoTap
            <4>5. ASSUME NEW v \in DOMAIN visit, NEW q \in Quantities, FirstTap(u, v, q)
                  PROVE  \E r : req' = [req EXCEPT ![u] = r] /\ r.step # "write"
                <5>1. req' = [req EXCEPT ![u] = [step |-> "create", token |-> session, visit |-> v, asked |-> q]]
                    BY <4>5 DEF FirstTap, Takes
                <5>2. PICK r : r = [step |-> "create", token |-> session, visit |-> v, asked |-> q]
                    OBVIOUS
                <5>3. r.step # "write"
                    BY <5>2
                <5> QED BY <5>1, <5>2, <5>3
            <4>6. ASSUME NEW c \in Carts, NEW q \in Quantities, Tap(u, c, q)
                  PROVE  \E r : req' = [req EXCEPT ![u] = r] /\ r.step # "write"
                <5>1. req' = [req EXCEPT ![u] = [step |-> "read", cart |-> c, token |-> session,
                                                 first |-> FALSE, asked |-> q]]
                    BY <4>6 DEF Tap, Takes
                <5>2. PICK r : r = [step |-> "read", cart |-> c, token |-> session, first |-> FALSE, asked |-> q]
                    OBVIOUS
                <5>3. r.step # "write"
                    BY <5>2
                <5> QED BY <5>1, <5>2, <5>3
            <4> QED BY <3>1, <4>1, <4>2, <4>3, <4>4, <4>5, <4>6 DEF TapStep
        <3>3. u # w
            BY <2>1, <3>2
        <3> QED BY <2>1, <2>2, <3>2, <3>3
    <2> QED BY <2>2, <2>3, Zenon DEF DNext, OpenPage, Select, Collect, Delete, RemoveRow, SetClient, ConfirmCart,
                                     GrowOld, Edit
<1> QED BY <1>1, <1>2

LEMMA NewIsEmpty ==
    ASSUME DraftTypes, DraftRefs, DNext, DraftTypes', NEW c \in Carts' \ Carts
    PROVE  /\ cart'[c].rows = <<>> /\ cart'[c].added = 0 /\ ~cart'[c].sold /\ cart'[c].kind = "sale"
           /\ \A w \in TapWorkers : ~(req'[w].step = "write" /\ req'[w].cart = c)
<1>1. PICK token : cart'[c] = EmptyCart(token, "sale")
    BY NewCart
<1>2. ASSUME NEW w \in TapWorkers, req'[w].step = "write", req'[w].cart = c PROVE FALSE
    <2>1. CASE req'[w] = req[w]
        BY <1>2, <2>1 DEF DraftRefs, Refers
    <2>2. CASE HasRead(w, req[w].cart)
        BY <1>2, <2>2 DEF HasRead
    <2> QED BY <1>2, <2>1, <2>2, WritersMove
<1> QED BY <1>1, <1>2 DEF EmptyCart

\* No line and nothing that is about to be one is over the stock.
WithinStock ==
    \A c \in Carts \ {TheOrder} :
        /\ \A i \in DOMAIN cart[c].rows : cart[c].rows[i] <= Stock
        /\ \A w \in TapWorkers : Writes(w, c) => req[w].seen + req[w].quantity <= Stock

LEMMA WithinStockStep ==
    ASSUME DraftTypes, DraftRefs, DNext, DraftTypes', WithinStock PROVE WithinStock'
<1> SUFFICES ASSUME NEW c \in Carts', c # TheOrder
             PROVE  /\ \A i \in DOMAIN cart'[c].rows : cart'[c].rows[i] <= Stock
                    /\ \A w \in TapWorkers : req'[w].step = "write" /\ req'[w].cart = c =>
                          req'[w].seen + req'[w].quantity <= Stock
    BY DEF WithinStock, Writes
<1>1. CASE c \notin Carts
    BY <1>1, NewIsEmpty
<1>2. CASE c \in Carts
    <2>1. /\ cart[c].rows \in Seq(Nat) /\ DOMAIN cart[c].rows = 1..Len(cart[c].rows)
          /\ Len(cart[c].rows) \in Nat /\ \A i \in DOMAIN cart[c].rows : cart[c].rows[i] \in Nat
        BY <1>2, CartElements
    <2>2. Stock \in Nat
        BY DraftsAssumption
    <2>3. ASSUME NEW i \in DOMAIN cart'[c].rows PROVE cart'[c].rows[i] <= Stock
        <3>1. CASE cart'[c].rows = cart[c].rows
            BY <1>2, <3>1 DEF WithinStock
        <3>2. ASSUME NEW w \in TapWorkers, RowAdded(w, c) PROVE cart'[c].rows[i] <= Stock
            <4>1. req[w].seen + req[w].quantity <= Stock /\ req[w].seen \in Nat /\ req[w].quantity \in Nat
                BY <1>2, <3>2 DEF WithinStock, RowAdded
            <4>2. CASE req[w].row = 0 /\ cart'[c].rows = Append(cart[c].rows, req[w].quantity)
                <5>1. i \in DOMAIN cart[c].rows \/ i = Len(cart[c].rows) + 1
                    BY <2>1, <4>2, Appended
                <5>2. cart'[c].rows[i] = IF i \in DOMAIN cart[c].rows THEN cart[c].rows[i] ELSE req[w].quantity
                    BY <2>1, <4>2, <5>1, Appended
                <5> QED BY <1>2, <2>2, <4>1, <5>2 DEF WithinStock
            <4>3. CASE cart'[c].rows = [cart[c].rows EXCEPT ![req[w].row] = req[w].seen + req[w].quantity]
                BY <1>2, <2>1, <4>1, <4>3 DEF WithinStock
            <4> QED BY <3>2, <4>2, <4>3 DEF RowAdded
        <3>3. ASSUME NEW j \in DOMAIN cart[c].rows, RowGone(c, j) PROVE cart'[c].rows[i] <= Stock
            BY <1>2, <2>1, <2>2, <3>3 DEF RowGone, WithinStock
        <3> QED BY <1>2, <3>1, <3>2, <3>3, RowsMove
    <2>4. ASSUME NEW w \in TapWorkers, req'[w].step = "write", req'[w].cart = c
          PROVE  req'[w].seen + req'[w].quantity <= Stock
        <3>1. CASE req'[w] = req[w]
            BY <1>2, <2>4, <3>1 DEF WithinStock, Writes
        <3>2. CASE HasRead(w, req[w].cart)
            <4>1. /\ req'[w].quantity \in Nat /\ req[w].cart = c /\ req'[w].row = FirstRow(cart[c].rows)
                  /\ Quantity(cart[c].rows) + req'[w].quantity <= Stock
                  /\ req'[w].seen = IF req'[w].row = 0 THEN 0 ELSE cart[c].rows[req'[w].row]
                BY <2>4, <3>2 DEF HasRead
            <4>2. Quantity(cart[c].rows) \in Nat /\ \A i \in DOMAIN cart[c].rows : cart[c].rows[i] <= Quantity(cart[c].rows)
                BY <2>1, QuantityNat
            <4>3. req'[w].row # 0 => req'[w].row \in DOMAIN cart[c].rows
                BY <2>1, <4>1, FirstLeft
            <4>4. req'[w].seen \in Nat /\ req'[w].seen <= Quantity(cart[c].rows)
                BY <2>1, <4>1, <4>2, <4>3
            <4> QED BY <2>2, <4>1, <4>2, <4>4
        <3> QED BY <2>4, <3>1, <3>2, WritersMove
    <2> QED BY <2>3, <2>4
<1> QED BY <1>1, <1>2

\* Lines and first lines to come are no more than the workers.
Starting(c) == {w \in TapWorkers : Writes(w, c) /\ req[w].row = 0}

FewLines == \A c \in Carts : Cardinality(Lines(c)) + Cardinality(Starting(c)) <= Cardinality(TapWorkers)

LEMMA FewLinesStep ==
    ASSUME DraftTypes, DraftRefs, DNext, DraftTypes', FewLines PROVE FewLines'
<1> SUFFICES ASSUME NEW c \in Carts'
             PROVE  Cardinality(Lines(c)') + Cardinality(Starting(c)') <= Cardinality(TapWorkers)
    BY DEF FewLines
<1>0. IsFiniteSet(TapWorkers) /\ Cardinality(TapWorkers) \in Nat /\ IsFiniteSet(Starting(c)) /\ IsFiniteSet(Starting(c)')
      /\ Cardinality(Starting(c)) \in Nat /\ Cardinality(Starting(c)') \in Nat
      /\ Cardinality(Starting(c)') <= Cardinality(TapWorkers)
    <2>1. IsFiniteSet(TapWorkers) /\ Starting(c) \subseteq TapWorkers /\ Starting(c)' \subseteq TapWorkers
        BY DraftsAssumption DEF Starting
    <2> QED BY <2>1, FS_Subset, FS_CardinalityType
<1>1. CASE c \notin Carts
    <2>1. Lines(c)' = {}
        BY <1>1, NewIsEmpty DEF Lines
    <2>2. Cardinality(Lines(c)') = 0
        BY <2>1, FS_EmptySet
    <2> QED BY <1>0, <2>2
<1>2. CASE c \in Carts
    <2> DEFINE old == cart[c].rows
    <2>1. /\ old \in Seq(Nat) /\ DOMAIN old = 1..Len(old) /\ IsFiniteSet(DOMAIN old)
          /\ Len(old) \in Nat /\ \A i \in DOMAIN old : old[i] \in Nat
        BY <1>2, CartElements
    <2>2. /\ Lines(c) \subseteq DOMAIN old /\ IsFiniteSet(Lines(c)) /\ Cardinality(Lines(c)) \in Nat
          /\ Cardinality(Lines(c)) + Cardinality(Starting(c)) <= Cardinality(TapWorkers)
        <3>1. Lines(c) \subseteq DOMAIN old
            BY DEF Lines
        <3> QED BY <1>2, <2>1, <3>1, FS_Subset, FS_CardinalityType DEF FewLines
    <2>3. ASSUME Lines(c)' \subseteq Lines(c), Starting(c)' \subseteq Starting(c)
          PROVE  Cardinality(Lines(c)') + Cardinality(Starting(c)') <= Cardinality(TapWorkers)
        <3>1. /\ Cardinality(Lines(c)') <= Cardinality(Lines(c)) /\ Cardinality(Lines(c)') \in Nat
              /\ Cardinality(Starting(c)') <= Cardinality(Starting(c))
            BY <1>0, <2>2, <2>3, FS_Subset, FS_CardinalityType
        <3> QED BY <1>0, <2>2, <3>1
    <2>4. ASSUME NEW w \in TapWorkers, HasRead(w, c)
          PROVE  Cardinality(Lines(c)') + Cardinality(Starting(c)') <= Cardinality(TapWorkers)
        <3>1. Lines(c)' = Lines(c) /\ req'[w].row = FirstRow(old)
            BY <2>4 DEF HasRead, Lines
        <3>2. CASE req'[w].row = 0
            <4>1. Lines(c) = {}
                <5>1. \A i \in DOMAIN old : old[i] = 0
                    <6> HIDE DEF old
                    <6> QED BY <2>1, <3>1, <3>2, FirstLeft
                <5> QED BY <5>1 DEF Lines
            <4>2. Cardinality(Lines(c)') = 0
                BY <3>1, <4>1, FS_EmptySet
            <4> QED BY <1>0, <4>2
        <3>3. CASE req'[w].row # 0
            <4>1. Starting(c)' \subseteq Starting(c)
                BY <2>4, <3>3 DEF Starting, HasRead, Writes
            <4> QED BY <2>3, <3>1, <4>1
        <3> QED BY <3>2, <3>3
    <2>5. ASSUME ~\E w \in TapWorkers : HasRead(w, c)
          PROVE  Starting(c)' \subseteq Starting(c)
        <3>1. ASSUME NEW w \in TapWorkers, req'[w].step = "write", req'[w].cart = c PROVE req'[w] = req[w]
            <4>1. HasRead(w, req[w].cart) => req[w].cart = c
                BY <3>1 DEF HasRead
            <4> QED BY <2>5, <3>1, <4>1, WritersMove
        <3> QED BY <3>1 DEF Starting, Writes
    <2>6. CASE cart'[c].rows = old
        <3>1. Lines(c)' = Lines(c)
            BY <2>6 DEF Lines
        <3> QED BY <2>3, <2>4, <2>5, <3>1
    <2>7. ASSUME NEW i \in DOMAIN old, RowGone(c, i)
          PROVE  Cardinality(Lines(c)') + Cardinality(Starting(c)') <= Cardinality(TapWorkers)
        <3>1. Lines(c)' \subseteq Lines(c) /\ Starting(c)' = Starting(c)
            BY <2>1, <2>7 DEF RowGone, Lines, Starting, Writes
        <3> QED BY <2>3, <3>1
    <2>8. ASSUME NEW w \in TapWorkers, RowAdded(w, c)
          PROVE  Cardinality(Lines(c)') + Cardinality(Starting(c)') <= Cardinality(TapWorkers)
        <3>1. /\ Starting(c)' = Starting(c) \ {w}
              /\ req[w].quantity \in Nat \ {0} /\ req[w].seen \in Nat /\ Writes(w, c)
            <4>1. req \in [TapWorkers -> Requests]
                BY DEF DraftTypes
            <4>2. req'[w].step # "write" /\ \A u \in TapWorkers \ {w} : req'[u] = req[u]
                BY <2>8, <4>1 DEF RowAdded
            <4> QED BY <2>8, <4>2 DEF Starting, Writes, RowAdded
        <3>2. CASE req[w].row = 0 /\ cart'[c].rows = Append(old, req[w].quantity)
            <4>1. Lines(c)' = Lines(c) \cup {Len(old) + 1} /\ Len(old) + 1 \notin Lines(c)
                <5>1. \A i : i \in DOMAIN cart'[c].rows <=> i \in DOMAIN old \/ i = Len(old) + 1
                    BY <2>1, <3>2, Appended
                <5>2. \A i \in DOMAIN old : cart'[c].rows[i] = old[i]
                    BY <2>1, <3>2, Appended
                <5>3. cart'[c].rows[Len(old) + 1] > 0 /\ Len(old) + 1 \notin DOMAIN old
                    BY <2>1, <3>1, <3>2, Appended
                <5> QED BY <5>1, <5>2, <5>3 DEF Lines
            <4>2. Cardinality(Lines(c)') = Cardinality(Lines(c)) + 1
                BY <2>2, <4>1, FS_AddElement
            <4>3. Cardinality(Starting(c)') = Cardinality(Starting(c)) - 1
                <5>1. w \in Starting(c)
                    BY <3>1, <3>2 DEF Starting
                <5> QED BY <1>0, <3>1, <5>1, FS_RemoveElement
            <4> QED BY <1>0, <2>2, <4>2, <4>3
        <3>3. CASE /\ req[w].row \in DOMAIN old /\ old[req[w].row] # 0
                   /\ cart'[c].rows = [old EXCEPT ![req[w].row] = req[w].seen + req[w].quantity]
            <4>1. Lines(c)' \subseteq Lines(c)
                BY <2>1, <3>1, <3>3 DEF Lines
            <4> QED BY <2>3, <3>1, <4>1
        <3> QED BY <2>8, <3>2, <3>3 DEF RowAdded
    <2> QED BY <1>2, <2>6, <2>7, <2>8, RowsMove
<1> QED BY <1>1, <1>2

\* Sums of rows.
LEMMA SumRowMore ==
    ASSUME NEW n \in Nat, NEW f \in [1..n -> Int], NEW g \in [1..(n + 1) -> Int],
           \A i \in 1..n : g[i] = f[i]
    PROVE  SumOf(g, 1..(n + 1)) = SumOf(f, 1..n) + g[n + 1] /\ SumOf(f, 1..n) \in Int
<1>1. IsFiniteSet(1..n) /\ 1..(n + 1) = (1..n) \cup {n + 1} /\ n + 1 \notin 1..n
    <2>1. IsFiniteSet(1..n)
        BY FS_Interval
    <2>2. 1..(n + 1) = (1..n) \cup {n + 1} /\ n + 1 \notin 1..n
        OBVIOUS
    <2> QED BY <2>1, <2>2
<1>2. SumOf(g, (1..n) \cup {n + 1}) = g[n + 1] + SumOf(g, 1..n)
    BY <1>1, SumAdd
<1>3. SumOf(g, 1..n) = SumOf(f, 1..n)
    BY <1>1, SumSame
<1>4. SumOf(f, 1..n) \in Int
    BY <1>1, SumInt
<1>5. SumOf(g, 1..(n + 1)) = SumOf(g, (1..n) \cup {n + 1})
    <2> DEFINE S == (1..n) \cup {n + 1}
    <2>1. 1..(n + 1) = S
        BY <1>1
    <2> HIDE DEF S
    <2>2. SumOf(g, 1..(n + 1)) = SumOf(g, S)
        BY <2>1
    <2> QED BY <2>2 DEF S
<1> QED BY <1>2, <1>3, <1>4, <1>5

LEMMA SumRowSet ==
    ASSUME NEW n \in Nat, NEW f \in [1..n -> Int], NEW i \in 1..n, NEW x \in Int
    PROVE  SumOf([f EXCEPT ![i] = x], 1..n) = SumOf(f, 1..n) - f[i] + x /\ SumOf(f, 1..n) \in Int
<1> DEFINE g == [f EXCEPT ![i] = x]
<1>1. g \in [1..n -> Int] /\ g[i] = x /\ \A j \in (1..n) \ {i} : g[j] = f[j]
    OBVIOUS
<1>2. IsFiniteSet(1..n)
    BY FS_Interval
<1> HIDE DEF g
<1>3. SumOf(g, 1..n) = SumOf(f, 1..n) - f[i] + g[i]
    BY <1>1, <1>2, SumChange
<1>4. SumOf(f, 1..n) \in Int
    BY <1>2, SumInt
<1> QED BY <1>1, <1>3, <1>4 DEF g

LEMMA SumRowAppend ==
    ASSUME NEW s \in Seq(Nat), NEW q \in Nat
    PROVE  Quantity(Append(s, q)) = Quantity(s) + q
<1> DEFINE n == Len(s)
           g == Append(s, q)
<1>1. n \in Nat /\ s \in [1..n -> Int] /\ g \in [1..(n + 1) -> Int] /\ g[n + 1] = q
      /\ DOMAIN s = 1..n /\ DOMAIN g = 1..(n + 1) /\ \A i \in 1..n : g[i] = s[i]
    <2>1. g \in Seq(Nat) /\ Len(g) = n + 1 /\ g[n + 1] = q /\ \A i \in 1..n : g[i] = s[i]
        OBVIOUS
    <2>2. \A u \in Seq(Nat) : u \in [1..Len(u) -> Int] /\ DOMAIN u = 1..Len(u) /\ Len(u) \in Nat
        OBVIOUS
    <2> HIDE DEF g
    <2> QED BY <2>1, <2>2
<1> HIDE DEF n, g
<1>2. SumOf(g, 1..(n + 1)) = SumOf(s, 1..n) + g[n + 1]
    BY <1>1, SumRowMore
<1> QED BY <1>1, <1>2, QuantitySum DEF g

LEMMA SumRowExcept ==
    ASSUME NEW s \in Seq(Nat), NEW i \in DOMAIN s, NEW x \in Nat
    PROVE  Quantity([s EXCEPT ![i] = x]) = Quantity(s) - s[i] + x
<1> DEFINE n == Len(s)
           g == [s EXCEPT ![i] = x]
<1>1. n \in Nat /\ i \in 1..n /\ DOMAIN s = 1..n /\ DOMAIN g = 1..n /\ g[i] = x
      /\ \A j \in 1..n : s[j] \in Int /\ g[j] \in Int /\ (j # i => s[j] = g[j])
    OBVIOUS
<1> HIDE DEF n, g
<1>2. IsFiniteSet(1..n)
    BY <1>1, FS_Interval
<1>3. SumOf(g, 1..n) = SumOf(s, 1..n) - s[i] + g[i]
    BY <1>1, <1>2, SumChange
<1> QED BY <1>1, <1>3, QuantitySum DEF g

\* A row never had more than a mark that what was added pays for, and who writes
\* it has seen no more either.
Marks(h, c) ==
    /\ \A i \in DOMAIN cart[c].rows : cart[c].rows[i] <= h[i]
    /\ \A w \in TapWorkers :
          Writes(w, c) /\ req[w].row \in DOMAIN cart[c].rows /\ cart[c].rows[req[w].row] # 0 =>
             req[w].seen <= h[req[w].row]
    /\ SumOf(h, DOMAIN cart[c].rows) <= cart[c].added

NeverMore == \A c \in Carts : \E h \in [DOMAIN cart[c].rows -> Nat] : Marks(h, c)

LEMMA NeverMoreStep ==
    ASSUME DraftTypes, DraftRefs, DNext, DraftTypes', NeverMore PROVE NeverMore'
<1> SUFFICES ASSUME NEW c \in Carts'
             PROVE  \E h \in [DOMAIN cart'[c].rows -> Nat] : Marks(h, c)'
    BY DEF NeverMore
<1>1. CASE c \notin Carts
    <2>1. /\ cart'[c].rows = <<>> /\ cart'[c].added = 0
          /\ \A w \in TapWorkers : ~(req'[w].step = "write" /\ req'[w].cart = c)
        BY <1>1, NewIsEmpty
    <2> DEFINE h == [i \in {} |-> 0]
    <2>2. h \in [DOMAIN cart'[c].rows -> Nat] /\ DOMAIN cart'[c].rows = {}
        BY <2>1
    <2>3. SumOf(h, {}) = 0
        BY SumEmpty
    <2> HIDE DEF h
    <2>4. PICK k : k = h
        OBVIOUS
    <2>5. Marks(k, c)'
        BY <2>1, <2>2, <2>3, <2>4 DEF Marks, Writes
    <2> QED BY <2>2, <2>4, <2>5
<1>2. CASE c \in Carts
    <2>0. PICK s : s = cart[c].rows
        OBVIOUS
    <2>1. /\ s \in Seq(Nat) /\ DOMAIN s = 1..Len(s) /\ IsFiniteSet(DOMAIN s)
          /\ Len(s) \in Nat /\ (\A i \in DOMAIN s : s[i] \in Nat) /\ cart[c].added \in Int
        BY <1>2, <2>0, CartElements DEF SaleCarts
    <2>2. PICK h \in [DOMAIN s -> Nat] : Marks(h, c)
        BY <1>2, <2>0 DEF NeverMore
    <2>3. /\ h \in [1..Len(s) -> Int] /\ SumOf(h, DOMAIN s) \in Int /\ (\A i \in DOMAIN s : h[i] \in Nat)
          /\ \A i \in DOMAIN s : s[i] <= h[i]
        <3>1. h \in [1..Len(s) -> Int] /\ \A i \in DOMAIN s : h[i] \in Int
            BY <2>1
        <3> QED BY <2>0, <2>1, <2>2, <3>1, SumInt DEF Marks
    <2>4. ASSUME NEW w \in TapWorkers, req'[w].step = "write", req'[w].cart = c,
                 req'[w].row \in DOMAIN s, s[req'[w].row] # 0
          PROVE  req'[w].seen <= h[req'[w].row] /\ req'[w].seen \in Nat
        <3>1. CASE req'[w] = req[w]
            <4>1. req[w].seen \in Nat
                BY <2>4, <3>1 DEF DraftTypes, Requests, NoTap
            <4>2. req[w].seen <= h[req[w].row]
                BY <2>0, <2>2, <2>4, <3>1 DEF Marks, Writes
            <4> QED BY <3>1, <4>1, <4>2
        <3>2. CASE HasRead(w, req[w].cart)
            BY <2>0, <2>1, <2>3, <2>4, <3>2 DEF HasRead
        <3> QED BY <2>4, <3>1, <3>2, WritersMove
    <2>5. CASE cart'[c].rows = s /\ cart'[c].added = cart[c].added
        <3>1. Marks(h, c)'
            BY <2>0, <2>2, <2>4, <2>5 DEF Marks, Writes
        <3> QED BY <2>5, <3>1
    <2>6. ASSUME NEW w \in TapWorkers, RowAdded(w, c)
          PROVE  \E k \in [DOMAIN cart'[c].rows -> Nat] : Marks(k, c)'
        <3>0. PICK q, seen, i : q = req[w].quantity /\ seen = req[w].seen /\ i = req[w].row
            OBVIOUS
        <3>1. q \in Nat \ {0} /\ seen \in Nat /\ cart'[c].added = cart[c].added + q
            BY <2>6, <3>0 DEF RowAdded
        <3>2. CASE i = 0 /\ cart'[c].rows = Append(s, q)
            <4> DEFINE n == Len(s)
            <4>1. PICK k : k = [j \in 1..(n + 1) |-> IF j = n + 1 THEN q ELSE h[j]]
                OBVIOUS
            <4>2. k \in [1..(n + 1) -> Nat] /\ k[n + 1] = q /\ (\A j \in 1..n : k[j] = h[j]) /\ n \in Nat
                BY <2>1, <2>3, <3>1, <4>1
            <4>3. DOMAIN cart'[c].rows = 1..(n + 1) /\ (\A j \in 1..n : cart'[c].rows[j] = s[j])
                  /\ cart'[c].rows[n + 1] = q
                BY <2>1, <3>2, Appended
            <4>4. SumOf(k, 1..(n + 1)) = SumOf(h, 1..n) + q
                <5>1. k \in [1..(n + 1) -> Int]
                    BY <4>2
                <5> HIDE DEF n
                <5> QED BY <2>3, <4>2, <5>1, SumRowMore DEF n
            <4>5. SumOf(k, 1..(n + 1)) <= cart'[c].added
                BY <2>0, <2>1, <2>2, <2>3, <3>1, <4>4 DEF Marks
            <4>6. ASSUME NEW u \in TapWorkers, req'[u].step = "write", req'[u].cart = c,
                         req'[u].row \in 1..(n + 1), cart'[c].rows[req'[u].row] # 0
                  PROVE  req'[u].seen <= k[req'[u].row]
                <5>1. req'[u].row \in 0..n
                    <6>1. Refers(req[u])
                        BY DEF DraftRefs
                    <6>2. req'[u] = req[u] \/ ReadCart(u)
                        BY <4>6, WritersMove DEF HasRead
                    <6>3. ReadCart(u) => cart' = cart
                        BY DEF ReadCart
                    <6>4. cart' # cart
                        BY <2>0, <2>1, <4>3
                    <6> QED BY <2>0, <4>6, <6>1, <6>2, <6>3, <6>4 DEF Refers
                <5>2. req'[u].row \in DOMAIN s /\ s[req'[u].row] # 0
                    BY <2>1, <4>3, <4>6, <5>1
                <5> QED BY <2>1, <2>4, <4>2, <4>6, <5>2
            <4>7. ASSUME NEW j \in 1..(n + 1) PROVE cart'[c].rows[j] <= k[j]
                <5>1. CASE j = n + 1
                    BY <3>1, <4>2, <4>3, <5>1
                <5>2. CASE j \in 1..n
                    BY <2>1, <2>3, <4>2, <4>3, <5>2
                <5> QED BY <4>2, <5>1, <5>2
            <4>8. Marks(k, c)'
                BY <4>3, <4>5, <4>6, <4>7 DEF Marks, Writes
            <4> QED BY <4>2, <4>3, <4>8
        <3>3. CASE i \in DOMAIN s /\ s[i] # 0 /\ cart'[c].rows = [s EXCEPT ![i] = seen + q]
            <4>1. seen <= h[i]
                BY <2>0, <2>2, <2>6, <3>0, <3>3 DEF Marks, RowAdded
            <4>2. PICK k : k = [h EXCEPT ![i] = h[i] + q]
                OBVIOUS
            <4>3. /\ k \in [DOMAIN s -> Nat] /\ k[i] = h[i] + q /\ \A j \in DOMAIN s \ {i} : k[j] = h[j]
                BY <2>3, <3>1, <3>3, <4>2
            <4>4. SumOf(k, DOMAIN s) = SumOf(h, DOMAIN s) + q
                <5>1. h[i] \in Int /\ h[i] + q \in Int /\ i \in 1..Len(s) /\ h \in [1..Len(s) -> Int]
                    BY <2>1, <2>3, <3>1, <3>3
                <5>2. SumOf(k, 1..Len(s)) = SumOf(h, 1..Len(s)) - h[i] + (h[i] + q)
                    BY <2>1, <4>2, <5>1, SumRowSet
                <5> QED BY <2>1, <2>3, <3>1, <5>1, <5>2
            <4>5. /\ DOMAIN cart'[c].rows = DOMAIN s /\ cart'[c].rows[i] = seen + q
                  /\ \A j \in DOMAIN s \ {i} : cart'[c].rows[j] = s[j]
                BY <3>3
            <4>6. ASSUME NEW j \in DOMAIN s PROVE cart'[c].rows[j] <= k[j]
                <5>1. CASE j = i
                    <6>1. h[i] \in Nat /\ q \in Nat /\ seen \in Nat
                        BY <2>3, <3>1, <3>3
                    <6> QED BY <4>1, <4>3, <4>5, <5>1, <6>1
                <5>2. CASE j # i
                    BY <2>3, <4>3, <4>5, <5>2
                <5> QED BY <5>1, <5>2
            <4>7. SumOf(k, DOMAIN s) <= cart'[c].added
                BY <2>0, <2>1, <2>2, <2>3, <3>1, <4>4 DEF Marks
            <4>8. ASSUME NEW u \in TapWorkers, req'[u].step = "write", req'[u].cart = c,
                         req'[u].row \in DOMAIN s, cart'[c].rows[req'[u].row] # 0
                  PROVE  req'[u].seen <= k[req'[u].row]
                <5>1. s[req'[u].row] # 0
                    BY <3>3, <4>5, <4>8
                <5>2. req'[u].seen <= h[req'[u].row] /\ req'[u].seen \in Nat
                    BY <2>4, <4>8, <5>1
                <5>3. h[req'[u].row] <= k[req'[u].row] /\ h[req'[u].row] \in Nat /\ k[req'[u].row] \in Nat
                    BY <2>3, <3>1, <3>3, <4>3, <4>8
                <5> QED BY <5>2, <5>3
            <4>9. Marks(k, c)'
                BY <4>5, <4>6, <4>7, <4>8 DEF Marks, Writes
            <4> QED BY <4>3, <4>5, <4>9
        <3> QED BY <2>0, <2>6, <3>0, <3>2, <3>3 DEF RowAdded
    <2>7. ASSUME NEW i \in DOMAIN s, RowGone(c, i)
          PROVE  \E k \in [DOMAIN cart'[c].rows -> Nat] : Marks(k, c)'
        <3>1. PICK k : k = [h EXCEPT ![i] = 0]
            OBVIOUS
        <3>2. /\ k \in [DOMAIN s -> Nat] /\ k[i] = 0 /\ \A j \in DOMAIN s \ {i} : k[j] = h[j]
            BY <2>3, <3>1
        <3>3. /\ DOMAIN cart'[c].rows = DOMAIN s /\ cart'[c].rows[i] = 0
              /\ \A j \in DOMAIN s \ {i} : cart'[c].rows[j] = s[j]
              /\ cart'[c].added = cart[c].added - s[i] /\ req' = req
            BY <2>0, <2>7 DEF RowGone
        <3>4. SumOf(k, DOMAIN s) = SumOf(h, DOMAIN s) - h[i]
            <4>1. i \in 1..Len(s) /\ h[i] \in Int /\ 0 \in Int /\ h \in [1..Len(s) -> Int]
                BY <2>1, <2>3
            <4>2. SumOf(k, 1..Len(s)) = SumOf(h, 1..Len(s)) - h[i] + 0
                BY <2>1, <3>1, <4>1, SumRowSet
            <4> QED BY <2>1, <2>3, <4>1, <4>2
        <3>5. SumOf(k, DOMAIN s) <= cart'[c].added
            <4>1. SumOf(h, DOMAIN s) <= cart[c].added /\ s[i] <= h[i] /\ s[i] \in Nat /\ h[i] \in Nat
                BY <2>0, <2>1, <2>2, <2>3 DEF Marks
            <4> QED BY <2>1, <2>3, <3>3, <3>4, <4>1
        <3>6. ASSUME NEW j \in DOMAIN s PROVE cart'[c].rows[j] <= k[j]
            <4>1. CASE j = i
                BY <3>2, <3>3, <4>1
            <4>2. CASE j # i
                BY <2>3, <3>2, <3>3, <4>2
            <4> QED BY <4>1, <4>2
        <3>7. ASSUME NEW u \in TapWorkers, req'[u].step = "write", req'[u].cart = c,
                     req'[u].row \in DOMAIN s, cart'[c].rows[req'[u].row] # 0
              PROVE  req'[u].seen <= k[req'[u].row]
            <4>1. s[req'[u].row] # 0 /\ req'[u].row # i
                BY <3>3, <3>7
            <4> QED BY <2>4, <3>2, <3>7, <4>1
        <3>8. Marks(k, c)'
            BY <3>3, <3>5, <3>6, <3>7 DEF Marks, Writes
        <3> QED BY <3>2, <3>3, <3>8
    <2> QED BY <1>2, <2>0, <2>5, <2>6, <2>7, RowsMove
<1> QED BY <1>1, <1>2

\* A cart that two requests were never adding to at once holds what was added, and
\* the one request that adds has seen the row as it is.
Exact ==
    \A c \in Carts \ overlap :
        /\ Quantity(cart[c].rows) = cart[c].added
        /\ \A u, w \in TapWorkers : Writes(u, c) /\ Writes(w, c) => u = w
        /\ \A w \in TapWorkers :
              Writes(w, c) /\ req[w].row \in DOMAIN cart[c].rows /\ cart[c].rows[req[w].row] # 0 =>
                 req[w].seen = cart[c].rows[req[w].row]

LEMMA OverlapStays ==
    ASSUME DNext
    PROVE  /\ overlap \subseteq overlap'
           /\ \A w \in TapWorkers : HasRead(w, req[w].cart) =>
                 \A u \in TapWorkers : Writes(u, req[w].cart) => req[w].cart \in overlap'
<1>1. ASSUME NEW w \in TapWorkers, ReadCart(w)
      PROVE  /\ overlap \subseteq overlap'
             /\ \A u \in TapWorkers : Writes(u, req[w].cart) => req[w].cart \in overlap'
    BY <1>1 DEF ReadCart, Writes
<1>2. overlap \subseteq overlap' \/ \E w \in TapWorkers : ReadCart(w)
    BY Zenon DEF DNext, TapStep, OpenPage, FirstTap, Tap, Takes, GetOrCreate, WriteCart, SaveSession, Select, Collect,
           Delete, RemoveRow, SetClient, ConfirmCart, GrowOld, Edit
<1> QED BY <1>1, <1>2 DEF HasRead

LEMMA ExactStep ==
    ASSUME DraftTypes, DraftRefs, DNext, DraftTypes', Exact PROVE Exact'
<1> SUFFICES ASSUME NEW c \in Carts', c \notin overlap'
             PROVE  /\ Quantity(cart'[c].rows) = cart'[c].added
                    /\ \A u, w \in TapWorkers :
                          (req'[u].step = "write" /\ req'[u].cart = c /\ req'[w].step = "write" /\ req'[w].cart = c)
                             => u = w
                    /\ \A w \in TapWorkers :
                          (req'[w].step = "write" /\ req'[w].cart = c /\ req'[w].row \in DOMAIN cart'[c].rows
                           /\ cart'[c].rows[req'[w].row] # 0) => req'[w].seen = cart'[c].rows[req'[w].row]
    BY DEF Exact, Writes
<1>1. CASE c \notin Carts
    <2>1. /\ cart'[c].rows = <<>> /\ cart'[c].added = 0
          /\ \A w \in TapWorkers : ~(req'[w].step = "write" /\ req'[w].cart = c)
        BY <1>1, NewIsEmpty
    <2>2. Quantity(<<>>) = 0
        <3>1. DOMAIN <<>> = {} /\ SumOf(<<>>, {}) = 0
            BY SumEmpty
        <3> QED BY <3>1, QuantitySum
    <2> QED BY <2>1, <2>2
<1>2. CASE c \in Carts
    <2>0. PICK s : s = cart[c].rows
        OBVIOUS
    <2>1. /\ s \in Seq(Nat) /\ DOMAIN s = 1..Len(s) /\ IsFiniteSet(DOMAIN s)
          /\ Len(s) \in Nat /\ (\A i \in DOMAIN s : s[i] \in Nat) /\ cart[c].added \in Int
        BY <1>2, <2>0, CartElements DEF SaleCarts
    <2>2. /\ c \notin overlap /\ Quantity(s) = cart[c].added /\ Quantity(s) \in Nat
          /\ \A u, w \in TapWorkers : Writes(u, c) /\ Writes(w, c) => u = w
          /\ \A w \in TapWorkers : Writes(w, c) /\ req[w].row \in DOMAIN s /\ s[req[w].row] # 0 =>
                req[w].seen = s[req[w].row]
        <3>1. c \notin overlap
            BY OverlapStays
        <3> QED BY <1>2, <2>0, <2>1, <3>1, QuantityNat DEF Exact
    <2>3. ASSUME NEW w \in TapWorkers, req'[w].step = "write", req'[w].cart = c
          PROVE  \/ req'[w] = req[w] /\ Writes(w, c)
                 \/ HasRead(w, c) /\ req[w].cart = c /\ \A u \in TapWorkers : ~Writes(u, c)
        <3>1. CASE req'[w] = req[w]
            BY <2>3, <3>1 DEF Writes
        <3>2. CASE HasRead(w, req[w].cart)
            <4>1. req[w].cart = c
                BY <2>3, <3>2 DEF HasRead
            <4>2. HasRead(w, c)
                BY <3>2, <4>1 DEF HasRead
            <4> QED BY <3>2, <4>1, <4>2, OverlapStays
        <3> QED BY <2>3, <3>1, <3>2, WritersMove
    <2>4. ASSUME NEW u \in TapWorkers, NEW w \in TapWorkers,
                 req'[u].step = "write", req'[u].cart = c, req'[w].step = "write", req'[w].cart = c
          PROVE  u = w
        <3>1. HasRead(w, c) => \A v \in TapWorkers \ {w} : req'[v] = req[v]
            BY DEF HasRead
        <3>2. HasRead(u, c) => \A v \in TapWorkers \ {u} : req'[v] = req[v]
            BY DEF HasRead
        <3> QED BY <2>2, <2>3, <2>4, <3>1, <3>2 DEF Writes
    <2>5. ASSUME NEW w \in TapWorkers, req'[w].step = "write", req'[w].cart = c,
                 req'[w].row \in DOMAIN s, s[req'[w].row] # 0
          PROVE  req'[w].seen = s[req'[w].row]
        <3>1. CASE req'[w] = req[w] /\ Writes(w, c)
            BY <2>2, <2>5, <3>1
        <3>2. CASE HasRead(w, c)
            BY <2>0, <2>1, <2>5, <3>2 DEF HasRead
        <3> QED BY <2>3, <2>5, <3>1, <3>2
    <2>6. CASE cart'[c].rows = s /\ cart'[c].added = cart[c].added
        BY <2>2, <2>4, <2>5, <2>6
    <2>7. ASSUME NEW i \in DOMAIN s, RowGone(c, i), NEW x, x = cart'[c].rows
          PROVE  /\ Quantity(x) = cart'[c].added
                 /\ \A w \in TapWorkers :
                          (req'[w].step = "write" /\ req'[w].cart = c /\ req'[w].row \in DOMAIN x
                           /\ x[req'[w].row] # 0) => req'[w].seen = x[req'[w].row]
        <3>1. x = [s EXCEPT ![i] = 0] /\ cart'[c].added = cart[c].added - s[i]
            BY <2>0, <2>7 DEF RowGone
        <3>2. Quantity(x) = Quantity(s) - s[i] + 0 /\ s[i] \in Nat
            BY <2>1, <3>1, SumRowExcept
        <3>3. \A j \in DOMAIN x : x[j] # 0 => j \in DOMAIN s /\ x[j] = s[j]
            BY <3>1
        <3> QED BY <2>1, <2>2, <2>5, <3>1, <3>2, <3>3
    <2>8. ASSUME NEW w \in TapWorkers, RowAdded(w, c), NEW x, x = cart'[c].rows
          PROVE  /\ Quantity(x) = cart'[c].added
                 /\ \A u \in TapWorkers : ~(req'[u].step = "write" /\ req'[u].cart = c)
        <3>1. \A u \in TapWorkers : ~(req'[u].step = "write" /\ req'[u].cart = c)
            <4>1. req \in [TapWorkers -> Requests] /\ Writes(w, c)
                BY <2>8 DEF DraftTypes, RowAdded
            <4>2. req'[w].step # "write" /\ \A u \in TapWorkers \ {w} : req'[u] = req[u]
                BY <2>8, <4>1 DEF RowAdded
            <4> QED BY <2>2, <4>1, <4>2 DEF Writes
        <3>2. PICK q, seen, i : q = req[w].quantity /\ seen = req[w].seen /\ i = req[w].row
            OBVIOUS
        <3>3. q \in Nat \ {0} /\ seen \in Nat /\ cart'[c].added = cart[c].added + q
            BY <2>8, <3>2 DEF RowAdded
        <3>4. CASE i = 0 /\ x = Append(s, q)
            <4>1. Quantity(x) = Quantity(s) + q
                BY <2>1, <3>3, <3>4, SumRowAppend
            <4> QED BY <2>2, <3>1, <3>3, <4>1
        <3>5. CASE i \in DOMAIN s /\ s[i] # 0 /\ x = [s EXCEPT ![i] = seen + q]
            <4>1. seen = s[i]
                BY <2>2, <2>8, <3>2, <3>5 DEF RowAdded
            <4>2. seen + q \in Nat
                BY <3>3
            <4>3. Quantity(x) = Quantity(s) - s[i] + (seen + q) /\ s[i] \in Nat
                BY <2>1, <3>5, <4>2, SumRowExcept
            <4> QED BY <2>2, <3>1, <3>3, <4>1, <4>3
        <3> QED BY <2>0, <2>8, <3>2, <3>4, <3>5 DEF RowAdded
    <2> QED BY <1>2, <2>0, <2>4, <2>6, <2>7, <2>8, RowsMove
<1> QED BY <1>1, <1>2

\* What was sold stays confirmed.
LEMMA SoldStep ==
    ASSUME DraftTypes, DraftRefs, DNext, DraftTypes', SoldIsKept PROVE SoldIsKept'
<1> SUFFICES ASSUME NEW c \in Carts', cart'[c].sold PROVE cart'[c].status = "confirmed"
    BY DEF SoldIsKept
<1>1. c \in Carts
    BY NewIsEmpty
<1>2. cart[c] \in SaleCarts /\ (cart[c].sold => cart[c].status = "confirmed")
    BY <1>1, CartElements DEF SoldIsKept
<1>3. CASE cart'[c] = cart[c]
    BY <1>2, <1>3
<1>4. ASSUME NEW w \in TapWorkers, GetOrCreate(w) PROVE cart'[c] = cart[c]
    <2>1. cart' = cart \/ \E k : cart' = Append(cart, k)
        BY <1>4, Created
    <2>2. cart \in Seq(SaleCarts) /\ c \in DOMAIN cart
        BY <1>1 DEF DraftTypes, Carts
    <2>3. ASSUME NEW k, cart' = Append(cart, k) PROVE cart'[c] = cart[c]
        BY <2>2, <2>3, Appended
    <2> QED BY <2>1, <2>3
<1>5. ASSUME NEW w \in TapWorkers, WriteCart(w) PROVE cart'[c].sold = cart[c].sold /\ cart'[c].status = cart[c].status
    <2>1. cart' = cart \/ \E k \in SaleCarts, new \in Seq(Nat) :
                               /\ k = [cart[req[w].cart] EXCEPT !.added = @ + req[w].quantity, !.rows = new]
                               /\ cart' = [cart EXCEPT ![req[w].cart] = k]
        BY <1>5, RowWritten, Zenon
    <2>2. req[w].cart \in Carts /\ cart[req[w].cart] \in SaleCarts
        BY <1>5, RowWritten, CartElements, Zenon
    <2>3. CASE cart' = cart
        BY <2>3
    <2>4. ASSUME NEW k \in SaleCarts, NEW new \in Seq(Nat),
                 k = [cart[req[w].cart] EXCEPT !.added = @ + req[w].quantity, !.rows = new],
                 cart' = [cart EXCEPT ![req[w].cart] = k]
          PROVE  cart'[c].sold = cart[c].sold /\ cart'[c].status = cart[c].status
        <3>1. cart'[req[w].cart] = k /\ \A b \in Carts \ {req[w].cart} : cart'[b] = cart[b]
            BY <2>2, <2>4, EditTypes
        <3>2. k.sold = cart[req[w].cart].sold /\ k.status = cart[req[w].cart].status
            BY <2>2, <2>4 DEF SaleCarts
        <3> QED BY <1>1, <3>1, <3>2
    <2> QED BY <2>1, <2>3, <2>4, Zenon
<1>6. ASSUME NEW b \in Carts, RemoveRow(b) \/ SetClient(b) \/ ConfirmCart(b) \/ GrowOld(b)
      PROVE  cart'[c].status = "confirmed"
    <2>1. PICK k \in SaleCarts :
              Edit(b, k) /\ (k.sold => k.status = "confirmed" \/ (cart[b].sold /\ k.status = cart[b].status))
        BY <1>6, EditsKeep
    <2>2. cart'[b] = k /\ \A a \in Carts \ {b} : cart'[a] = cart[a]
        BY <2>1, EditTypes DEF Edit
    <2> QED BY <1>1, <1>2, <2>1, <2>2
<1>7. CASE Delete /\ cart'[c] # cart[c]
    <2>1. cart'[c] = [cart[c] EXCEPT !.status = "deleted"] /\ cart[c].status # "confirmed"
        BY <1>1, <1>7 DEF Delete
    <2> QED BY <1>2, <2>1 DEF SaleCarts
<1>8. \/ UNCHANGED cart \/ Delete \/ \E w \in TapWorkers : GetOrCreate(w) \/ WriteCart(w)
      \/ \E b \in Carts : RemoveRow(b) \/ SetClient(b) \/ ConfirmCart(b) \/ GrowOld(b)
    BY Zenon DEF DNext, TapStep, OpenPage, FirstTap, Tap, Takes, ReadCart, SaveSession, Select, Collect
<1>9. CASE UNCHANGED cart
    BY <1>3, <1>9
<1> QED BY <1>2, <1>3, <1>4, <1>5, <1>6, <1>7, <1>8, <1>9

\* A token is made for a page or for a tap that found none.
Creators == {w \in TapWorkers : req[w].step = "create"}

TokensFew ==
    /\ minted + Cardinality(Creators) <= Len(visit) + taps
    /\ Len(visit) + taps <= MaxBegun

LEMMA TokensFewStep ==
    ASSUME DraftTypes, DraftRefs, DNext, DraftTypes', TokensFew PROVE TokensFew'
<1>1. /\ IsFiniteSet(TapWorkers) /\ MaxBegun \in Nat /\ minted \in Nat /\ taps \in Nat /\ Len(visit) \in Nat
      /\ minted' \in Nat /\ taps' \in Nat /\ Len(visit') \in Nat /\ req \in [TapWorkers -> Requests]
    BY DraftsAssumption DEF DraftTypes
<1>2. /\ IsFiniteSet(Creators) /\ IsFiniteSet(Creators')
      /\ Cardinality(Creators) \in Nat /\ Cardinality(Creators') \in Nat
    <2>1. Creators \subseteq TapWorkers /\ Creators' \subseteq TapWorkers
        BY DEF Creators
    <2> QED BY <1>1, <2>1, FS_Subset, FS_CardinalityType
<1>3. ASSUME NEW w \in TapWorkers, NEW r, req' = [req EXCEPT ![w] = r]
      PROVE  /\ req[w].step # "create" => Cardinality(Creators') <= Cardinality(Creators) + 1
             /\ req[w].step # "create" /\ r.step # "create" => Cardinality(Creators') = Cardinality(Creators)
             /\ (req[w].step = "create" /\ r.step # "create") => Cardinality(Creators') = Cardinality(Creators) - 1
    <2>1. Creators' \ {w} = Creators \ {w} /\ Creators \in SUBSET TapWorkers /\ Creators' \in SUBSET TapWorkers
        BY <1>1, <1>3 DEF Creators
    <2>2. /\ w \in Creators <=> req[w].step = "create"
          /\ w \in Creators' <=> r.step = "create"
        BY <1>1, <1>3 DEF Creators
    <2>3. PICK S, T : S = Creators /\ T = Creators'
        OBVIOUS
    <2>4. Cardinality(T) = Cardinality(S) - (IF w \in S THEN 1 ELSE 0) + (IF w \in T THEN 1 ELSE 0)
        BY <1>1, <2>1, <2>3, MovesOf
    <2>5. /\ w \notin S => Cardinality(T) <= Cardinality(S) + 1
          /\ w \notin S /\ w \notin T => Cardinality(T) = Cardinality(S)
          /\ (w \in S /\ w \notin T) => Cardinality(T) = Cardinality(S) - 1
        BY <1>2, <2>3, <2>4
    <2> QED BY <2>2, <2>3, <2>5
<1>4. CASE OpenPage
    <2>1. Creators' = Creators
        BY <1>4 DEF OpenPage, Creators
    <2>2. minted' \in {minted, minted + 1} /\ Len(visit') = Len(visit) + 1 /\ taps' = taps /\ Len(visit) + taps < MaxBegun
        BY <1>1, <1>4 DEF OpenPage, DraftTypes
    <2> QED BY <1>1, <1>2, <2>1, <2>2 DEF TokensFew
<1>5. ASSUME NEW w \in TapWorkers, NEW r, Takes(w, r) PROVE TokensFew'
    <2>1. /\ req' = [req EXCEPT ![w] = r] /\ taps' = taps + 1 /\ UNCHANGED <<minted, visit>>
          /\ Len(visit) + taps < MaxBegun /\ req[w].step # "create"
        BY <1>5 DEF Takes, NoTap
    <2>2. Cardinality(Creators') <= Cardinality(Creators) + 1
        BY <1>2, <1>3, <2>1
    <2> QED BY <1>1, <1>2, <2>1, <2>2 DEF TokensFew
<1>6. ASSUME NEW w \in TapWorkers, GetOrCreate(w) PROVE TokensFew'
    <2>1. PICK token \in 1..minted + 1, c \in Nat : /\ minted' = IF token > minted THEN token ELSE minted
              /\ req' = [req EXCEPT ![w] = [step |-> "read", cart |-> c, token |-> NoToken,
                                           first |-> TRUE, asked |-> req[w].asked]]
        BY <1>6, Created
    <2>2. minted' <= minted + 1
        BY <1>1, <2>1
    <2>3. req[w].step = "create" /\ UNCHANGED <<visit, taps>>
        BY <1>6 DEF GetOrCreate
    <2>4. PICK r : req' = [req EXCEPT ![w] = r] /\ r.step # "create"
        <3>1. PICK r : r = [step |-> "read", cart |-> c, token |-> NoToken, first |-> TRUE, asked |-> req[w].asked]
            OBVIOUS
        <3>2. r.step # "create" /\ req' = [req EXCEPT ![w] = r]
            BY <2>1, <3>1
        <3> QED BY <3>2
    <2>5. Cardinality(Creators') = Cardinality(Creators) - 1
        BY <1>2, <1>3, <2>3, <2>4
    <2> QED BY <1>1, <1>2, <2>2, <2>3, <2>5 DEF TokensFew
<1>7. ASSUME NEW w \in TapWorkers, ReadCart(w) \/ WriteCart(w) \/ SaveSession(w) PROVE TokensFew'
    <2>1. req[w].step # "create" /\ UNCHANGED <<visit, taps, minted>>
        BY <1>7 DEF ReadCart, WriteCart, SaveSession
    <2>2. PICK r : req' = [req EXCEPT ![w] = r] /\ r.step # "create"
        <3>1. CASE ReadCart(w)
            <4>1. PICK r : /\ req' = [req EXCEPT ![w] = r]
                           /\ r = IF cart[req[w].cart].status # "draft" \/ Min({req[w].asked, Room(req[w].cart)}) = 0
                                  THEN [step |-> "save", token |-> req[w].token, first |-> req[w].first]
                                  ELSE [step |-> "write", cart |-> req[w].cart, token |-> req[w].token,
                                        first |-> req[w].first, quantity |-> Min({req[w].asked, Room(req[w].cart)}),
                                        row |-> FirstRow(cart[req[w].cart].rows),
                                        seen |-> IF FirstRow(cart[req[w].cart].rows) = 0 THEN 0
                                                 ELSE cart[req[w].cart].rows[FirstRow(cart[req[w].cart].rows)]]
                BY <3>1 DEF ReadCart
            <4>2. r.step # "create"
                BY <4>1
            <4> QED BY <4>1, <4>2
        <3>2. CASE WriteCart(w)
            <4>1. PICK r : /\ req' = [req EXCEPT ![w] = r]
                           /\ r = NoTap \/ r = [step |-> "save", token |-> req[w].token, first |-> req[w].first]
                BY <3>2, RowWritten, Zenon
            <4>2. r.step # "create"
                BY <4>1 DEF NoTap
            <4> QED BY <4>1, <4>2, Zenon
        <3>3. CASE SaveSession(w)
            <4>1. req' = [req EXCEPT ![w] = NoTap] /\ NoTap.step # "create"
                BY <3>3 DEF SaveSession, NoTap
            <4> QED BY <4>1
        <3> QED BY <1>7, <3>1, <3>2, <3>3
    <2>3. Cardinality(Creators') = Cardinality(Creators)
        BY <1>2, <1>3, <2>1, <2>2
    <2> QED BY <1>1, <1>2, <2>1, <2>3 DEF TokensFew
<1>8. CASE UNCHANGED <<visit, taps, minted, req>>
    BY <1>8 DEF TokensFew, Creators
<1>9. ASSUME NEW w \in TapWorkers, TapStep(w) PROVE TokensFew'
    BY <1>5, <1>6, <1>7, <1>9, Zenon DEF TapStep, FirstTap, Tap
<1> QED BY <1>4, <1>8, <1>9, Zenon DEF DNext, Select, Collect, Delete, RemoveRow, SetClient, ConfirmCart, GrowOld, Edit

\* Who might yet store or use the token of a cart: nobody.
Unheld(c) ==
    /\ session # cart[c].token
    /\ \A w \in TapWorkers : req[w].step \in {"create", "read", "write", "save"} => req[w].token # cart[c].token

\* The request that will take the token of a cart out of the session, or put it back.
Settles(w, c) ==
    \/ req[w].step = "save" /\ (req[w].first \/ req[w].token = session)
    \/ req[w].step = "read" /\ req[w].first /\ req[w].cart = c /\ Len(cart[c].rows) = 0
    \/ req[w].step = "write" /\ req[w].first /\ req[w].cart = c /\ req[w].row = 0

AsLoaded ==
    \A w \in TapWorkers : req[w].step \in {"read", "write"} /\ ~req[w].first =>
       LET c == req[w].cart
       IN  c # TheOrder /\ cart[c].status # "deleted" /\ session = cart[c].token => req[w].token = cart[c].token

Settled ==
    \A c \in Carts \ {TheOrder} :
        cart[c].status # "deleted" /\ session = cart[c].token => \E w \in TapWorkers : Settles(w, c)

OldUnheld == \A c \in Carts \ {TheOrder} : cart[c].old => Unheld(c)

TokensApart == \A a, b \in Carts \ {TheOrder} : cart[a].token = cart[b].token => a = b

QuietUnheld ==
    \A v \in DOMAIN visit : visit[v].quiet =>
       \A c \in Carts \ {TheOrder} : c <= visit[v].known => Unheld(c)

OwnLanded == \A l \in landed : l.own => cart[l.cart].token = visit[l.visit].token

OwnTokens == OwnLanded /\ (~revived => AsLoaded /\ Settled /\ OldUnheld /\ TokensApart /\ QuietUnheld /\ NewSaleIsNew)

\* What a step does to the session and to the tokens that requests hold.
LEMMA SessionMoves ==
    ASSUME DNext
    PROVE  \/ session' = session
           \/ session = NoToken /\ session' = minted + 1
           \/ \E w \in TapWorkers : SaveSession(w) /\ session' = req[w].token
<1>1. ASSUME NEW w \in TapWorkers, TapStep(w) PROVE session' = session \/ (SaveSession(w) /\ session' = req[w].token)
    BY <1>1 DEF TapStep, FirstTap, Tap, Takes, GetOrCreate, ReadCart, WriteCart, SaveSession
<1>2. OpenPage => session' = session \/ (session = NoToken /\ session' = minted + 1)
    BY DEF OpenPage
<1> QED
    BY <1>1, <1>2, Zenon DEF DNext, Select, Collect, Delete, RemoveRow, SetClient, ConfirmCart, GrowOld, Edit

LEMMA TokensMove ==
    ASSUME DraftTypes, DraftRefs, DNext, DraftTypes', NEW w \in TapWorkers,
           req'[w].step \in {"create", "read", "write", "save"}
    PROVE  \/ req'[w] = req[w]
           \/ /\ req'[w].token = session /\ UNCHANGED <<cart, session>>
              /\ req'[w].step = "create" \/ (req'[w].step = "read" /\ ~req'[w].first)
           \/ GetOrCreate(w) /\ req'[w].step = "read" /\ req'[w].first /\ req'[w].token = NoToken
           \/ /\ ReadCart(w) \/ WriteCart(w)
              /\ req[w].step \in {"read", "write"} /\ req'[w].step \in {"write", "save"}
              /\ req'[w].token = req[w].token /\ req'[w].first = req[w].first
              /\ req'[w].step = "write" => req'[w].cart = req[w].cart
<1>1. CASE req' = req
    BY <1>1
<1>2. PICK u \in TapWorkers, r \in Requests :
         req' # req =>
                 /\ req' = [req EXCEPT ![u] = r] /\ Refers(r)'
                 /\ r.step = "create" => r.token = session /\ UNCHANGED <<cart, session>>
                 /\ r.step = "write"  => ReadCart(u)
                 /\ r.step = "read"   => \/ GetOrCreate(u) /\ r.first
                                         \/ ~r.first /\ r.token = session /\ UNCHANGED <<cart, session>>
                 /\ r.step = "save"   => /\ ReadCart(u) \/ WriteCart(u)
                                         /\ r.token = req[u].token /\ r.first = req[u].first
    <2>1. NoTap \in Requests
        BY DEF Requests
    <2>2. CASE req' # req
        BY <2>2, Requested
    <2> QED BY <2>1, <2>2
<1>3. ASSUME req' # req, u # w PROVE req'[w] = req[w]
    BY <1>2, <1>3 DEF DraftTypes
<1>4. ASSUME req' # req, u = w PROVE req'[w] = r
    BY <1>2, <1>4 DEF DraftTypes
<1>5. CASE req' # req /\ u = w /\ r.step = "write"
    <2>1. ReadCart(w) /\ req[w].step = "read" /\ req'[w] = r
        BY <1>2, <1>4, <1>5 DEF ReadCart
    <2>2. PICK k : req' = [req EXCEPT ![w] = k] /\
              (k.step = "write" => k.token = req[w].token /\ k.first = req[w].first /\ k.cart = req[w].cart)
        <3>1. PICK q, i, n : req' = [req EXCEPT ![w] =
                IF cart[req[w].cart].status # "draft" \/ q = 0
                THEN [step |-> "save", token |-> req[w].token, first |-> req[w].first]
                ELSE [step |-> "write", cart |-> req[w].cart, token |-> req[w].token,
                      first |-> req[w].first, quantity |-> q, row |-> i, seen |-> n]]
            BY <2>1 DEF ReadCart
        <3>2. PICK k : k = IF cart[req[w].cart].status # "draft" \/ q = 0
                THEN [step |-> "save", token |-> req[w].token, first |-> req[w].first]
                ELSE [step |-> "write", cart |-> req[w].cart, token |-> req[w].token,
                      first |-> req[w].first, quantity |-> q, row |-> i, seen |-> n]
            OBVIOUS
        <3>3. req' = [req EXCEPT ![w] = k]
            BY <3>1, <3>2
        <3>4. k.step = "write" => k.token = req[w].token /\ k.first = req[w].first /\ k.cart = req[w].cart
            BY <3>2
        <3> QED BY <3>3, <3>4
    <2>3. k = r
        BY <2>1, <2>2 DEF DraftTypes
    <2> QED BY <1>5, <2>1, <2>2, <2>3
<1>6. CASE req' # req /\ u = w /\ r.step = "save"
    <2>1. /\ req'[w] = r /\ req[w].step \in {"read", "write"} /\ r.token = req[w].token /\ r.first = req[w].first
          /\ ReadCart(w) \/ WriteCart(w)
        BY <1>2, <1>4, <1>6 DEF ReadCart, WriteCart
    <2> QED BY <1>6, <2>1
<1>7. CASE req' # req /\ u = w /\ r.step = "read"
    <2>1. req'[w] = r /\ (r.first => r.token = NoToken)
        BY <1>2, <1>4, <1>7 DEF Refers
    <2> QED BY <1>2, <1>7, <2>1
<1>8. CASE req' # req /\ u = w /\ r.step = "create"
    BY <1>2, <1>4, <1>8
<1> QED BY <1>1, <1>3, <1>4, <1>5, <1>6, <1>7, <1>8

\* A token that nobody holds comes back to nobody.
LEMMA UnheldStays ==
    ASSUME DraftTypes, DraftRefs, DNext, DraftTypes', NEW c \in Carts \ {TheOrder}, Unheld(c)
    PROVE  Unheld(c)'
<1>1. cart'[c].token = cart[c].token /\ cart[c].token \in 1..minted /\ minted \in Nat
    BY CartsStay DEF DraftRefs, DraftTypes
<1>2. session' # cart[c].token
    <2>1. ASSUME NEW w \in TapWorkers, SaveSession(w) PROVE req[w].token # cart[c].token
        BY <2>1 DEF SaveSession, Unheld
    <2> QED BY <1>1, <2>1, SessionMoves DEF Unheld
<1>3. ASSUME NEW w \in TapWorkers, req'[w].step \in {"create", "read", "write", "save"}
      PROVE  req'[w].token # cart[c].token
    BY <1>1, <1>3, TokensMove DEF Unheld, NoToken
<1> QED BY <1>1, <1>2, <1>3 DEF Unheld

\* Unless a used token is stored again, the session gets no token of a cart there is.
LEMMA ComesBack ==
    ASSUME DraftTypes, DraftRefs, DNext, DraftTypes', ~revived', OldUnheld,
           NEW c \in Carts \ {TheOrder}, session' = cart'[c].token
    PROVE  session = cart[c].token /\ cart[c].status # "deleted" /\ ~revived
<1>1. cart'[c].token = cart[c].token /\ cart[c].token \in 1..minted /\ minted \in Nat
    BY CartsStay DEF DraftRefs, DraftTypes
<1>2. cart[c].status # "deleted"
    <2>1. ASSUME cart[c].status = "deleted" PROVE FALSE
        <3>1. Unheld(c)
            BY <2>1 DEF DraftRefs, OldUnheld
        <3>2. Unheld(c)'
            BY <3>1, UnheldStays
        <3> QED BY <3>2 DEF Unheld
    <2> QED BY <2>1
<1>3. ASSUME NEW w \in TapWorkers, SaveSession(w), session' = req[w].token PROVE FALSE
    <2>1. req[w].step = "save" /\ req[w].token # NoToken
        BY <1>1, <1>3 DEF SaveSession, NoToken
    <2>2. ~req[w].first
        BY <2>1 DEF DraftRefs, Refers
    <2>3. WithToken(session') # {}
        BY <1>1, <1>2 DEF WithToken
    <2> QED BY <1>3, <2>1, <2>2, <2>3 DEF SaveSession
<1>4. ~revived
    <2>1. revived' = revived \/ \E w \in TapWorkers : SaveSession(w)
        BY Zenon DEF DNext, TapStep, OpenPage, FirstTap, Tap, Takes, GetOrCreate, ReadCart, WriteCart, Select, Collect,
               Delete, RemoveRow, SetClient, ConfirmCart, GrowOld, Edit
    <2>2. ASSUME NEW w \in TapWorkers, SaveSession(w) PROVE ~revived
        BY <2>2 DEF SaveSession
    <2> QED BY <2>1, <2>2
<1> QED BY <1>1, <1>2, <1>3, <1>4, SessionMoves

LEMMA AsLoadedStep ==
    ASSUME DraftTypes, DraftRefs, DNext, DraftTypes', ~revived', OldUnheld, AsLoaded PROVE AsLoaded'
<1> SUFFICES ASSUME NEW w \in TapWorkers, req'[w].step \in {"read", "write"}, ~req'[w].first,
                    NEW c, c = req'[w].cart, c # TheOrder, cart'[c].status # "deleted",
                    session' = cart'[c].token
             PROVE  req'[w].token = session'
    BY DEF AsLoaded
<1>1. CASE /\ req[w].step \in {"read", "write"} /\ req'[w].token = req[w].token
           /\ req'[w].first = req[w].first /\ req'[w].cart = req[w].cart
    <2>1. c \in Carts \ {TheOrder}
        BY <1>1 DEF DraftRefs, Refers
    <2>2. session = cart[c].token /\ cart[c].status # "deleted" /\ cart'[c].token = cart[c].token
        BY <2>1, ComesBack, CartsStay
    <2> QED BY <1>1, <2>2 DEF AsLoaded
<1> QED BY <1>1, TokensMove

\* Only a worker's own step changes what it serves.
LEMMA OwnStep ==
    ASSUME DraftTypes, DNext, NEW w \in TapWorkers, req'[w] # req[w]
    PROVE  /\ req[w].step = "read" => ReadCart(w)
           /\ req[w].step = "write" => WriteCart(w)
           /\ req[w].step = "save" => SaveSession(w)
<1>1. PICK u \in TapWorkers : TapStep(u)
    BY Zenon DEF DNext, OpenPage, Select, Collect, Delete, RemoveRow, SetClient, ConfirmCart, GrowOld, Edit
<1>2. PICK r : req' = [req EXCEPT ![u] = r]
    BY <1>1 DEF TapStep, FirstTap, Tap, Takes, GetOrCreate, ReadCart, WriteCart, SaveSession
<1>3. u = w
    BY <1>2 DEF DraftTypes
<1>4. req[w].step \in {"read", "write", "save"} => req[w] # NoTap /\ req[w].step # "create"
    BY DEF NoTap
<1> QED BY <1>1, <1>3, <1>4 DEF TapStep, FirstTap, Tap, Takes, GetOrCreate, ReadCart, WriteCart, SaveSession

\* Who is to take a used token out of the session goes on, or is about to have done so.
LEMMA SettledStep ==
    ASSUME DraftTypes, DraftRefs, DNext, DraftTypes', ~revived', OldUnheld, AsLoaded, Settled PROVE Settled'
<1> SUFFICES ASSUME NEW c \in Carts' \ {TheOrder}, cart'[c].status # "deleted", session' = cart'[c].token
             PROVE  \E w \in TapWorkers :
                       \/ req'[w].step = "save" /\ (req'[w].first \/ req'[w].token = session')
                       \/ req'[w].step = "read" /\ req'[w].first /\ req'[w].cart = c /\ Len(cart'[c].rows) = 0
                       \/ req'[w].step = "write" /\ req'[w].first /\ req'[w].cart = c /\ req'[w].row = 0
    BY DEF Settled, Settles
<1>1. CASE c \notin Carts
    <2>1. PICK w \in TapWorkers : GetOrCreate(w) /\ c = Len(cart) + 1 /\ \E token : cart'[c] = EmptyCart(token, "sale")
        BY <1>1, NewCart
    <2>2. Carts = 1..Len(cart) /\ Len(cart) \in Nat
        BY CartElements
    <2>3. PICK b \in Nat : /\ (b \in Carts /\ cart' = cart) \/ b = Len(cart) + 1
                           /\ req' = [req EXCEPT ![w] = [step |-> "read", cart |-> b, token |-> NoToken,
                                                         first |-> TRUE, asked |-> req[w].asked]]
        BY <2>1, Created
    <2>4. b = c
        BY <1>1, <2>1, <2>3 DEF Carts
    <2>5. req'[w] = [step |-> "read", cart |-> c, token |-> NoToken, first |-> TRUE, asked |-> req[w].asked]
        BY <2>3, <2>4 DEF DraftTypes
    <2>6. Len(cart'[c].rows) = 0
        BY <2>1 DEF EmptyCart
    <2> QED BY <2>5, <2>6
<1>2. CASE c \in Carts
    <2>1. session = cart[c].token /\ cart[c].status # "deleted" /\ cart'[c].token = cart[c].token /\ ~revived
        BY <1>2, ComesBack, CartsStay
    <2>2. PICK w \in TapWorkers : Settles(w, c)
        BY <1>2, <2>1 DEF Settled
    <2>3. cart[c].token \in 1..minted /\ minted \in Nat /\ cart[c].token # NoToken
        BY <1>2 DEF DraftRefs, DraftTypes, NoToken
    <2>4. /\ Len(cart[c].rows) \in Nat /\ Len(cart'[c].rows) \in Nat
          /\ Len(cart'[c].rows) # Len(cart[c].rows) => \E u \in TapWorkers : WriteCart(u) /\ Writes(u, c)
        BY <1>2, CartsStay
    <2>5. CASE req'[w] = req[w] /\ Len(cart'[c].rows) = Len(cart[c].rows)
        BY <2>1, <2>2, <2>5 DEF Settles
    <2>6. CASE Len(cart'[c].rows) # Len(cart[c].rows)
        <3>1. PICK u \in TapWorkers : WriteCart(u) /\ Writes(u, c)
            BY <2>4, <2>6
        <3>2. cart' # cart
            BY <2>6
        <3>3. req' = [req EXCEPT ![u] = [step |-> "save", token |-> req[u].token, first |-> req[u].first]]
            BY <3>1, <3>2, RowWritten, Zenon
        <3>4. req'[u] = [step |-> "save", token |-> req[u].token, first |-> req[u].first]
            BY <3>3 DEF DraftTypes
        <3>5. req[u].first \/ req[u].token = cart[c].token
            BY <1>2, <2>1, <3>1 DEF AsLoaded, Writes
        <3>6. req'[u].step = "save" /\ (req'[u].first \/ req'[u].token = session')
            BY <2>1, <3>4, <3>5
        <3> QED BY <3>6
    <2>7. CASE req[w].step = "save" /\ req'[w] # req[w]
        <3>1. SaveSession(w) /\ session' = req[w].token
            BY <2>7, OwnStep DEF SaveSession
        <3>2. ~req[w].first
            BY <2>1, <2>3, <2>7, <3>1 DEF DraftRefs, Refers
        <3>3. WithToken(session') # {}
            BY <1>2, <2>1 DEF WithToken
        <3> QED BY <2>1, <2>3, <3>1, <3>2, <3>3 DEF SaveSession
    <2>8. CASE req[w].step = "read" /\ req'[w] # req[w]
        <3>1. ReadCart(w) /\ req[w].first /\ req[w].cart = c /\ Len(cart[c].rows) = 0
            BY <2>2, <2>8, OwnStep DEF Settles
        <3>2. FirstRow(cart[c].rows) = 0
            <4>1. cart[c].rows \in Seq(Nat)
                BY <1>2, CartElements
            <4> QED BY <3>1, <4>1, FirstLeft
        <3>3. PICK r : /\ req' = [req EXCEPT ![w] = r]
                       /\ r = IF cart[req[w].cart].status # "draft" \/ Min({req[w].asked, Room(req[w].cart)}) = 0
                              THEN [step |-> "save", token |-> req[w].token, first |-> req[w].first]
                              ELSE [step |-> "write", cart |-> req[w].cart, token |-> req[w].token,
                                    first |-> req[w].first, quantity |-> Min({req[w].asked, Room(req[w].cart)}),
                                    row |-> FirstRow(cart[req[w].cart].rows),
                                    seen |-> IF FirstRow(cart[req[w].cart].rows) = 0 THEN 0
                                             ELSE cart[req[w].cart].rows[FirstRow(cart[req[w].cart].rows)]]
            BY <3>1 DEF ReadCart
        <3>4. req'[w] = r
            BY <3>3 DEF DraftTypes
        <3>5. \/ r.step = "save" /\ r.first
              \/ r.step = "write" /\ r.first /\ r.cart = c /\ r.row = 0
            BY <3>1, <3>2, <3>3
        <3> QED BY <3>4, <3>5
    <2>9. CASE req[w].step = "write" /\ req'[w] # req[w]
        <3>1. WriteCart(w) /\ req[w].first /\ req[w].cart = c /\ req[w].row = 0
            BY <2>2, <2>9, OwnStep DEF Settles
        <3>2. req' = [req EXCEPT ![w] = [step |-> "save", token |-> req[w].token, first |-> req[w].first]]
            BY <2>1, <3>1, RowWritten, Zenon
        <3>3. req'[w] = [step |-> "save", token |-> req[w].token, first |-> req[w].first]
            BY <3>2 DEF DraftTypes
        <3>4. req'[w].step = "save" /\ req'[w].first
            BY <3>1, <3>3
        <3> QED BY <3>4
    <2>10. req[w].step \in {"save", "read", "write"}
        BY <2>2 DEF Settles
    <2> QED BY <2>5, <2>6, <2>7, <2>8, <2>9, <2>10
<1> QED BY <1>1, <1>2

\* Once all requests have ended, no session has a used token.
LEMMA AllQuiet ==
    ASSUME DraftRefs, ~revived, OldUnheld, Settled, \A w \in TapWorkers : req[w] = NoTap
    PROVE  \A c \in Carts \ {TheOrder} : Unheld(c)
<1> SUFFICES ASSUME NEW c \in Carts \ {TheOrder}, ~cart[c].old PROVE Unheld(c)
    BY DEF OldUnheld
<1>1. cart[c].status # "deleted"
    BY DEF DraftRefs
<1>2. \A w \in TapWorkers : ~Settles(w, c) /\ req[w].step \notin {"create", "read", "write", "save"}
    BY DEF Settles, NoTap
<1> QED BY <1>1, <1>2 DEF Settled, Unheld

LEMMA OldUnheldStep ==
    ASSUME DraftTypes, DraftRefs, DNext, DraftTypes', ~revived, OldUnheld, Settled PROVE OldUnheld'
<1> SUFFICES ASSUME NEW c \in Carts' \ {TheOrder}, cart'[c].old PROVE Unheld(c)'
    BY DEF OldUnheld
<1>1. c \in Carts
    <2>1. ASSUME c \notin Carts PROVE FALSE
        <3>1. PICK token : cart'[c] = EmptyCart(token, "sale")
            BY <2>1, NewCart
        <3>2. ~cart'[c].old
            BY <3>1 DEF EmptyCart
        <3> QED BY <3>2
    <2> QED BY <2>1
<1>2. cart[c].old \/ GrowOld(c)
    <2>1. cart[c] \in SaleCarts
        BY <1>1, CartElements
    <2>2. ASSUME NEW w \in TapWorkers, GetOrCreate(w) PROVE cart'[c] = cart[c]
        <3>1. cart' = cart \/ \E k : cart' = Append(cart, k)
            BY <2>2, Created
        <3>2. cart \in Seq(SaleCarts) /\ c \in DOMAIN cart
            BY <1>1 DEF DraftTypes, Carts
        <3>3. ASSUME NEW k, cart' = Append(cart, k) PROVE cart'[c] = cart[c]
            BY <3>2, <3>3, Appended
        <3> QED BY <3>1, <3>3
    <2>3. ASSUME NEW w \in TapWorkers, WriteCart(w) PROVE cart'[c].old = cart[c].old
        <3>1. \/ cart' = cart
              \/ \E k \in SaleCarts, new \in Seq(Nat) :
                    /\ k = [cart[req[w].cart] EXCEPT !.added = @ + req[w].quantity, !.rows = new]
                    /\ cart' = [cart EXCEPT ![req[w].cart] = k]
            BY <2>3, RowWritten, Zenon
        <3>2. req[w].cart \in Carts /\ cart[req[w].cart] \in SaleCarts
            BY <2>3, RowWritten, CartElements, Zenon
        <3>3. ASSUME NEW k \in SaleCarts, NEW new \in Seq(Nat),
                     k = [cart[req[w].cart] EXCEPT !.added = @ + req[w].quantity, !.rows = new],
                     cart' = [cart EXCEPT ![req[w].cart] = k]
              PROVE  cart'[c].old = cart[c].old
            <4>1. cart'[req[w].cart] = k /\ \A b \in Carts \ {req[w].cart} : cart'[b] = cart[b]
                BY <3>2, <3>3, EditTypes
            <4>2. k.old = cart[req[w].cart].old
                BY <3>2, <3>3 DEF SaleCarts
            <4> QED BY <1>1, <4>1, <4>2
        <3> QED BY <3>1, <3>3, Zenon
    <2>4. ASSUME NEW b \in Carts, RemoveRow(b) \/ SetClient(b) \/ ConfirmCart(b) \/ GrowOld(b)
          PROVE  cart[c].old \/ GrowOld(c)
        <3>1. PICK k \in SaleCarts : Edit(b, k) /\ (k.old # cart[b].old => GrowOld(b))
            BY <2>4, EditsKeep
        <3>2. cart'[b] = k /\ \A a \in Carts \ {b} : cart'[a] = cart[a]
            BY <3>1, EditTypes DEF Edit
        <3> QED BY <1>1, <2>1, <3>1, <3>2
    <2>5. Delete => cart'[c].old = cart[c].old
        <3>1. ASSUME Delete PROVE cart'[c] = cart[c] \/ cart'[c] = [cart[c] EXCEPT !.status = "deleted"]
            BY <1>1, <3>1 DEF Delete
        <3> QED BY <2>1, <3>1 DEF SaleCarts
    <2>6. \/ UNCHANGED cart \/ Delete \/ \E w \in TapWorkers : GetOrCreate(w) \/ WriteCart(w)
          \/ \E b \in Carts : RemoveRow(b) \/ SetClient(b) \/ ConfirmCart(b) \/ GrowOld(b)
        BY DEF DNext, TapStep, OpenPage, FirstTap, Tap, Takes, ReadCart, SaveSession, Select, Collect
    <2> QED BY <2>2, <2>3, <2>4, <2>5, <2>6
<1>3. Unheld(c)
    <2>1. CASE cart[c].old
        BY <1>1, <2>1 DEF OldUnheld
    <2>2. CASE GrowOld(c)
        BY <1>1, <2>2, AllQuiet DEF GrowOld
    <2> QED BY <1>2, <2>1, <2>2
<1> QED BY <1>1, <1>3, UnheldStays

LEMMA TokensApartStep ==
    ASSUME DraftTypes, DraftRefs, DNext, DraftTypes', OldUnheld, TokensApart PROVE TokensApart'
<1>1. ASSUME NEW a \in Carts' \ Carts, NEW b \in Carts \ {TheOrder}, cart'[a].token = cart'[b].token PROVE FALSE
    <2>1. PICK w \in TapWorkers, token \in 1..minted + 1 :
              /\ GetOrCreate(w) /\ WithToken(token) = {} /\ cart'[a] = EmptyCart(token, "sale")
              /\ token = IF req[w].token = NoToken THEN minted + 1 ELSE req[w].token
        BY <1>1, NewCart
    <2>2. cart[b].token = token /\ cart[b].token \in 1..minted /\ minted \in Nat
        <3>1. cart'[a].token = token
            BY <2>1 DEF EmptyCart
        <3>2. cart'[b].token = cart[b].token
            BY CartsStay
        <3>3. cart[b].token \in 1..minted
            BY DEF DraftRefs
        <3> QED BY <1>1, <3>1, <3>2, <3>3 DEF DraftTypes
    <2>3. req[w].step = "create" /\ req[w].token = token
        BY <2>1, <2>2 DEF GetOrCreate
    <2>4. cart[b].status = "deleted"
        BY <2>1, <2>2 DEF WithToken
    <2>5. Unheld(b)
        BY <2>4 DEF DraftRefs, OldUnheld
    <2> QED BY <2>2, <2>3, <2>5 DEF Unheld
<1>2. \A a, b \in Carts' \ Carts : a = b
    BY NewCart
<1>3. \A c \in Carts : cart'[c].token = cart[c].token
    BY CartsStay
<1> SUFFICES ASSUME NEW a \in Carts' \ {TheOrder}, NEW b \in Carts' \ {TheOrder}, cart'[a].token = cart'[b].token
             PROVE  a = b
    BY DEF TokensApart
<1> QED BY <1>1, <1>2, <1>3 DEF TokensApart

\* A page is opened, or all are as they were.
LEMMA PageOpened ==
    ASSUME DraftTypes, DNext, NEW v \in DOMAIN visit' \ DOMAIN visit
    PROVE  /\ OpenPage /\ visit'[v].known = Len(cart)
           /\ visit'[v].quiet => \A w \in TapWorkers : req[w] = NoTap
<1>1. OpenPage
    BY Zenon DEF DNext, TapStep, FirstTap, Tap, Takes, GetOrCreate, ReadCart, WriteCart, SaveSession, Select, Collect,
           Delete, RemoveRow, SetClient, ConfirmCart, GrowOld, Edit
<1>2. visit \in Seq(Pages)
    BY DEF DraftTypes
<1>3. PICK page : page = [token |-> session', known |-> Len(cart),
                          quiet |-> \A w \in TapWorkers : req[w] = NoTap]
    OBVIOUS
<1>4. visit' = Append(visit, page)
    BY <1>1, <1>3 DEF OpenPage
<1>5. visit'[v] = page
    BY <1>2, <1>4, Appended
<1> QED BY <1>1, <1>3, <1>5

LEMMA QuietUnheldStep ==
    ASSUME DraftTypes, DraftRefs, DNext, DraftTypes', ~revived, OldUnheld, Settled, QuietUnheld PROVE QuietUnheld'
<1> SUFFICES ASSUME NEW v \in DOMAIN visit', visit'[v].quiet,
                    NEW c \in Carts' \ {TheOrder}, c <= visit'[v].known
             PROVE  Unheld(c)'
    BY DEF QuietUnheld
<1>1. Carts = 1..Len(cart) /\ Len(cart) \in Nat /\ Carts' = 1..Len(cart')
    BY CartElements
<1>2. CASE v \in DOMAIN visit
    <2>1. visit'[v] = visit[v] /\ visit[v].known <= Len(cart) /\ visit[v] \in Pages
        BY <1>2, PagesStay, Element DEF DraftRefs, DraftTypes
    <2>2. c \in Carts
        BY <1>1, <2>1 DEF Pages
    <2>3. Unheld(c)
        BY <1>2, <2>1, <2>2 DEF QuietUnheld
    <2> QED BY <2>2, <2>3, UnheldStays
<1>3. CASE v \notin DOMAIN visit
    <2>1. visit'[v].known = Len(cart) /\ \A w \in TapWorkers : req[w] = NoTap
        BY <1>3, PageOpened
    <2>2. c \in Carts
        BY <1>1, <2>1
    <2> QED BY <2>1, <2>2, AllQuiet, UnheldStays
<1> QED BY <1>2, <1>3

\* Where the taps of a page land.
LEMMA Lands ==
    ASSUME DraftTypes, DraftRefs, DNext, DraftTypes', NEW l \in landed', l \notin landed
    PROVE  /\ l.visit \in DOMAIN visit /\ visit[l.visit] \in Pages /\ l.cart \in Carts' \ {TheOrder}
           /\ l.own => cart'[l.cart].token = visit[l.visit].token
           /\ l.cart \in Carts =>
                 \E w \in TapWorkers : req[w].step = "create" /\ req[w].token = cart[l.cart].token
           /\ visit' = visit
<1>1. PICK w \in TapWorkers : GetOrCreate(w)
    BY Zenon DEF DNext, TapStep, OpenPage, FirstTap, Tap, Takes, ReadCart, WriteCart, SaveSession, Select, Collect,
           Delete, RemoveRow, SetClient, ConfirmCart, GrowOld, Edit
<1>2. PICK token \in 1..minted + 1, c \in Nat :
              /\ token = IF req[w].token = NoToken THEN minted + 1 ELSE req[w].token
              /\ \/ /\ c \in Carts /\ c # TheOrder /\ cart[c].token = token /\ cart' = cart
                 \/ /\ c = Len(cart) + 1 /\ c # TheOrder /\ cart' = Append(cart, EmptyCart(token, "sale"))
              /\ landed' = landed \cup {[visit |-> req[w].visit, cart |-> c,
                                        own |-> req[w].token = visit[req[w].visit].token]}
    BY <1>1, Created
<1>3. /\ req[w].step = "create" /\ req[w].visit \in DOMAIN visit /\ visit' = visit
      /\ visit[req[w].visit].token \in 1..minted /\ minted \in Nat /\ visit[req[w].visit] \in Pages
    BY <1>1, Element DEF GetOrCreate, DraftRefs, Refers, DraftTypes
<1>4. l.visit = req[w].visit /\ l.cart = c /\ (l.own => req[w].token = visit[req[w].visit].token)
    <2>1. l = [visit |-> req[w].visit, cart |-> c, own |-> req[w].token = visit[req[w].visit].token]
        BY <1>2
    <2> QED BY <2>1
<1>5. cart'[c].token = token /\ c \in Carts'
    <2>1. cart \in Seq(SaleCarts)
        BY DEF DraftTypes
    <2>2. CASE cart' = cart /\ c \in Carts /\ cart[c].token = token
        BY <2>2 DEF Carts
    <2>3. CASE c = Len(cart) + 1 /\ cart' = Append(cart, EmptyCart(token, "sale"))
        <3>1. c \in DOMAIN cart' /\ cart'[c] = EmptyCart(token, "sale")
            BY <2>1, <2>3, Appended
        <3> QED BY <3>1 DEF EmptyCart, Carts
    <2> QED BY <1>2, <2>2, <2>3
<1>6. l.own => req[w].token = token
    BY <1>2, <1>3, <1>4 DEF NoToken
<1>7. c \in Carts => req[w].token = cart[c].token
    <2>1. Carts = 1..Len(cart) /\ Len(cart) \in Nat
        BY CartElements
    <2>2. c \in Carts => cart[c].token = token /\ c # TheOrder
        BY <1>2, <2>1
    <2>3. c \in Carts /\ c # TheOrder => cart[c].token <= minted
        BY DEF DraftRefs
    <2> QED BY <1>2, <1>3, <2>2, <2>3
<1> QED BY <1>2, <1>3, <1>4, <1>5, <1>6, <1>7

LEMMA LandingsStep ==
    ASSUME DraftTypes, DraftRefs, DNext, DraftTypes', DraftRefs'
    PROVE  /\ OwnLanded => OwnLanded'
           /\ QuietUnheld /\ (NewSaleIsNew \/ revived) /\ ~revived' => (NewSaleIsNew' \/ revived)
<1>1. \A l \in landed : /\ l.visit \in DOMAIN visit /\ visit'[l.visit] = visit[l.visit] /\ l.cart \in Carts
                        /\ cart'[l.cart].token = cart[l.cart].token
    BY PagesStay, CartsStay DEF DraftRefs
<1>2. ASSUME OwnLanded, NEW l \in landed', l.own PROVE cart'[l.cart].token = visit'[l.visit].token
    <2>1. CASE l \in landed
        BY <1>1, <1>2, <2>1 DEF OwnLanded
    <2>2. CASE l \notin landed
        BY <1>2, <2>2, Lands
    <2> QED BY <2>1, <2>2
<1>3. ASSUME QuietUnheld, NewSaleIsNew, ~revived, NEW l \in landed', visit'[l.visit].quiet
      PROVE  l.cart > visit'[l.visit].known
    <2>1. CASE l \in landed
        BY <1>1, <1>3, <2>1 DEF NewSaleIsNew
    <2>2. CASE l \notin landed
        <3>1. /\ l.visit \in DOMAIN visit /\ visit' = visit /\ visit[l.visit] \in Pages
              /\ l.cart \in Carts' \ {TheOrder} /\ visit[l.visit].known <= Len(cart)
              /\ l.cart \in Carts =>
                    \E w \in TapWorkers : req[w].step = "create" /\ req[w].token = cart[l.cart].token
            BY <2>2, Lands DEF DraftRefs
        <3>2. Carts = 1..Len(cart) /\ Len(cart) \in Nat /\ Carts' = 1..Len(cart') /\ Len(cart') \in Nat
            BY CartElements
        <3>3. l.cart \in Carts => ~Unheld(l.cart)
            BY <3>1 DEF Unheld
        <3>4. l.cart \in Carts => ~(l.cart <= visit[l.visit].known)
            BY <1>3, <3>1, <3>3 DEF QuietUnheld
        <3> QED BY <3>1, <3>2, <3>4 DEF Pages
    <2> QED BY <2>1, <2>2
<1>4. OwnLanded => OwnLanded'
    BY <1>2 DEF OwnLanded
<1>5. QuietUnheld /\ NewSaleIsNew /\ ~revived => NewSaleIsNew'
    BY <1>3 DEF NewSaleIsNew
<1> QED BY <1>4, <1>5

LEMMA OwnTokensStep ==
    ASSUME DraftTypes, DraftRefs, DNext, DraftTypes', DraftRefs', OwnTokens PROVE OwnTokens'
<1>1. OwnLanded'
    BY LandingsStep DEF OwnTokens
<1>2. ASSUME ~revived' PROVE ~revived
    <2>1. revived' = revived \/ \E w \in TapWorkers : SaveSession(w)
        BY Zenon DEF DNext, TapStep, OpenPage, FirstTap, Tap, Takes, GetOrCreate, ReadCart, WriteCart, Select, Collect,
               Delete, RemoveRow, SetClient, ConfirmCart, GrowOld, Edit
    <2>2. ASSUME NEW w \in TapWorkers, SaveSession(w) PROVE ~revived
        BY <1>2, <2>2 DEF SaveSession
    <2> QED BY <1>2, <2>1, <2>2
<1>3. ASSUME ~revived' PROVE AsLoaded' /\ Settled' /\ OldUnheld' /\ TokensApart' /\ QuietUnheld' /\ NewSaleIsNew'
    <2>1. ~revived /\ AsLoaded /\ Settled /\ OldUnheld /\ TokensApart /\ QuietUnheld /\ NewSaleIsNew
        BY <1>2, <1>3 DEF OwnTokens
    <2>2. AsLoaded' /\ Settled' /\ OldUnheld'
        BY <1>3, <2>1, AsLoadedStep, SettledStep, OldUnheldStep
    <2>3. TokensApart' /\ QuietUnheld' /\ NewSaleIsNew'
        BY <1>3, <2>1, TokensApartStep, QuietUnheldStep, LandingsStep
    <2> QED BY <2>2, <2>3
<1>4. ~revived' => (AsLoaded' /\ Settled' /\ OldUnheld' /\ TokensApart' /\ QuietUnheld' /\ NewSaleIsNew')
    BY <1>3
<1> QED BY <1>1, <1>4 DEF OwnTokens

DraftsInv ==
    DraftTypes /\ DraftRefs /\ WithinStock /\ FewLines /\ NeverMore /\ Exact /\ SoldIsKept /\ TokensFew /\ OwnTokens

LEMMA DraftsStep == ASSUME DraftsInv, DNext PROVE DraftsInv'
<1>1. DraftTypes /\ DraftRefs /\ WithinStock /\ FewLines /\ NeverMore /\ Exact /\ SoldIsKept /\ TokensFew /\ OwnTokens
    BY DEF DraftsInv
<1>2. DraftTypes'
    BY <1>1, DraftStepTypes
<1>3. DraftRefs'
    BY <1>1, <1>2, DraftStepRefs
<1>4. WithinStock' /\ FewLines' /\ NeverMore' /\ Exact' /\ SoldIsKept' /\ TokensFew'
    BY <1>1, <1>2, WithinStockStep, FewLinesStep, NeverMoreStep, ExactStep, SoldStep, TokensFewStep
<1>5. OwnTokens'
    BY <1>1, <1>2, <1>3, OwnTokensStep
<1> QED BY <1>2, <1>3, <1>4, <1>5 DEF DraftsInv

LEMMA DraftsStutter == ASSUME DraftsInv, UNCHANGED dvars PROVE DraftsInv'
<1>1. /\ cart' = cart /\ session' = session /\ minted' = minted /\ req' = req /\ removal' = removal
      /\ taps' = taps /\ nights' = nights /\ visit' = visit /\ landed' = landed /\ revived' = revived
      /\ overlap' = overlap
    BY DEF dvars
<1>2. DraftTypes' /\ DraftRefs' /\ WithinStock' /\ FewLines'
    BY <1>1 DEF DraftsInv, DraftTypes, DraftRefs, Refers, WithinStock, FewLines, Writes, Lines, Starting, Carts
<1>3. NeverMore' /\ Exact' /\ SoldIsKept' /\ TokensFew'
    <2>1. Creators' = Creators
        BY <1>1 DEF Creators
    <2> QED
        BY <1>1, <2>1 DEF DraftsInv, NeverMore, Marks, Exact, SoldIsKept, TokensFew, Writes, Carts
<1>4. OwnTokens'
    BY <1>1 DEF DraftsInv, OwnTokens, OwnLanded, AsLoaded, Settled, Settles, OldUnheld, Unheld, TokensApart, QuietUnheld,
                NewSaleIsNew, Carts
<1> QED BY <1>2, <1>3, <1>4 DEF DraftsInv

LEMMA DraftsStart == ASSUME DInit PROVE DraftsInv
<1> DEFINE k == EmptyCart(NoToken, "order")
<1>1. cart = <<k>> /\ Carts = {1} /\ cart[1] = k /\ Len(cart) = 1
    BY DEF DInit, Carts
<1>2. k \in SaleCarts /\ k.rows = <<>> /\ k.added = 0 /\ ~k.sold /\ k.kind = "order" /\ k.token = NoToken
      /\ k.status = "draft" /\ ~k.old
    BY DEF EmptyCart, SaleCarts, NoToken
<1> HIDE DEF k
<1>3. /\ session = NoToken /\ minted = 0 /\ req = [w \in TapWorkers |-> NoTap] /\ removal = NoTap
      /\ taps = 0 /\ visit = <<>> /\ landed = {} /\ revived = FALSE /\ overlap = {}
      /\ \A w \in TapWorkers : req[w] = NoTap
    BY DEF DInit
<1>4. NoTap.step = "idle"
    BY DEF NoTap
<1>5. DraftTypes
    <2>1. cart \in Seq(SaleCarts) /\ visit \in Seq(Pages)
        BY <1>1, <1>2, <1>3
    <2>2. req \in [TapWorkers -> Requests]
        BY <1>3 DEF Requests
    <2>3. {session, minted, taps} \subseteq Nat
        BY <1>3 DEF NoToken
    <2>4. landed \subseteq [visit : Nat, cart : Nat, own : BOOLEAN] /\ revived \in BOOLEAN
        BY <1>3
    <2> QED BY <2>1, <2>2, <2>3, <2>4 DEF DraftTypes
<1>6. DraftRefs
    BY <1>1, <1>2, <1>3, <1>4 DEF DraftRefs, Refers, TheOrder, NoToken
<1>7. \A c \in Carts : cart[c].rows = <<>> /\ cart[c].added = 0 /\ ~cart[c].sold
    BY <1>1, <1>2
<1>8. \A w \in TapWorkers, c \in Carts : ~Writes(w, c)
    BY <1>3, <1>4 DEF Writes
<1>9. WithinStock /\ SoldIsKept
    BY <1>1, <1>7 DEF WithinStock, SoldIsKept, TheOrder
<1>10. FewLines
    <2>1. \A c \in Carts : Lines(c) = {} /\ Starting(c) = {}
        BY <1>7, <1>8 DEF Lines, Starting
    <2>2. Cardinality({}) = 0 /\ Cardinality(TapWorkers) \in Nat
        BY FS_EmptySet, FS_CardinalityType, DraftsAssumption
    <2> QED BY <2>1, <2>2 DEF FewLines
<1>11. NeverMore
    <2>1. ASSUME NEW c \in Carts PROVE \E h \in [DOMAIN cart[c].rows -> Nat] : Marks(h, c)
        <3>1. PICK h \in [{} -> Nat] : TRUE
            <4>1. [x \in {} |-> 0] \in [{} -> Nat]
                OBVIOUS
            <4> QED BY <4>1
        <3>2. DOMAIN cart[c].rows = {} /\ SumOf(h, {}) = 0
            BY <1>7, SumEmpty
        <3>3. Marks(h, c)
            BY <1>7, <1>8, <3>2 DEF Marks
        <3> QED BY <3>2, <3>3
    <2> QED BY <2>1 DEF NeverMore
<1>12. Exact
    <2>1. DOMAIN <<>> = {} /\ SumOf(<<>>, {}) = 0
        BY SumEmpty
    <2>2. Quantity(<<>>) = 0
        BY <2>1, QuantitySum
    <2> QED BY <1>7, <1>8, <2>2 DEF Exact
<1>13. TokensFew
    <2>1. Creators = {}
        BY <1>3, <1>4 DEF Creators
    <2>2. Cardinality({}) = 0 /\ MaxBegun \in Nat
        BY FS_EmptySet, DraftsAssumption
    <2> QED BY <1>3, <2>1, <2>2 DEF TokensFew
<1>14. OwnTokens
    BY <1>1, <1>2, <1>3, <1>4
       DEF OwnTokens, OwnLanded, AsLoaded, Settled, OldUnheld, TokensApart, QuietUnheld, NewSaleIsNew, TheOrder
<1> QED BY <1>5, <1>6, <1>9, <1>10, <1>11, <1>12, <1>13, <1>14 DEF DraftsInv

LEMMA DraftsStand == ASSUME DraftsInv PROVE CartsAddUp
<1>1. DraftTypes /\ DraftRefs /\ WithinStock /\ FewLines /\ NeverMore /\ Exact /\ SoldIsKept /\ TokensFew /\ OwnTokens
    BY DEF DraftsInv
<1>2. DTypeOK
    <2>1. session \in 0..minted
        BY <1>1 DEF DraftTypes, DraftRefs
    <2>2. minted \in 0..MaxBegun
        <3>1. IsFiniteSet(Creators)
            <4>1. Creators \subseteq TapWorkers
                BY DEF Creators
            <4> QED BY <4>1, DraftsAssumption, FS_Subset
        <3>2. Cardinality(Creators) \in Nat /\ minted \in Nat /\ taps \in Nat /\ Len(visit) \in Nat /\ MaxBegun \in Nat
            BY <1>1, <3>1, FS_CardinalityType, DraftsAssumption DEF DraftTypes
        <3> QED BY <1>1, <3>2 DEF TokensFew
    <2>3. ASSUME NEW c \in Carts PROVE Cardinality(Lines(c)) <= Cardinality(TapWorkers)
        <3>1. IsFiniteSet(Lines(c)) /\ IsFiniteSet(Starting(c)) /\ IsFiniteSet(TapWorkers)
            <4>1. Lines(c) \subseteq DOMAIN cart[c].rows /\ Starting(c) \subseteq TapWorkers
                BY DEF Lines, Starting
            <4>2. IsFiniteSet(DOMAIN cart[c].rows) /\ IsFiniteSet(TapWorkers)
                BY <1>1, CartElements, DraftsAssumption
            <4> QED BY <4>1, <4>2, FS_Subset
        <3>2. Cardinality(Lines(c)) \in Nat /\ Cardinality(Starting(c)) \in Nat /\ Cardinality(TapWorkers) \in Nat
            BY <3>1, FS_CardinalityType
        <3> QED BY <1>1, <3>2 DEF FewLines
    <2> QED BY <1>1, <2>1, <2>2, <2>3 DEF DTypeOK, DraftRefs
<1>3. OneDraftPerVisit
    <2>1. ASSUME NEW a \in landed, NEW b \in landed, a.visit = b.visit, a.own, b.own, ~revived PROVE a.cart = b.cart
        <3>1. /\ cart[a.cart].token = visit[a.visit].token /\ cart[b.cart].token = visit[a.visit].token
            BY <1>1, <2>1 DEF OwnTokens, OwnLanded
        <3>2. a.cart \in Carts /\ b.cart \in Carts /\ visit[a.visit].token # NoToken /\ cart[TheOrder].token = NoToken
            BY <1>1 DEF DraftRefs, NoToken
        <3> QED BY <1>1, <2>1, <3>1, <3>2 DEF OwnTokens, TokensApart
    <2> QED BY <2>1 DEF OneDraftPerVisit
<1>4. NewSaleIsNew
    BY <1>1 DEF OwnTokens, NewSaleIsNew
<1>5. LinesWithinStock
    BY <1>1 DEF WithinStock, LinesWithinStock
<1>6. AddsAddUp
    <2>1. ASSUME NEW c \in Carts PROVE Quantity(cart[c].rows) <= cart[c].added
        <3>1. PICK h \in [DOMAIN cart[c].rows -> Nat] : Marks(h, c)
            BY <1>1 DEF NeverMore
        <3>2. /\ IsFiniteSet(DOMAIN cart[c].rows) /\ cart[c].added \in Int
              /\ \A i \in DOMAIN cart[c].rows : cart[c].rows[i] \in Nat
            BY <1>1, CartElements DEF SaleCarts
        <3>3. \A i \in DOMAIN cart[c].rows : cart[c].rows[i] \in Int /\ h[i] \in Int /\ cart[c].rows[i] <= h[i]
            BY <3>1, <3>2 DEF Marks
        <3>4. SumOf(cart[c].rows, DOMAIN cart[c].rows) <= SumOf(h, DOMAIN cart[c].rows)
            BY <3>2, <3>3, SumAtMost
        <3>5. SumOf(cart[c].rows, DOMAIN cart[c].rows) \in Int /\ SumOf(h, DOMAIN cart[c].rows) \in Int
            BY <3>2, <3>3, SumInt
        <3>6. SumOf(h, DOMAIN cart[c].rows) <= cart[c].added
            BY <3>1 DEF Marks
        <3>7. Quantity(cart[c].rows) = SumOf(cart[c].rows, DOMAIN cart[c].rows)
            BY QuantitySum
        <3> QED BY <3>2, <3>4, <3>5, <3>6, <3>7
    <2> QED BY <1>1, <2>1 DEF AddsAddUp, Exact
<1> QED BY <1>1, <1>2, <1>3, <1>4, <1>5, <1>6 DEF CartsAddUp

(* The till *)

TillRequests ==
    [step : {"confirm", "pay"}, form : Forms, client : BOOLEAN, adjust : Nat,
     sells : BOOLEAN, promise : Int, moved : BOOLEAN]

TillRows ==
    [form : Forms, rate : Nat, change : Int, net : Int, left : Int, promise : Int,
     sells : BOOLEAN, moved : BOOLEAN]

TillTypes ==
    /\ till \in [status : {"draft", "confirmed"}, currency : {"KGS", "USD"}, price : Prices,
                 client : BOOLEAN, totalKgs : Int]
    /\ row \in [rate : Nat, stale : BOOLEAN] /\ cached \in Nat
    /\ panel \in {NoPanel} \cup [shown : {TRUE}, form : Forms, change : Int, moved : BOOLEAN]
    /\ post \in [Tills -> {NoPost} \cup TillRequests]
    /\ rows \in Seq(TillRows)

SellsNow(w) == post[w].step = "pay" /\ post[w].sells

\* A draft has nothing paid, and nobody who would: one confirmation wins.
OneSells ==
    /\ till.status = "draft" => rows = <<>> /\ \A w \in Tills : post[w].step # "pay"
    /\ \A w \in Tills : post[w].step = "confirm" => post[w].sells
    /\ \A v, w \in Tills : SellsNow(v) /\ SellsNow(w) => v = w
    /\ \A p, q \in DOMAIN rows : rows[p].sells /\ rows[q].sells => p = q
    /\ \A w \in Tills, p \in DOMAIN rows : ~(SellsNow(w) /\ rows[p].sells)

\* What the panel shows is of the rates and of the balance there are.
PanelInForce ==
    panel.shown /\ ~panel.moved =>
        /\ row.rate = cached
        /\ panel.change = Preview(panel.form, CheckRate(panel.form), Owing).change

\* What a request was checked with, at a balance.
CheckedAt(r, balance) ==
    LET f       == r.form
        preview == Preview(f, CheckRate(f), balance)
    IN  /\ ~ConvertFails(f)
        /\ preview.excess => f.excess # "none"
        /\ RisksAt(f, CheckRate(f), FALSE) # {} => f.ack
        /\ r.adjust = (IF preview.excess THEN f.adjust ELSE 0)
        /\ r.promise >= 0 => r.promise = preview.change

\* The balance that a request was checked at: that of the draft, for who sold it.
BalanceOf(r) == IF r.sells THEN DraftBalance ELSE SaleBalance

\* A request under way for which nothing has moved is still what was checked; its
\* sale has been frozen at the rate of the check, and nobody has paid yet.
InForce(w) ==
    post[w] # NoPost /\ ~post[w].moved =>
        /\ row.rate = cached /\ post[w].client = till.client
        /\ CheckedAt(post[w], BalanceOf(post[w]))
        /\ post[w].step = "confirm" => till.status = "draft"
        /\ post[w].step = "pay" /\ post[w].sells =>
              /\ till.status = "confirmed" /\ rows = <<>>
              /\ till.totalKgs = Up(till.price * FrozenAt(till.currency))

ChecksInForce == \A w \in Tills : InForce(w)

\* What the properties say of a row.
RowKeeps(x) ==
    /\ ~x.moved => x.form.ack \/ RisksAt(x.form, x.rate, FALSE) = {}
    /\ x.form.excess = "none" /\ ~SomRate(x.form) =>
          x.left >= -(PaidWithin + 1) \/ x.net <= PaidWithin + 1
    /\ x.promise >= 0 /\ ~x.moved /\ x.form.excess = "change" /\ ~OwnRate(x.form) =>
          x.promise - x.change \in {0, Step}

RowsKeep == \A p \in DOMAIN rows : RowKeeps(rows[p])

TillInv == TillTypes /\ OneSells /\ PanelInForce /\ ChecksInForce /\ RowsKeep /\ PaymentIsKept

\* Rounding thirds of a som, and change to the step.
LEMMA Thirds ==
    ASSUME NEW x \in Nat
    PROVE  /\ Down(x) \in Nat /\ Half(x) \in Nat /\ Up(x) \in Nat
           /\ Half(x) \in {Down(x), Down(x) + 1} /\ Up(x) \in {Half(x), Half(x) + 1}
BY DEF Down, Half, Up

LEMMA WholeSoms == ASSUME NEW x \in Nat PROVE Half(x * Som) = x
BY DEF Half, Som

Floored(e) == Step * (e \div Step)

LEMMA StepTimes ==
    ASSUME NEW a \in Nat, NEW b \in Nat
    PROVE  /\ Step \in Nat /\ Step > 0 /\ Step * a \in Nat
           /\ Step * (a + 1) = Step * a + Step
           /\ a < b => Step * (a + 1) <= Step * b
<1>1. Step \in Nat /\ Step > 0
    BY CheckoutAssumption
<1>2. Step * a \in Nat /\ Step * (a + 1) = Step * a + Step
    BY <1>1
<1>3. ASSUME a < b PROVE Step * (a + 1) <= Step * b
    <2>1. PICK k \in Nat : b = a + 1 + k
        <3>1. b - a - 1 \in Nat /\ b = a + 1 + (b - a - 1)
            BY <1>3
        <3> QED BY <3>1
    <2>2. Step * b = Step * (a + 1) + Step * k /\ Step * k \in Nat
        BY <1>1, <2>1
    <2> QED BY <1>1, <1>2, <2>2
<1> QED BY <1>1, <1>2, <1>3

LEMMA Floors ==
    ASSUME NEW e \in Nat
    PROVE  /\ e \div Step \in Nat
           /\ Floored(e) \in Nat /\ Floored(e) <= e /\ e < Floored(e) + Step
<1>1. Step \in Nat /\ Step > 0
    BY CheckoutAssumption
<1>2. e \div Step \in Nat /\ Step * (e \div Step) <= e /\ e < Step * (e \div Step) + Step
    BY <1>1
<1> QED BY <1>1, <1>2, StepTimes DEF Floored

LEMMA FloorsNext ==
    ASSUME NEW e \in Nat, NEW d \in Nat, d = e \/ d = e - 1
    PROVE  Floored(e) - Floored(d) \in {0, Step}
<1> DEFINE m == e \div Step
           n == d \div Step
<1>1. m \in Nat /\ n \in Nat /\ Floored(e) = Step * m /\ Floored(d) = Step * n
    BY Floors DEF Floored
<1>2. /\ Step * m \in Nat /\ Step * m <= e /\ e < Step * m + Step
      /\ Step * n \in Nat /\ Step * n <= d /\ d < Step * n + Step
    BY <1>1, Floors
<1>3. Step \in Nat /\ Step > 0 /\ Step * (n + 1) = Step * n + Step /\ Step * (m + 1) = Step * m + Step
    BY <1>1, StepTimes
<1>4. /\ n + 1 < m => Step * (n + 1) + Step <= Step * m
      /\ m < n => Step * (m + 1) <= Step * n
    <2>1. Step * (n + 1 + 1) = Step * (n + 1) + Step
        BY <1>1, StepTimes
    <2>2. n + 1 < m => Step * (n + 1 + 1) <= Step * m
        BY <1>1, StepTimes
    <2> QED BY <1>1, <2>1, <2>2, StepTimes
<1> HIDE DEF m, n
<1>5. m = n \/ m = n + 1
    BY <1>1, <1>2, <1>3, <1>4
<1> QED BY <1>1, <1>2, <1>3, <1>5

\* What is received over what is owed.
Over(received, balance) ==
    IF balance <= 0 THEN received ELSE IF received > balance THEN received - balance ELSE 0

LEMMA PreviewIs ==
    ASSUME NEW f, NEW rate, NEW balance \in Int, InSom(f, rate) \in Nat
    PROVE  LET preview == Preview(f, rate, balance)
               over    == Over(InSom(f, rate), balance)
           IN  /\ over \in Nat /\ over <= InSom(f, rate)
               /\ preview.received = InSom(f, rate)
               /\ (preview.excess <=> over > PaidWithin)
               /\ preview.change = Floored(over)
<1> DEFINE received == InSom(f, rate)
           owed == Max({0, balance})
           rest == Max({0, received - owed})
<1>1. received \in Nat
    OBVIOUS
<1> HIDE DEF received
<1>2. owed \in Nat /\ owed = IF balance <= 0 THEN 0 ELSE balance
    BY GreaterOf
<1> HIDE DEF owed
<1>3. rest \in Nat /\ rest = IF received > owed THEN received - owed ELSE 0
    BY <1>1, <1>2, GreaterOf
<1> HIDE DEF rest
<1>4. Min({received, rest}) = rest
    BY <1>1, <1>2, <1>3, LesserOf
<1>5. rest = Over(received, balance)
    BY <1>1, <1>2, <1>3 DEF Over
<1>6. Preview(f, rate, balance) =
          [received |-> received, excess |-> rest > PaidWithin, change |-> Floored(rest)]
    BY <1>4 DEF Preview, received, rest, owed, Floored
<1>7. rest <= received
    BY <1>1, <1>2, <1>3
<1>8. Preview(f, rate, balance).excess <=> rest > PaidWithin
    <2>1. Preview(f, rate, balance).excess = (rest > PaidWithin)
        BY <1>6
    <2> QED BY <2>1, Zenon
<1>9. Preview(f, rate, balance).received = received /\ Preview(f, rate, balance).change = Floored(rest)
    BY <1>6
<1> QED BY <1>3, <1>5, <1>7, <1>8, <1>9 DEF received

\* What has been paid.
LEMMA PaidIs ==
    /\ Paid = SumOf([p \in DOMAIN rows |-> rows[p].net], DOMAIN rows)
    /\ Paid' = SumOf([p \in DOMAIN rows' |-> rows'[p].net], DOMAIN rows')
<1>1. Paid = SumOf([p \in DOMAIN rows |-> rows[p].net], DOMAIN rows)
    BY DEF Paid, SumOf, MapThenSumSet, MapThenFoldSet
<1>2. Paid' = SumOf([p \in DOMAIN rows' |-> rows'[p].net], DOMAIN rows')
    BY DEF Paid, SumOf, MapThenSumSet, MapThenFoldSet
<1> QED BY <1>1, <1>2

LEMMA PaidTypes == ASSUME TillTypes PROVE Paid \in Int /\ (rows = <<>> => Paid = 0)
<1>1. DOMAIN rows = 1..Len(rows) /\ Len(rows) \in Nat /\ \A p \in DOMAIN rows : rows[p].net \in Int
    <2>1. rows \in Seq(TillRows)
        BY DEF TillTypes
    <2>2. \A p \in DOMAIN rows : rows[p] \in TillRows
        BY <2>1
    <2> QED BY <2>1, <2>2 DEF TillRows
<1>2. IsFiniteSet(DOMAIN rows)
    BY <1>1, FS_Interval
<1> DEFINE net == [p \in DOMAIN rows |-> rows[p].net]
<1>3. \A p \in DOMAIN rows : net[p] \in Int
    BY <1>1
<1>4. rows = <<>> => DOMAIN rows = {}
    OBVIOUS
<1>5. Paid = SumOf(net, DOMAIN rows)
    BY PaidIs
<1> HIDE DEF net
<1> QED BY <1>2, <1>3, <1>4, <1>5, SumInt, SumEmpty

LEMMA TillNumbers ==
    ASSUME TillTypes
    PROVE  /\ \A c \in {"KGS", "USD"} : FrozenAt(c) \in Nat /\ FrozenAt(c) > 0
           /\ till.price * FrozenAt(till.currency) \in Nat
           /\ DraftBalance \in Nat /\ SaleBalance \in Int /\ Owing \in Int
<1>1. \A c \in {"KGS", "USD"} : FrozenAt(c) \in Nat /\ FrozenAt(c) > 0
    BY DEF TillTypes, FrozenAt, GetRate, Som
<1>2. till.price \in Nat /\ till.currency \in {"KGS", "USD"} /\ till.totalKgs \in Int
    BY CheckoutAssumption DEF TillTypes
<1>3. till.price * FrozenAt(till.currency) \in Nat
    BY <1>1, <1>2
<1>4. DraftBalance \in Nat
    BY <1>3, Thirds DEF DraftBalance
<1> QED BY <1>1, <1>2, <1>3, <1>4, PaidTypes DEF SaleBalance, Owing

LEMMA FormNumbers ==
    ASSUME TillTypes, NEW f \in Forms
    PROVE  /\ f.amount \in Nat /\ f.cur \in {"KGS", "USD"} /\ f.excess \in {"none", "change", "credit"}
           /\ f.override \in Nat /\ f.adjust \in Nat
           /\ CheckRate(f) \in Nat /\ PayRate(f) \in Nat /\ AmountKgs(f) \in Nat
           /\ \A rate \in Nat : f.amount * rate \in Nat /\ InSom(f, rate) \in Nat
<1>1. /\ f.amount \in Nat /\ f.cur \in {"KGS", "USD"} /\ f.excess \in {"none", "change", "credit"}
      /\ f.override \in Nat /\ f.adjust \in Nat
    BY CheckoutAssumption DEF FormOK
<1>2. CheckRate(f) \in Nat
    BY <1>1, TillNumbers DEF CheckRate, RateInfo, TillTypes, Som
<1>3. PayRate(f) \in Nat
    BY <1>1, TillNumbers DEF PayRate
<1>4. \A rate \in Nat : f.amount * rate \in Nat
    BY <1>1
<1>5. \A rate \in Nat : InSom(f, rate) \in Nat
    BY <1>1, <1>4, Thirds DEF InSom
<1>6. AmountKgs(f) \in Nat
    BY <1>3, <1>4, Thirds DEF AmountKgs
<1> QED BY <1>1, <1>2, <1>3, <1>4, <1>5, <1>6

\* Unless a rate is not asked for, a payment is recorded at the rate of its check.
LEMMA RateKept ==
    ASSUME TillTypes, NEW f \in Forms, row.rate = cached, ~ConvertFails(f)
    PROVE  /\ ~OwnRate(f) => PayRate(f) = CheckRate(f)
           /\ ~Same(f) => PayRate(f) = CheckRate(f)
           /\ ~(~Same(f) /\ f.override = 0 /\ RateInfo(f.cur).rate = 0)
<1>1. f.cur \in {"KGS", "USD"} /\ row.rate \in Nat
    BY FormNumbers DEF TillTypes
<1>2. ASSUME Same(f), f.override = 0 PROVE PayRate(f) = CheckRate(f)
    BY <1>2 DEF PayRate, CheckRate, Same
<1>3. ASSUME ~Same(f), f.override # 0 PROVE PayRate(f) = CheckRate(f)
    BY <1>3 DEF PayRate, CheckRate
<1>4. ASSUME ~Same(f), f.override = 0
      PROVE  PayRate(f) = CheckRate(f) /\ RateInfo(f.cur).rate # 0
    <2>1. CheckRate(f) = RateInfo(f.cur).rate /\ CheckRate(f) # 0
        BY <1>4 DEF CheckRate, ConvertFails
    <2>2. PayRate(f) = FrozenAt(f.cur)
        BY <1>4 DEF PayRate
    <2>3. RateInfo(f.cur).rate = GetRate(f.cur)
        BY <1>1 DEF RateInfo, GetRate, Som
    <2> QED BY <2>1, <2>2, <2>3 DEF FrozenAt
<1> QED BY <1>2, <1>3, <1>4 DEF OwnRate

\* The balance of a check that is in force: the same, or a som more, as the total
\* is rounded up when it is frozen.
LEMMA BalanceKept ==
    ASSUME TillTypes, OneSells, ChecksInForce, NEW w \in Tills, post[w].step = "pay", ~post[w].moved
    PROVE  /\ BalanceOf(post[w]) \in Int /\ Owing \in Int
           /\ Owing = BalanceOf(post[w]) \/ (BalanceOf(post[w]) >= 0 /\ Owing = BalanceOf(post[w]) + 1)
           /\ post[w].sells => Owing >= 0 /\ BalanceOf(post[w]) >= 0
<1>1. post[w] # NoPost
    BY DEF NoPost
<1>2. till.status = "confirmed"
    BY DEF OneSells, TillTypes
<1>3. Owing = SaleBalance /\ Owing \in Int
    BY <1>2, TillNumbers DEF Owing
<1>4. CASE ~post[w].sells
    <2>1. BalanceOf(post[w]) = SaleBalance
        BY <1>4 DEF BalanceOf
    <2> QED BY <1>3, <1>4, <2>1
<1>5. CASE post[w].sells
    <2>1. rows = <<>> /\ till.totalKgs = Up(till.price * FrozenAt(till.currency))
        BY <1>1, <1>5 DEF ChecksInForce, InForce
    <2>2. SaleBalance = Up(till.price * FrozenAt(till.currency)) - 0
        BY <2>1, PaidTypes DEF SaleBalance
    <2>3. BalanceOf(post[w]) = Half(till.price * FrozenAt(till.currency))
        BY <1>5 DEF BalanceOf, DraftBalance
    <2>4. PICK x \in Nat : x = till.price * FrozenAt(till.currency)
        BY TillNumbers
    <2>5. SaleBalance = Up(x) /\ BalanceOf(post[w]) = Half(x)
        BY <2>2, <2>3, <2>4, Thirds
    <2>6. Half(x) \in Nat /\ (Up(x) = Half(x) \/ Up(x) = Half(x) + 1)
        BY Thirds
    <2> QED BY <1>3, <2>5, <2>6
<1> QED BY <1>4, <1>5

LEMMA OverKept ==
    ASSUME NEW received \in Nat, NEW b \in Int, NEW o \in Int, o = b \/ (b >= 0 /\ o = b + 1)
    PROVE  /\ Over(received, o) \in Nat /\ Over(received, b) \in Nat
           /\ Over(received, o) = Over(received, b) \/ Over(received, o) = Over(received, b) - 1
BY DEF Over

\* What Record writes.
RowOf(r) ==
    LET preview == Preview(r.form, PayRate(r.form), Owing)
        change  == HandedBack(r.form, preview, Change(r, preview))
    IN  [form |-> r.form, rate |-> PayRate(r.form), change |-> change,
         net |-> AmountKgs(r.form) - change, left |-> Owing - AmountKgs(r.form) + change,
         promise |-> IF r.adjust = 0 THEN r.promise ELSE -1,
         sells |-> r.sells, moved |-> r.moved]

\* What the panel promises is checked against what is recorded.
LEMMA PreviewKept ==
    ASSUME TillTypes, OneSells, ChecksInForce, NEW w \in Tills, post[w].step = "pay", ~post[w].moved,
           NEW r \in TillRequests, r = post[w], ~OwnRate(r.form)
    PROVE  \E e, d \in Nat :
              LET f       == r.form
                  checked == Preview(f, CheckRate(f), BalanceOf(r))
                  filed   == Preview(f, PayRate(f), Owing)
              IN  /\ d = e \/ d = e - 1
                  /\ (checked.excess <=> e > PaidWithin) /\ checked.change = Floored(e)
                  /\ (filed.excess <=> d > PaidWithin) /\ filed.change = Floored(d)
                  /\ d <= filed.received /\ d = Over(filed.received, Owing) /\ filed.received \in Nat
<1> DEFINE f == r.form
           got == InSom(f, PayRate(f))
<1>1. f \in Forms /\ r # NoPost
    BY DEF TillRequests, NoPost
<1>2. row.rate = cached /\ ~ConvertFails(f)
    BY <1>1 DEF ChecksInForce, InForce, CheckedAt
<1>3. CheckRate(f) = PayRate(f)
    BY <1>1, <1>2, RateKept
<1>4. PayRate(f) \in Nat /\ got \in Nat
    BY <1>1, FormNumbers
<1>5. BalanceOf(r) \in Int /\ Owing \in Int /\ (Owing = BalanceOf(r) \/ (BalanceOf(r) >= 0 /\ Owing = BalanceOf(r) + 1))
    BY BalanceKept
<1>6. PICK e \in Nat : e = Over(got, BalanceOf(r))
    BY <1>4, <1>5, OverKept
<1>7. PICK d \in Nat : d = Over(got, Owing)
    BY <1>4, <1>5, OverKept
<1>8. d = e \/ d = e - 1
    BY <1>4, <1>5, <1>6, <1>7, OverKept
<1>9. /\ (Preview(f, CheckRate(f), BalanceOf(r)).excess <=> e > PaidWithin)
      /\ Preview(f, CheckRate(f), BalanceOf(r)).change = Floored(e)
    BY <1>3, <1>4, <1>5, <1>6, PreviewIs
<1>10. /\ (Preview(f, PayRate(f), Owing).excess <=> d > PaidWithin)
       /\ Preview(f, PayRate(f), Owing).change = Floored(d)
       /\ Preview(f, PayRate(f), Owing).received = got /\ d <= got
    BY <1>4, <1>5, <1>7, PreviewIs
<1> QED BY <1>4, <1>7, <1>8, <1>9, <1>10

LEMMA RowFields ==
    ASSUME TillTypes, NEW r \in TillRequests
    PROVE  LET preview == Preview(r.form, PayRate(r.form), Owing)
               x       == RowOf(r)
           IN  /\ x \in TillRows
               /\ x.form = r.form /\ x.rate = PayRate(r.form) /\ x.change = Change(r, preview)
               /\ x.net = AmountKgs(r.form) - x.change /\ x.left = Owing - x.net
               /\ x.promise = (IF r.adjust = 0 THEN r.promise ELSE -1)
               /\ x.sells = r.sells /\ x.moved = r.moved
<1> DEFINE f == r.form
           preview == Preview(f, PayRate(f), Owing)
<1>1. /\ f \in Forms /\ r.adjust \in Nat /\ r.promise \in Int
      /\ r.sells \in BOOLEAN /\ r.moved \in BOOLEAN
    BY DEF TillRequests
<1>2. PayRate(f) \in Nat /\ AmountKgs(f) \in Nat /\ Owing \in Int /\ InSom(f, PayRate(f)) \in Nat
    BY <1>1, FormNumbers, TillNumbers
<1>3. preview.change \in Int
    <2>1. preview.change = Floored(Over(InSom(f, PayRate(f)), Owing))
          /\ Over(InSom(f, PayRate(f)), Owing) \in Nat
        BY <1>2, PreviewIs
    <2> QED BY <2>1, Floors
<1> HIDE DEF f
<1> HIDE DEF preview
<1>4. PICK change \in Int : change = Change(r, preview)
    BY <1>1, <1>3 DEF Change, f
<1>5. PICK promise \in Int : promise = (IF r.adjust = 0 THEN r.promise ELSE -1)
    BY <1>1
<1>6. RowOf(r) = [form |-> f, rate |-> PayRate(f), change |-> change, net |-> AmountKgs(f) - change,
                  left |-> Owing - AmountKgs(f) + change, promise |-> promise,
                  sells |-> r.sells, moved |-> r.moved]
    BY <1>4, <1>5 DEF RowOf, HandedBack, f, preview
<1>7. RowOf(r) \in TillRows
    BY <1>1, <1>2, <1>6 DEF TillRows
<1>8. Owing - AmountKgs(f) + change = Owing - (AmountKgs(f) - change)
    BY <1>2
<1> QED BY <1>4, <1>5, <1>6, <1>7, <1>8 DEF f, preview

\* A payment that is recorded is what was shown, and what was acknowledged.
LEMMA RowRight ==
    ASSUME TillTypes, OneSells, ChecksInForce, NEW w \in Tills, NEW r \in TillRequests, r = post[w],
           r.step = "pay", Accepts(r, Preview(r.form, PayRate(r.form), Owing))
    PROVE  RowKeeps(RowOf(r))
<1> DEFINE f == r.form
           preview == Preview(f, PayRate(f), Owing)
<1>1. PICK x \in TillRows :
          /\ x.form = f /\ x.rate = PayRate(f) /\ x.change = Change(r, preview)
          /\ x.net = AmountKgs(f) - x.change /\ x.left = Owing - x.net
          /\ x.promise = (IF r.adjust = 0 THEN r.promise ELSE -1)
          /\ x.moved = r.moved /\ x = RowOf(r)
    BY RowFields
<1>2. f \in Forms /\ r # NoPost /\ r.adjust \in Nat /\ r.promise \in Int
    BY DEF TillRequests, NoPost
<1>3. ASSUME ~r.moved PROVE f.ack \/ RisksAt(f, PayRate(f), FALSE) = {}
    <2>1. row.rate = cached /\ ~ConvertFails(f) /\ (RisksAt(f, CheckRate(f), FALSE) # {} => f.ack)
        BY <1>2, <1>3 DEF ChecksInForce, InForce, CheckedAt
    <2>2. CASE Same(f)
        BY <2>2 DEF RisksAt
    <2>3. CASE ~Same(f)
        <3>1. PayRate(f) = CheckRate(f)
            BY <1>2, <2>1, <2>3, RateKept
        <3> QED BY <2>1, <3>1
    <2> QED BY <2>2, <2>3
<1>4. ASSUME f.excess = "none", ~SomRate(f)
      PROVE  x.left >= -(PaidWithin + 1) \/ x.net <= PaidWithin + 1
    <2>1. PICK rate \in Nat : rate = PayRate(f)
        BY <1>2, FormNumbers
    <2>2. PICK got \in Nat : got = InSom(f, PayRate(f))
        BY <1>2, <2>1, FormNumbers
    <2>3. x.net = AmountKgs(f) /\ AmountKgs(f) \in Nat
        <3>1. x.change = 0
            BY <1>1, <1>4 DEF Change
        <3> QED BY <1>1, <1>2, <3>1, FormNumbers
    <2>4. AmountKgs(f) \in {got, got + 1}
        <3>1. f.amount \in Nat /\ f.amount * rate \in Nat /\ f.cur \in {"KGS", "USD"}
            BY <1>2, FormNumbers
        <3>2. CASE f.cur = "KGS"
            <4>1. rate = Som
                BY <1>4, <2>1, <3>2 DEF SomRate, PayRate, FrozenAt, GetRate, Som
            <4> QED BY <2>1, <2>2, <3>1, <3>2, <4>1, WholeSoms DEF AmountKgs, InSom
        <3>3. CASE f.cur # "KGS"
            <4>1. PICK n \in Nat : n = f.amount * rate
                BY <3>1
            <4>2. got = Down(n) /\ AmountKgs(f) = Half(n)
                BY <2>1, <2>2, <3>3, <4>1 DEF AmountKgs, InSom
            <4> QED BY <4>2, Thirds
        <3> QED BY <3>2, <3>3
    <2>5. Over(got, Owing) <= PaidWithin /\ Owing \in Int /\ PaidWithin \in Nat
        <3>1. ~preview.excess
            BY <1>4 DEF Accepts
        <3>2. Owing \in Int /\ PaidWithin \in Nat
            BY TillNumbers, CheckoutAssumption
        <3>3. (preview.excess <=> Over(got, Owing) > PaidWithin) /\ Over(got, Owing) \in Nat
            BY <2>2, <3>2, PreviewIs
        <3> QED BY <3>1, <3>2, <3>3
    <2>6. PICK o \in Int : o = Owing
        BY <2>5
    <2>7. x.net \in {got, got + 1} /\ x.left = o - x.net /\ Over(got, o) <= PaidWithin
        BY <1>1, <2>3, <2>4, <2>5, <2>6
    <2> QED BY <2>5, <2>7 DEF Over
<1>5. ASSUME x.promise >= 0, ~r.moved, f.excess = "change", ~OwnRate(f)
      PROVE  x.promise - x.change \in {0, Step}
    <2>1. r.adjust = 0 /\ x.promise = r.promise /\ r.promise >= 0
        BY <1>1, <1>2, <1>5
    <2>2. x.change = preview.change
        BY <1>1, <1>5, <2>1 DEF Change
    <2>3. r.promise = Preview(f, CheckRate(f), BalanceOf(r)).change
        BY <1>2, <1>5, <2>1 DEF ChecksInForce, InForce, CheckedAt
    <2>4. PICK e, d \in Nat : /\ d = e \/ d = e - 1
                              /\ Preview(f, CheckRate(f), BalanceOf(r)).change = Floored(e)
                              /\ preview.change = Floored(d)
        BY <1>5, PreviewKept
    <2> QED BY <2>1, <2>2, <2>3, <2>4, FloorsNext
<1> HIDE DEF f, preview
<1> QED BY <1>1, <1>3, <1>4, <1>5 DEF RowKeeps

\* Whoever sold is refused only what the checks do not look at.
LEMMA RefusedFor ==
    ASSUME TillTypes, OneSells, ChecksInForce, NEW w \in Tills, NEW r \in TillRequests, r = post[w],
           r.step = "pay", r.sells, r.client,
           ~(till.client /\ Accepts(r, Preview(r.form, PayRate(r.form), Owing)))
    PROVE  r.moved \/ r.form.adjust # 0 \/ r.form.changeIn = "other" \/ OwnRate(r.form)
<1> SUFFICES ASSUME ~r.moved, r.form.adjust = 0, r.form.changeIn # "other", ~OwnRate(r.form) PROVE FALSE
    OBVIOUS
<1> DEFINE f == r.form
           preview == Preview(f, PayRate(f), Owing)
<1>1. f \in Forms /\ r # NoPost
    BY DEF TillRequests, NoPost
<1>2. f.changeIn = "KGS"
    BY <1>1, CheckoutAssumption DEF FormOK
<1>3. /\ row.rate = cached /\ r.client = till.client /\ ~ConvertFails(f)
      /\ Preview(f, CheckRate(f), BalanceOf(r)).excess => f.excess # "none"
      /\ r.adjust = 0
    BY <1>1 DEF ChecksInForce, InForce, CheckedAt
<1>4. ~(~Same(f) /\ f.override = 0 /\ RateInfo(f.cur).rate = 0)
    BY <1>1, <1>3, RateKept
<1>5. PICK e, d \in Nat :
          /\ d = e \/ d = e - 1
          /\ (Preview(f, CheckRate(f), BalanceOf(r)).excess <=> e > PaidWithin)
          /\ (preview.excess <=> d > PaidWithin) /\ preview.change = Floored(d)
          /\ d <= preview.received /\ d = Over(preview.received, Owing) /\ preview.received \in Nat
    BY PreviewKept
<1>6. PaidWithin \in Nat /\ Owing \in Int /\ Owing >= 0
    BY BalanceKept, CheckoutAssumption
<1>7. f.excess = "none" => ~preview.excess
    <2>1. d <= e
        BY <1>5
    <2> QED BY <1>3, <1>5, <1>6, <2>1
<1>8. ASSUME f.excess = "change"
      PROVE  /\ Change(r, preview) > 0 =>
                   Owing - (preview.received - Change(r, preview)) <= PaidWithin
             /\ Change(r, preview) <= preview.received
    <2>1. Change(r, preview) = Floored(d)
        BY <1>3, <1>5, <1>8 DEF Change
    <2>2. PICK c \in Nat : c = Floored(d) /\ c <= d
        BY Floors
    <2>3. PICK got \in Nat, o \in Int : got = preview.received /\ o = Owing
        BY <1>5, <1>6
    <2>4. d <= got /\ d = Over(got, o) /\ o >= 0
        BY <1>5, <1>6, <2>3
    <2>5. c > 0 => o - (got - c) <= PaidWithin
        BY <1>6, <2>2, <2>4 DEF Over
    <2>6. c <= got
        BY <2>2, <2>4
    <2> QED BY <2>1, <2>2, <2>3, <2>5, <2>6
<1>9. Accepts(r, preview)
    <2> HIDE DEF preview
    <2> QED BY <1>2, <1>4, <1>7, <1>8 DEF Accepts
<1> QED BY <1>3, <1>9

\* What is out of date is known to be, and is otherwise as it was.
LEMMA OutdatedPost ==
    ASSUME NEW r \in {NoPost} \cup TillRequests
    PROVE  /\ Outdated(r) \in {NoPost} \cup TillRequests
           /\ Outdated(r).step = r.step /\ Outdated(r).sells = r.sells
           /\ r # NoPost => Outdated(r).moved
           /\ r = NoPost => Outdated(r) = NoPost
           /\ Outdated(r) = NoPost => r = NoPost
<1>1. CASE r = NoPost
    <2>1. "moved" \notin DOMAIN r
        BY <1>1 DEF NoPost
    <2> QED BY <1>1, <2>1 DEF Outdated
<1>2. CASE r \in TillRequests
    <2>1. "moved" \in DOMAIN r /\ r.step \in {"confirm", "pay"}
        BY <1>2 DEF TillRequests
    <2>2. Outdated(r) = [r EXCEPT !.moved = TRUE]
        BY <2>1 DEF Outdated
    <2>3. PICK o \in TillRequests : o = [r EXCEPT !.moved = TRUE]
        BY <1>2 DEF TillRequests
    <2>4. o.step = r.step /\ o.sells = r.sells /\ o.moved
        BY <1>2, <2>3 DEF TillRequests
    <2>5. o # NoPost /\ r # NoPost
        BY <2>1, <2>4 DEF NoPost
    <2> QED BY <2>2, <2>3, <2>4, <2>5
<1> QED BY <1>1, <1>2

TillPanels == {NoPanel} \cup [shown : {TRUE}, form : Forms, change : Int, moved : BOOLEAN]

LEMMA OutdatedPanel ==
    ASSUME NEW r \in TillPanels
    PROVE  Outdated(r) \in TillPanels /\ ~(Outdated(r).shown /\ ~Outdated(r).moved)
<1>1. CASE r = NoPanel
    <2>1. "moved" \notin DOMAIN r /\ ~r.shown
        BY <1>1 DEF NoPanel
    <2> QED BY <1>1, <2>1 DEF Outdated, TillPanels
<1>2. CASE r \in [shown : {TRUE}, form : Forms, change : Int, moved : BOOLEAN]
    <2>1. "moved" \in DOMAIN r
        BY <1>2
    <2>2. Outdated(r) = [r EXCEPT !.moved = TRUE]
        BY <2>1 DEF Outdated
    <2>3. PICK o \in TillPanels : o = [r EXCEPT !.moved = TRUE]
        BY <1>2 DEF TillPanels
    <2>4. o.moved
        BY <1>2, <2>3
    <2> QED BY <2>2, <2>3, <2>4
<1> QED BY <1>1, <1>2 DEF TillPanels

\* What a request and the panel are made of.
LEMMA RequestFields ==
    ASSUME TillTypes, NEW f \in Forms, NEW next \in {"confirm", "pay"}
    PROVE  LET r == Request(f, next)
           IN  /\ r \in TillRequests /\ r # NoPost
               /\ r.step = next /\ r.form = f /\ r.client = till.client
               /\ r.adjust = (IF Shown(f).excess THEN f.adjust ELSE 0)
               /\ r.sells = (next = "confirm") /\ r.promise = Promise(f) /\ r.moved = RatesApart
<1>1. PICK promise \in Int : promise = Promise(f)
    <2>1. CASE panel = NoPanel
        BY <2>1 DEF NoPanel, Promise
    <2>2. CASE panel # NoPanel
        <3>1. panel.change \in Int
            BY <2>2 DEF TillTypes
        <3>2. Promise(f) \in {panel.change, -1}
            BY Zenon DEF Promise
        <3> QED BY <3>1, <3>2
    <2> QED BY <2>1, <2>2
<1>2. PICK adjust \in Nat : adjust = (IF Shown(f).excess THEN f.adjust ELSE 0)
    BY FormNumbers
<1>3. RatesApart \in BOOLEAN /\ (next = "confirm") \in BOOLEAN /\ till.client \in BOOLEAN
    BY DEF RatesApart, TillTypes
<1>4. PICK r : r = Request(f, next)
    OBVIOUS
<1>5. r = [step |-> next, form |-> f, client |-> till.client, adjust |-> adjust,
           sells |-> next = "confirm", promise |-> promise, moved |-> RatesApart]
    BY <1>1, <1>2, <1>4 DEF Request
<1>6. r \in TillRequests
    BY <1>3, <1>5 DEF TillRequests
<1>7. /\ r.step = next /\ r.form = f /\ r.client = till.client /\ r.adjust = adjust
      /\ r.sells = (next = "confirm") /\ r.promise = promise /\ r.moved = RatesApart
    BY <1>5
<1>8. r # NoPost
    BY <1>7 DEF NoPost
<1> QED BY <1>1, <1>2, <1>4, <1>6, <1>7, <1>8

LEMMA PanelFields ==
    ASSUME TillTypes, NEW f \in Forms, NEW balance \in Int
    PROVE  LET b == Body(f, Preview(f, CheckRate(f), balance))
           IN  /\ b \in TillPanels /\ b.shown /\ b.form = f /\ b.moved = RatesApart
               /\ b.change = Preview(f, CheckRate(f), balance).change
<1>1. PICK change \in Int : change = Preview(f, CheckRate(f), balance).change
    <2>1. InSom(f, CheckRate(f)) \in Nat
        BY FormNumbers
    <2>2. /\ Preview(f, CheckRate(f), balance).change = Floored(Over(InSom(f, CheckRate(f)), balance))
          /\ Over(InSom(f, CheckRate(f)), balance) \in Nat
        BY <2>1, PreviewIs
    <2> QED BY <2>2, Floors
<1>2. PICK b : b = Body(f, Preview(f, CheckRate(f), balance))
    OBVIOUS
<1>3. b = [shown |-> TRUE, form |-> f, change |-> change, moved |-> RatesApart]
    BY <1>1, <1>2 DEF Body
<1>4. RatesApart \in BOOLEAN
    BY DEF RatesApart
<1>5. b \in TillPanels /\ b.shown /\ b.form = f /\ b.moved = RatesApart /\ b.change = change
    BY <1>3, <1>4 DEF TillPanels
<1> QED BY <1>1, <1>2, <1>5

-----------------------------------------------------------------------------
\* What each step does to the requests, and what stays.
LEMMA PostTypes ==
    ASSUME TillTypes
    PROVE  /\ \A w \in Tills : post[w] \in {NoPost} \cup TillRequests
           /\ \A w \in Tills : post[w].step \in {"confirm", "pay"} => post[w] \in TillRequests /\ post[w] # NoPost
           /\ NoPost.step = "idle"
BY DEF TillTypes, NoPost

LEMMA RecordIs ==
    ASSUME NEW w \in Tills, Record(w)
    PROVE  LET r       == post[w]
               preview == Preview(r.form, PayRate(r.form), Owing)
           IN  /\ r.step = "pay" /\ UNCHANGED <<till, row, cached>>
               /\ \/ ~r.client /\ post' = [post EXCEPT ![w] = NoPost] /\ UNCHANGED <<rows, panel, unsaved>>
                  \/ /\ r.client /\ till.client /\ Accepts(r, preview)
                     /\ rows' = Append(rows, RowOf(r)) /\ panel' = Outdated(panel)
                     /\ post' = [OthersOutdated(w) EXCEPT ![w] = NoPost] /\ UNCHANGED unsaved
                  \/ /\ r.client /\ ~(till.client /\ Accepts(r, preview))
                     /\ post' = [post EXCEPT ![w] = NoPost] /\ UNCHANGED <<rows, panel>>
                     /\ unsaved' = IF r.sells THEN unsaved \cup {[form |-> r.form, moved |-> r.moved]}
                                   ELSE unsaved
BY Zenon DEF Record, RowOf

LEMMA TillTypesStep == ASSUME TillTypes, TNext PROVE TillTypes'
<1> DEFINE P == {NoPost} \cup TillRequests
<1>0. /\ post \in [Tills -> P] /\ panel \in TillPanels /\ NoPost \in P
      /\ \A u \in Tills : Outdated(post[u]) \in P
      /\ Outdated(panel) \in TillPanels
    <2>1. post \in [Tills -> P] /\ panel \in TillPanels /\ NoPost \in P
        BY DEF TillTypes, TillPanels
    <2> QED BY <2>1, OutdatedPost, OutdatedPanel
<1>1. ASSUME AllOutdated PROVE post' \in [Tills -> P] /\ panel' \in TillPanels
    BY <1>0, <1>1 DEF AllOutdated
<1>2. ASSUME NEW f \in Forms, Recalc(f) \/ DebtPayRecalc(f) PROVE TillTypes'
    <2>1. panel' \in TillPanels
        BY <1>2, PanelFields, TillNumbers DEF Recalc, DebtPayRecalc, Previews, SaleBody, DebtBody
    <2>2. UNCHANGED <<till, row, cached, post, rows>>
        BY <1>2 DEF Recalc, DebtPayRecalc, Previews
    <2> QED BY <2>1, <2>2 DEF TillTypes, TillPanels
<1>3. ASSUME NEW w \in Tills, NEW f \in Forms, SaleConfirm(w, f) \/ DebtPayConfirm(w, f) PROVE TillTypes'
    <2>1. PICK next \in {"confirm", "pay"} : post' = [post EXCEPT ![w] = Request(f, next)]
        BY <1>3 DEF SaleConfirm, DebtPayConfirm, Submits
    <2>2. Request(f, next) \in P
        BY RequestFields
    <2>3. post' \in [Tills -> P]
        BY <1>0, <2>1, <2>2
    <2>4. UNCHANGED <<till, row, cached, panel, rows>>
        BY <1>3 DEF SaleConfirm, DebtPayConfirm, Submits
    <2> QED BY <2>3, <2>4 DEF TillTypes, TillPanels
<1>4. ASSUME NEW w \in Tills, ConfirmSale(w) PROVE TillTypes'
    <2>1. post[w] \in TillRequests
        BY <1>4, PostTypes DEF ConfirmSale
    <2>2. UNCHANGED <<row, cached, rows>>
        BY <1>4 DEF ConfirmSale
    <2>3. CASE till.status = "draft"
        <3>1. /\ till' = [till EXCEPT !.status = "confirmed",
                            !.totalKgs = Up(till.price * FrozenAt(till.currency))]
              /\ post' = [OthersOutdated(w) EXCEPT ![w].step = "pay"] /\ panel' = Outdated(panel)
            BY <1>4, <2>3 DEF ConfirmSale
        <3>2. Up(till.price * FrozenAt(till.currency)) \in Int
            BY TillNumbers, Thirds
        <3>3. PICK total \in Int : total = Up(till.price * FrozenAt(till.currency))
            BY <3>2
        <3>4. till' \in [status : {"draft", "confirmed"}, currency : {"KGS", "USD"}, price : Prices,
                         client : BOOLEAN, totalKgs : Int]
            BY <3>1, <3>3 DEF TillTypes
        <3>5. post' \in [Tills -> P]
            <4>1. OthersOutdated(w) \in [Tills -> P] /\ OthersOutdated(w)[w] = post[w]
                BY <1>0 DEF OthersOutdated
            <4>2. [post[w] EXCEPT !.step = "pay"] \in P
                BY <2>1 DEF TillRequests
            <4> QED BY <3>1, <4>1, <4>2
        <3> QED BY <1>0, <2>2, <3>1, <3>4, <3>5 DEF TillTypes, TillPanels
    <2>4. CASE till.status # "draft"
        <3>1. post' = [post EXCEPT ![w] = NoPost] /\ UNCHANGED <<till, panel>>
            BY <1>4, <2>4 DEF ConfirmSale, AfterLoss
        <3> QED BY <1>0, <2>2, <3>1 DEF TillTypes
    <2> QED BY <2>3, <2>4
<1>5. ASSUME NEW w \in Tills, Record(w) PROVE TillTypes'
    <2>1. post[w] \in TillRequests /\ UNCHANGED <<till, row, cached>>
        BY <1>5, PostTypes DEF Record
    <2>2. \/ post' = [post EXCEPT ![w] = NoPost] /\ UNCHANGED <<rows, panel>>
          \/ /\ rows' = Append(rows, RowOf(post[w])) /\ panel' = Outdated(panel)
             /\ post' = [OthersOutdated(w) EXCEPT ![w] = NoPost]
        BY <1>5, RecordIs
    <2>3. PICK x \in TillRows : x = RowOf(post[w])
        BY <2>1, RowFields
    <2>4. OthersOutdated(w) \in [Tills -> P]
        BY <1>0 DEF OthersOutdated
    <2>5. post' \in [Tills -> P] /\ panel' \in TillPanels
        BY <1>0, <2>2, <2>4
    <2>6. rows' \in Seq(TillRows)
        <3>1. rows \in Seq(TillRows)
            BY DEF TillTypes
        <3> QED BY <2>2, <2>3, <3>1
    <2> QED BY <2>1, <2>5, <2>6 DEF TillTypes, TillPanels
<1>6. ASSUME \/ \E p \in Prices : SetPrice(p)
             \/ TabStores \/ RateAges \/ \E r \in RowRates : SetRowRate(r)
      PROVE  TillTypes'
    <2>1. post' \in [Tills -> P] /\ panel' \in TillPanels /\ rows' = rows
        BY <1>1, <1>6 DEF SetPrice, TabStores, RateAges, SetRowRate
    <2>2. till' \in [status : {"draft", "confirmed"}, currency : {"KGS", "USD"}, price : Prices,
                     client : BOOLEAN, totalKgs : Int]
        BY <1>6 DEF SetPrice, TabStores, RateAges, SetRowRate, TillTypes
    <2>3. row' \in [rate : Nat, stale : BOOLEAN] /\ cached' \in Nat
        <3>1. row \in [rate : Nat, stale : BOOLEAN] /\ cached \in Nat
            BY DEF TillTypes
        <3>2. CASE (\E p \in Prices : SetPrice(p)) \/ TabStores
            BY <3>1, <3>2 DEF SetPrice, TabStores
        <3>3. CASE RateAges
            BY <3>1, <3>3 DEF RateAges
        <3>4. ASSUME NEW r \in RowRates, SetRowRate(r)
              PROVE  row' \in [rate : Nat, stale : BOOLEAN] /\ cached' \in Nat
            <4>1. r \in Nat
                BY CheckoutAssumption
            <4> QED BY <3>1, <3>4, <4>1 DEF SetRowRate
        <3> QED BY <1>6, <3>2, <3>3, <3>4
    <2> QED BY <2>1, <2>2, <2>3 DEF TillTypes, TillPanels
<1>7. ASSUME TabStarts PROVE TillTypes'
    BY <1>7 DEF TabStarts, TillTypes
<1> QED BY <1>2, <1>3, <1>4, <1>5, <1>6, <1>7 DEF TNext

\* Where the currency, the rates and the payments are as they were, so are the
\* checks and the balances.
LEMMA SameRates ==
    ASSUME UNCHANGED <<row, cached>>, till'.currency = till.currency
    PROVE  /\ \A f : CheckRate(f)' = CheckRate(f) /\ (ConvertFails(f)' <=> ConvertFails(f))
           /\ \A c : FrozenAt(c)' = FrozenAt(c)
           /\ \A f, rate : RisksAt(f, rate, FALSE)' = RisksAt(f, rate, FALSE)
           /\ till'.price = till.price => DraftBalance' = DraftBalance
<1>1. \A c : GetRate(c)' = GetRate(c) /\ RateInfo(c)' = RateInfo(c) /\ FrozenAt(c)' = FrozenAt(c)
    BY DEF GetRate, RateInfo, FrozenAt
<1>3. \A f : Same(f)' <=> Same(f)
    BY DEF Same
<1>4. till'.price = till.price => DraftBalance' = DraftBalance
    BY <1>1 DEF DraftBalance
<1>5. \A f : CheckRate(f)' = CheckRate(f)
    BY <1>1, <1>3 DEF CheckRate
<1>6. \A f : ConvertFails(f)' <=> ConvertFails(f)
    BY <1>1, <1>3, <1>5 DEF ConvertFails
<1>7. \A f, rate : RisksAt(f, rate, FALSE)' = RisksAt(f, rate, FALSE)
    BY <1>3 DEF RisksAt
<1> QED BY <1>1, <1>4, <1>5, <1>6, <1>7

LEMMA SameChecks ==
    ASSUME UNCHANGED <<row, cached>>, till'.currency = till.currency, NEW r, NEW b
    PROVE  CheckedAt(r, b)' <=> CheckedAt(r, b)
BY SameRates DEF CheckedAt

LEMMA SameBalances ==
    ASSUME UNCHANGED <<till, row, cached, rows>>
    PROVE  /\ DraftBalance' = DraftBalance /\ SaleBalance' = SaleBalance /\ Owing' = Owing
           /\ \A f : CheckRate(f)' = CheckRate(f)
           /\ \A c : FrozenAt(c)' = FrozenAt(c)
<1>1. Paid' = Paid
    BY PaidIs
<1> QED BY <1>1, SameRates DEF SaleBalance, Owing

LEMMA CheckKept ==
    ASSUME UNCHANGED <<till, row, cached, rows>>, NEW w \in Tills, InForce(w), post'[w] = post[w]
    PROVE  InForce(w)'
<1> SUFFICES ASSUME post[w] # NoPost, ~post[w].moved PROVE InForce(w)'
    BY DEF InForce
<1>1. PICK r : r = post[w] /\ r = post'[w]
    OBVIOUS
<1>2. PICK b : b = BalanceOf(r) /\ b = BalanceOf(r)'
    BY SameBalances DEF BalanceOf
<1>3. CheckedAt(r, b)
    BY <1>1, <1>2 DEF InForce
<1>4. CheckedAt(r, b)'
    BY <1>3, SameChecks
<1>5. FrozenAt(till.currency)' = FrozenAt(till.currency)
    BY SameBalances
<1> QED BY <1>1, <1>2, <1>4, <1>5 DEF InForce

LEMMA CheckGone ==
    ASSUME TillTypes, NEW w \in Tills, post'[w] = Outdated(post[w]) \/ post'[w] = NoPost
    PROVE  InForce(w)'
<1>1. post'[w] = NoPost \/ post'[w].moved
    BY PostTypes, OutdatedPost
<1> QED BY <1>1 DEF InForce

LEMMA PanelKept ==
    ASSUME UNCHANGED <<till, row, cached, rows, panel>>, PanelInForce PROVE PanelInForce'
BY SameBalances DEF PanelInForce

LEMMA PanelGone ==
    ASSUME TillTypes, panel' = Outdated(panel) PROVE PanelInForce'
BY OutdatedPanel DEF PanelInForce, TillTypes, TillPanels

LEMMA SellersKept ==
    ASSUME OneSells, rows' = rows, till'.status = till.status,
           \A w \in Tills : post'[w].step = post[w].step /\ post'[w].sells = post[w].sells
    PROVE  OneSells'
BY DEF OneSells, SellsNow

LEMMA RowsKept ==
    ASSUME RowsKeep, rows' = rows, till'.currency = till.currency PROVE RowsKeep'
<1>1. \A f : (Same(f)' <=> Same(f))
    BY DEF Same
<1>2. \A f, rate : RisksAt(f, rate, FALSE)' = RisksAt(f, rate, FALSE)
    BY <1>1 DEF RisksAt
<1>3. \A f : (OwnRate(f)' <=> OwnRate(f))
    BY <1>1 DEF OwnRate
<1> QED BY <1>2, <1>3 DEF RowsKeep, RowKeeps

LEMMA RefusedKept ==
    ASSUME PaymentIsKept, unsaved' = unsaved, till'.currency = till.currency PROVE PaymentIsKept'
BY DEF PaymentIsKept, OwnRate, Same

\* Something moves: a price, a client, a rate.
LEMMA MovesStep ==
    ASSUME TillInv, TillTypes',
           \/ \E p \in Prices : SetPrice(p)
           \/ TabStores \/ RateAges \/ \E r \in RowRates : SetRowRate(r)
    PROVE  TillInv'
<1>1. AllOutdated /\ UNCHANGED <<rows, unsaved>>
    BY DEF SetPrice, TabStores, RateAges, SetRowRate
<1>2. till'.status = till.status /\ till'.currency = till.currency
    BY DEF TillInv, TillTypes, SetPrice, TabStores, RateAges, SetRowRate
<1>3. \A w \in Tills : post'[w] = Outdated(post[w])
    BY <1>1 DEF AllOutdated
<1>4. OneSells'
    <2>1. \A w \in Tills : post'[w].step = post[w].step /\ post'[w].sells = post[w].sells
        BY <1>3, PostTypes, OutdatedPost DEF TillInv
    <2> QED BY <1>1, <1>2, <2>1, SellersKept DEF TillInv
<1>5. ChecksInForce'
    BY <1>3, CheckGone DEF TillInv, ChecksInForce
<1>6. PanelInForce'
    BY <1>1, PanelGone DEF TillInv, AllOutdated
<1> QED BY <1>1, <1>2, <1>4, <1>5, <1>6, RowsKept, RefusedKept DEF TillInv

\* The panel shows another preview.
LEMMA PreviewsStep ==
    ASSUME TillInv, TillTypes', NEW f \in Forms, Recalc(f) \/ DebtPayRecalc(f) PROVE TillInv'
<1>1. UNCHANGED <<till, row, cached, post, rows, unsaved>>
    BY DEF Recalc, DebtPayRecalc, Previews
<1>2. Owing \in Int /\ panel' = Body(f, Preview(f, CheckRate(f), Owing))
    <2>1. Owing \in Int
        BY TillNumbers DEF TillInv
    <2>2. CASE Recalc(f)
        BY <2>1, <2>2 DEF Recalc, Previews, SaleBody, Owing
    <2>3. CASE DebtPayRecalc(f)
        BY <2>1, <2>3 DEF DebtPayRecalc, Previews, DebtBody, Owing
    <2> QED BY <2>2, <2>3
<1>3. PanelInForce'
    <2>1. panel'.form = f /\ panel'.moved = RatesApart
          /\ panel'.change = Preview(f, CheckRate(f), Owing).change
        BY <1>2, PanelFields DEF TillInv
    <2>2. ~panel'.moved => row.rate = cached
        BY <2>1 DEF RatesApart
    <2> QED BY <1>1, <2>1, <2>2, SameBalances DEF PanelInForce
<1>4. ChecksInForce'
    BY <1>1, CheckKept DEF TillInv, ChecksInForce
<1>5. OneSells'
    BY <1>1, SellersKept DEF TillInv
<1> QED BY <1>1, <1>3, <1>4, <1>5, RowsKept, RefusedKept DEF TillInv

\* A request that passes has been checked, and the panel's word is what it takes.
LEMMA SubmitsStep ==
    ASSUME TillInv, TillTypes', NEW w \in Tills, NEW f \in Forms,
           SaleConfirm(w, f) \/ DebtPayConfirm(w, f)
    PROVE  TillInv'
<1> USE DEF TillInv
<1>1. /\ UNCHANGED <<till, row, cached, panel, rows, unsaved>> /\ Passes(f) /\ post[w] = NoPost
    BY DEF SaleConfirm, DebtPayConfirm, Submits
<1>2. PICK next \in {"confirm", "pay"} :
          /\ post' = [post EXCEPT ![w] = Request(f, next)]
          /\ next = "confirm" => till.status = "draft"
          /\ next = "pay" => till.status = "confirmed"
    BY DEF SaleConfirm, DebtPayConfirm, Submits
<1>3. PICK r \in TillRequests :
          /\ r = Request(f, next) /\ r # NoPost
          /\ r.step = next /\ r.form = f /\ r.client = till.client
          /\ r.adjust = (IF Shown(f).excess THEN f.adjust ELSE 0)
          /\ r.sells = (next = "confirm") /\ r.promise = Promise(f) /\ r.moved = RatesApart
    BY RequestFields
<1>4. post'[w] = r /\ \A u \in Tills \ {w} : post'[u] = post[u]
    BY <1>2, <1>3 DEF TillTypes
<1>5. BalanceOf(r) = Owing
    BY <1>2, <1>3 DEF BalanceOf, Owing
<1>6. CheckedAt(r, Owing)
    <2>1. PICK p : p = Preview(f, CheckRate(f), Owing) /\ p = Shown(f)
        BY DEF Shown
    <2>2. ~ConvertFails(f) /\ (p.excess => f.excess # "none") /\ (Risks(f, p) # {} => f.ack)
        BY <1>1, <2>1 DEF Passes
    <2>3. RisksAt(f, CheckRate(f), FALSE) # {} => f.ack
        <3>1. RisksAt(f, CheckRate(f), FALSE) \subseteq Risks(f, p)
            BY DEF RisksAt, Risks
        <3> QED BY <2>2, <3>1
    <2>4. r.promise >= 0 => r.promise = p.change
        <3>1. CASE panel.shown /\ panel.form = f /\ ~panel.moved
            <4>1. r.promise = panel.change
                BY <1>3, <3>1 DEF Promise
            <4>2. panel.change = Preview(f, CheckRate(f), Owing).change
                BY <3>1 DEF PanelInForce
            <4> QED BY <2>1, <4>1, <4>2
        <3>2. CASE ~(panel.shown /\ panel.form = f /\ ~panel.moved)
            <4>1. r.promise = -1
                BY <1>3, <3>2 DEF Promise
            <4> QED BY <4>1
        <3> QED BY <3>1, <3>2
    <2> QED BY <1>3, <2>1, <2>2, <2>3, <2>4 DEF CheckedAt
<1>7. InForce(w)'
    <2>1. PICK b : b = BalanceOf(r) /\ b = BalanceOf(r)' /\ b = Owing
        BY <1>1, <1>5, SameBalances DEF BalanceOf
    <2>2. CheckedAt(r, b)'
        BY <1>1, <1>6, <2>1, SameChecks
    <2>3. ~r.moved => row.rate = cached
        BY <1>3 DEF RatesApart
    <2>4. ~(r.step = "pay" /\ r.sells)
        BY <1>3
    <2>5. r.step = "confirm" => till.status = "draft"
        BY <1>2, <1>3
    <2> QED BY <1>1, <1>3, <1>4, <2>1, <2>2, <2>3, <2>4, <2>5 DEF InForce
<1>8. ChecksInForce'
    BY <1>1, <1>4, <1>7, CheckKept DEF ChecksInForce
<1>9. OneSells'
    <2>1. \A u \in Tills : SellsNow(u)' => SellsNow(u)
        BY <1>3, <1>4 DEF SellsNow
    <2>2. \A u \in Tills : post'[u].step = "confirm" => post'[u].sells
        BY <1>3, <1>4 DEF OneSells
    <2>3. till.status = "draft" => \A u \in Tills : post'[u].step # "pay"
        BY <1>2, <1>3, <1>4 DEF OneSells
    <2> QED BY <1>1, <2>1, <2>2, <2>3 DEF OneSells
<1> QED BY <1>1, <1>8, <1>9, PanelKept, RowsKept, RefusedKept

\* The sale is frozen, or another request has done so before.
LEMMA ConfirmStep ==
    ASSUME TillInv, TillTypes', NEW w \in Tills, ConfirmSale(w) PROVE TillInv'
<1> USE DEF TillInv
<1>1. UNCHANGED <<row, cached, rows, unsaved>> /\ post[w].step = "confirm"
    BY DEF ConfirmSale
<1>2. CASE till.status # "draft"
    <2>1. post' = [post EXCEPT ![w] = NoPost] /\ UNCHANGED <<till, panel>>
        BY <1>2 DEF ConfirmSale, AfterLoss
    <2>2. post'[w] = NoPost /\ \A u \in Tills \ {w} : post'[u] = post[u]
        BY <2>1 DEF TillTypes
    <2>3. ChecksInForce'
        BY <1>1, <2>1, <2>2, CheckKept, CheckGone DEF ChecksInForce
    <2>4. OneSells'
        <3>1. \A u \in Tills : SellsNow(u)' => SellsNow(u)
            BY <2>2, PostTypes DEF SellsNow
        <3>2. \A u \in Tills : post'[u].step = "confirm" => post'[u].sells
            BY <2>2, PostTypes DEF OneSells
        <3> QED BY <1>1, <1>2, <2>1, <3>1, <3>2 DEF OneSells
    <2> QED BY <1>1, <2>1, <2>3, <2>4, PanelKept, RowsKept, RefusedKept
<1>3. CASE till.status = "draft"
    <2>1. /\ till' = [till EXCEPT !.status = "confirmed",
                        !.totalKgs = Up(till.price * FrozenAt(till.currency))]
          /\ post' = [OthersOutdated(w) EXCEPT ![w].step = "pay"] /\ panel' = Outdated(panel)
        BY <1>3 DEF ConfirmSale
    <2>2. /\ till'.status = "confirmed" /\ till'.totalKgs = Up(till.price * FrozenAt(till.currency))
          /\ till'.currency = till.currency /\ till'.price = till.price /\ till'.client = till.client
        BY <2>1 DEF TillTypes
    <2>3. PICK r \in TillRequests : r = post[w] /\ r.sells /\ r # NoPost
        BY <1>1, PostTypes DEF OneSells
    <2>4. PICK q \in TillRequests : q = [r EXCEPT !.step = "pay"]
        BY DEF TillRequests
    <2>5. /\ q.step = "pay" /\ q.form = r.form /\ q.client = r.client /\ q.adjust = r.adjust
          /\ q.sells = r.sells /\ q.promise = r.promise /\ q.moved = r.moved
        BY <2>4 DEF TillRequests
    <2>6. post'[w] = q /\ \A u \in Tills \ {w} : post'[u] = Outdated(post[u])
        BY <2>1, <2>3, <2>4 DEF OthersOutdated
    <2>7. rows = <<>> /\ \A u \in Tills : post[u].step # "pay"
        BY <1>3 DEF OneSells
    <2>8. InForce(w)'
        <3>1. CASE r.moved
            BY <2>5, <2>6, <3>1 DEF InForce
        <3>2. CASE ~r.moved
            <4>1. PICK b : b = DraftBalance /\ b = DraftBalance'
                BY <1>1, <2>2, SameRates
            <4>2. BalanceOf(r) = b /\ BalanceOf(q)' = b
                BY <2>3, <2>5, <4>1 DEF BalanceOf
            <4>3. row.rate = cached /\ r.client = till.client /\ CheckedAt(r, b)
                BY <2>3, <3>2, <4>2 DEF ChecksInForce, InForce
            <4>4. CheckedAt(q, b)
                <5>1. PICK f, p : f = r.form /\ f = q.form /\ p = Preview(f, CheckRate(f), b)
                    BY <2>5
                <5>2. /\ ~ConvertFails(f) /\ (p.excess => f.excess # "none")
                      /\ RisksAt(f, CheckRate(f), FALSE) # {} => f.ack
                      /\ r.adjust = (IF p.excess THEN f.adjust ELSE 0)
                      /\ r.promise >= 0 => r.promise = p.change
                    BY <4>3, <5>1 DEF CheckedAt
                <5> QED BY <2>5, <5>1, <5>2 DEF CheckedAt
            <4>5. CheckedAt(q, b)'
                BY <1>1, <2>2, <4>4, SameChecks
            <4>6. FrozenAt(till.currency)' = FrozenAt(till.currency)
                BY <1>1, <2>2, SameRates
            <4> QED BY <1>1, <2>2, <2>5, <2>6, <2>7, <4>2, <4>3, <4>5, <4>6 DEF InForce
        <3> QED BY <3>1, <3>2
    <2>9. ChecksInForce'
        BY <2>6, <2>8, CheckGone DEF ChecksInForce
    <2>10. OneSells'
        <3>1. \A u \in Tills \ {w} : post'[u].step = post[u].step /\ post'[u].sells = post[u].sells
            BY <2>6, PostTypes, OutdatedPost
        <3>2. \A u \in Tills : SellsNow(u)' => u = w
            BY <2>7, <3>1 DEF SellsNow
        <3>3. \A u \in Tills : post'[u].step = "confirm" => post'[u].sells
            BY <2>5, <2>6, <3>1 DEF OneSells
        <3>4. rows' = <<>> /\ DOMAIN rows' = {}
            BY <1>1, <2>7
        <3> QED BY <2>2, <3>2, <3>3, <3>4 DEF OneSells
    <2> QED BY <1>1, <2>1, <2>2, <2>9, <2>10, PanelGone, RowsKept, RefusedKept
<1> QED BY <1>2, <1>3

\* A payment is recorded, or refused.
LEMMA RecordStep ==
    ASSUME TillInv, TillTypes', NEW w \in Tills, Record(w) PROVE TillInv'
<1> USE DEF TillInv
<1>1. PICK r \in TillRequests : r = post[w] /\ r # NoPost /\ r.step = "pay"
    BY RecordIs, PostTypes
<1>2. UNCHANGED <<till, row, cached>>
    BY RecordIs
<1>3. \A u \in Tills : post'[u] = NoPost => InForce(u)'
    BY CheckGone
<1>4. CASE rows' = rows /\ panel' = panel /\ post' = [post EXCEPT ![w] = NoPost]
    <2>1. post'[w] = NoPost /\ \A u \in Tills \ {w} : post'[u] = post[u]
        BY <1>4 DEF TillTypes
    <2>2. ChecksInForce'
        BY <1>2, <1>3, <1>4, <2>1, CheckKept DEF ChecksInForce
    <2>3. OneSells'
        <3>1. \A u \in Tills : SellsNow(u)' => SellsNow(u)
            BY <2>1, PostTypes DEF SellsNow
        <3>2. \A u \in Tills : /\ post'[u].step = "confirm" => post'[u].sells
                               /\ post'[u].step = "pay" => post[u].step = "pay"
            BY <2>1, PostTypes DEF OneSells
        <3> QED BY <1>2, <1>4, <3>1, <3>2 DEF OneSells
    <2>4. PaymentIsKept'
        <3>1. CASE unsaved' = unsaved
            BY <1>2, <3>1, RefusedKept
        <3>2. CASE unsaved' # unsaved
            <4>1. PICK x : x = [form |-> r.form, moved |-> r.moved]
                OBVIOUS
            <4>2. x.form = r.form /\ x.moved = r.moved
                BY <4>1
            <4>3. /\ r.sells /\ r.client /\ unsaved' = unsaved \cup {x}
                  /\ ~(till.client /\ Accepts(r, Preview(r.form, PayRate(r.form), Owing)))
                <5>1. \/ UNCHANGED unsaved
                      \/ /\ r.client /\ ~(till.client /\ Accepts(r, Preview(r.form, PayRate(r.form), Owing)))
                         /\ unsaved' = IF r.sells THEN unsaved \cup {[form |-> r.form, moved |-> r.moved]}
                                       ELSE unsaved
                    BY <1>1, RecordIs
                <5> QED BY <3>2, <4>1, <5>1
            <4>4. x.moved \/ x.form.adjust # 0 \/ x.form.changeIn = "other" \/ OwnRate(x.form)
                BY <1>1, <4>2, <4>3, RefusedFor
            <4>5. \A f : OwnRate(f)' <=> OwnRate(f)
                BY <1>2 DEF OwnRate, Same
            <4> QED BY <4>3, <4>4, <4>5 DEF PaymentIsKept
        <3> QED BY <3>1, <3>2
    <2> QED BY <1>2, <1>4, <2>2, <2>3, <2>4, PanelKept, RowsKept
<1>5. CASE /\ Accepts(r, Preview(r.form, PayRate(r.form), Owing))
           /\ rows' = Append(rows, RowOf(r)) /\ panel' = Outdated(panel)
           /\ post' = [OthersOutdated(w) EXCEPT ![w] = NoPost] /\ UNCHANGED unsaved
    <2>1. PICK x \in TillRows : x = RowOf(r) /\ x.sells = r.sells
        BY RowFields
    <2>2. RowKeeps(x)
        BY <1>1, <1>5, <2>1, RowRight
    <2>3. post'[w] = NoPost /\ \A u \in Tills \ {w} : post'[u] = Outdated(post[u])
        BY <1>5 DEF OthersOutdated
    <2>4. PICK n \in Nat : /\ n = Len(rows) + 1 /\ DOMAIN rows' = DOMAIN rows \cup {n} /\ n \notin DOMAIN rows
                           /\ rows'[n] = x /\ \A p \in DOMAIN rows : rows'[p] = rows[p]
        <3>1. rows \in Seq(TillRows) /\ rows' = Append(rows, x)
            BY <1>5, <2>1 DEF TillTypes
        <3> QED BY <3>1
    <2>5. ChecksInForce'
        BY <2>3, CheckGone DEF ChecksInForce
    <2>6. RowsKeep'
        <3>1. \A p \in DOMAIN rows' : RowKeeps(rows'[p])
            BY <2>2, <2>4 DEF RowsKeep
        <3>2. \A f : (Same(f)' <=> Same(f)) /\ (OwnRate(f)' <=> OwnRate(f))
            BY <1>2 DEF Same, OwnRate
        <3>3. \A f, rate : RisksAt(f, rate, FALSE)' = RisksAt(f, rate, FALSE)
            BY <3>2 DEF RisksAt
        <3> QED BY <3>1, <3>2, <3>3 DEF RowsKeep, RowKeeps
    <2>7. OneSells'
        <3>1. \A u \in Tills \ {w} : post'[u].step = post[u].step /\ post'[u].sells = post[u].sells
            BY <2>3, PostTypes, OutdatedPost
        <3>2. \A u \in Tills : SellsNow(u)' => SellsNow(u) /\ u # w
            BY <2>3, <3>1, PostTypes DEF SellsNow
        <3>3. \A u \in Tills : post'[u].step = "confirm" => post'[u].sells
            BY <2>3, <3>1, PostTypes DEF OneSells
        <3>4. till'.status # "draft"
            BY <1>1, <1>2 DEF OneSells
        <3>5. r.sells <=> SellsNow(w)
            BY <1>1 DEF SellsNow
        <3>6. \A p \in DOMAIN rows' : (p = n /\ (rows'[p].sells <=> SellsNow(w)))
                                      \/ (p \in DOMAIN rows /\ rows'[p].sells = rows[p].sells)
            BY <2>1, <2>4, <3>5
        <3>7. \A p, q \in DOMAIN rows' : rows'[p].sells /\ rows'[q].sells => p = q
            BY <3>6 DEF OneSells
        <3>8. \A u \in Tills, p \in DOMAIN rows' : ~(SellsNow(u)' /\ rows'[p].sells)
            BY <3>2, <3>6 DEF OneSells
        <3>9. \A u, v \in Tills : SellsNow(u)' /\ SellsNow(v)' => u = v
            BY <3>2 DEF OneSells
        <3> QED BY <3>3, <3>4, <3>7, <3>8, <3>9 DEF OneSells
    <2> QED BY <1>2, <1>5, <2>5, <2>6, <2>7, PanelGone, RefusedKept
<1> QED BY <1>1, <1>4, <1>5, RecordIs

LEMMA TillStep == ASSUME TillInv, [TNext]_cvars PROVE TillInv'
<1>1. CASE UNCHANGED cvars
    <2>1. UNCHANGED <<till, row, cached, panel, post, rows, unsaved>>
        BY <1>1 DEF cvars
    <2>2. TillTypes'
        BY <2>1 DEF TillInv, TillTypes
    <2>3. ChecksInForce'
        BY <2>1, CheckKept DEF TillInv, ChecksInForce
    <2> QED BY <2>1, <2>2, <2>3, SellersKept, PanelKept, RowsKept, RefusedKept DEF TillInv
<1>2. CASE TNext
    <2>1. TillTypes'
        BY <1>2, TillTypesStep DEF TillInv
    <2>2. ASSUME TabStarts PROVE TillInv'
        <3>1. UNCHANGED <<till, row, cached, panel, post, rows, unsaved>>
            BY <2>2 DEF TabStarts
        <3>2. ChecksInForce'
            BY <3>1, CheckKept DEF TillInv, ChecksInForce
        <3> QED BY <2>1, <3>1, <3>2, SellersKept, PanelKept, RowsKept, RefusedKept DEF TillInv
    <2> QED BY <1>2, <2>1, <2>2, PreviewsStep, SubmitsStep, ConfirmStep, RecordStep, MovesStep DEF TNext
<1> QED BY <1>1, <1>2

LEMMA TillStart == TInit => TillInv
<1> SUFFICES ASSUME TInit PROVE TillInv
    OBVIOUS
<1>1. /\ till.status = "draft" /\ panel = NoPanel /\ post = [w \in Tills |-> NoPost]
      /\ rows = <<>> /\ DOMAIN rows = {} /\ unsaved = {}
    BY DEF TInit
<1>2. TillTypes
    <2>1. till \in [status : {"draft", "confirmed"}, currency : {"KGS", "USD"}, price : Prices,
                    client : BOOLEAN, totalKgs : Int]
        BY DEF TInit
    <2>2. row \in [rate : Nat, stale : BOOLEAN] /\ cached \in Nat
        <3>1. PICK r \in RowRates \cup {0} : row = [rate |-> r, stale |-> FALSE] /\ cached = r
            BY DEF TInit
        <3>2. r \in Nat
            BY CheckoutAssumption
        <3> QED BY <3>1, <3>2
    <2> QED BY <1>1, <2>1, <2>2 DEF TillTypes
<1>3. \A w \in Tills : post[w] = NoPost /\ post[w].step = "idle"
    BY <1>1 DEF NoPost
<1>4. OneSells
    BY <1>1, <1>3 DEF OneSells, SellsNow
<1>5. PanelInForce
    BY <1>1 DEF PanelInForce, NoPanel
<1> QED BY <1>1, <1>2, <1>3, <1>4, <1>5 DEF TillInv, ChecksInForce, InForce, RowsKeep, PaymentIsKept

LEMMA TillStands == ASSUME TillInv PROVE TillKeepsWord
<1>1. OnePaymentPerConfirm
    <2> DEFINE S == {p \in DOMAIN rows : rows[p].sells}
    <2>1. \A p, q \in S : p = q
        BY DEF TillInv, OneSells
    <2>2. CASE S = {}
        BY <2>2, FS_EmptySet DEF OnePaymentPerConfirm
    <2>3. CASE S # {}
        <3>1. PICK p : S = {p}
            BY <2>1, <2>3
        <3> QED BY <3>1, FS_Singleton DEF OnePaymentPerConfirm
    <2> QED BY <2>2, <2>3
<1>2. RisksWereAcknowledged
    BY DEF TillInv, RowsKeep, RowKeeps, RisksWereAcknowledged
<1>3. NoExcessUnasked
    BY DEF TillInv, RowsKeep, RowKeeps, NoExcessUnasked
<1>4. ChangeAsPromised
    BY DEF TillInv, RowsKeep, RowKeeps, ChangeAsPromised
<1> QED BY <1>1, <1>2, <1>3, <1>4 DEF TillInv, TillKeepsWord

-----------------------------------------------------------------------------
(* The theorems *)

avars == <<bvars, svars, kvars, dvars, cvars, nvars, focus>>

\* However many requests arrive at once, an address gets no more of them over its
\* limit in a window, and an account is guessed at no more often over its own, than
\* there are other workers; an outage of the cache lets through one per worker.
THEOREM DoorHolds == OfficeSpec => []OfficeSignIn
<1> DEFINE Inv == focus = "sign-in" => SignInInv
<1>1. OfficeInit => Inv
    BY SignInStart DEF OfficeInit
<1>2. ASSUME Inv, [OfficeNext]_avars PROVE Inv'
    <2>1. CASE focus = "sign-in"
        <3>1. SignInInv /\ [SNext]_svars /\ focus' = "sign-in"
            BY <1>2, <2>1 DEF OfficeNext, avars
        <3>2. SignInInv'
            BY <3>1, SignInStep, SignInEnvironment
        <3> QED BY <3>2
    <2>2. CASE focus # "sign-in"
        BY <1>2, <2>2 DEF OfficeNext, avars
    <2> QED BY <2>1, <2>2
<1>3. Inv => OfficeSignIn
    BY SignInStands DEF OfficeSignIn
<1> QED BY <1>1, <1>2, <1>3, PTL DEF OfficeSpec, avars

\* As long as days, and then weeks, are kept, each that had a backup still has one,
\* whatever the prunes in between; a plain dump stays only where a cycle was killed.
THEOREM CopiesAreKept == OfficeSpec => []OfficeBackups
<1> DEFINE Inv == focus = "backups" => BackupsInv
<1>1. OfficeInit => Inv
    BY BackupsStart DEF OfficeInit
<1>2. ASSUME Inv, [OfficeNext]_avars PROVE Inv'
    <2>1. CASE focus = "backups"
        <3>1. BackupsInv /\ [KNext]_kvars /\ focus' = "backups"
            BY <1>2, <2>1 DEF OfficeNext, avars
        <3>2. BackupsInv'
            BY <3>1, BackupsStep, BackupsStutter
        <3> QED BY <3>2
    <2>2. CASE focus # "backups"
        BY <1>2, <2>2 DEF OfficeNext, avars
    <2> QED BY <2>1, <2>2
<1>3. Inv => OfficeBackups
    BY BackupsStand DEF OfficeBackups
<1> QED BY <1>1, <1>2, <1>3, PTL DEF OfficeSpec, avars

\* Every entry of the list begins once for each of its times, or it is known why
\* not, and what it then reports is the day's.
THEOREM NightsAreAccounted == OfficeSpec => []OfficeNights
<1> DEFINE Inv == focus = "nightly" => NightInv
<1>1. OfficeInit => Inv
    BY NightStart DEF OfficeInit
<1>2. ASSUME Inv, [OfficeNext]_avars PROVE Inv'
    <2>1. CASE focus = "nightly"
        <3>1. NightInv /\ [NNext]_nvars /\ focus' = "nightly"
            BY <1>2, <2>1 DEF OfficeNext, avars
        <3>2. NightInv'
            BY <3>1, NightStep
        <3> QED BY <3>2
    <2>2. CASE focus # "nightly"
        BY <1>2, <2>2 DEF OfficeNext, avars
    <2> QED BY <2>1, <2>2
<1>3. Inv => OfficeNights
    BY NightStands DEF OfficeNights
<1> QED BY <1>1, <1>2, <1>3, PTL DEF OfficeSpec, avars

\* A double tap on a page makes one sale and a new sale is a new one, unless a used
\* token was stored again; no line asks for more than there is; a cart holds what was
\* added, less only if two requests added at once; and what was sold is not removed.
THEOREM CartsAreKept == OfficeSpec => []OfficeCarts
<1> DEFINE Inv == focus = "carts" => DraftsInv
<1>1. OfficeInit => Inv
    BY DraftsStart DEF OfficeInit
<1>2. ASSUME Inv, [OfficeNext]_avars PROVE Inv'
    <2>1. CASE focus = "carts"
        <3>1. DraftsInv /\ (DNext \/ UNCHANGED dvars) /\ focus' = "carts"
            BY <1>2, <2>1 DEF OfficeNext, avars
        <3>2. DraftsInv'
            BY <3>1, DraftsStep, DraftsStutter
        <3> QED BY <3>2
    <2>2. CASE focus # "carts"
        BY <1>2, <2>2 DEF OfficeNext, avars
    <2> QED BY <2>1, <2>2
<1>3. Inv => OfficeCarts
    BY DraftsStand DEF OfficeCarts
<1> QED BY <1>1, <1>2, <1>3, PTL DEF OfficeSpec, avars

\* A sale is confirmed and paid once, at what was acknowledged and with the change
\* that was promised, and a payment is refused only for what the checks before the
\* confirmation do not look at.
THEOREM TillKeeps == OfficeSpec => []OfficeTill
<1> DEFINE Inv == focus = "till" => TillInv
<1>1. OfficeInit => Inv
    BY TillStart DEF OfficeInit
<1>2. ASSUME Inv, [OfficeNext]_avars PROVE Inv'
    <2>1. CASE focus = "till"
        <3>1. TillInv /\ [TNext]_cvars /\ focus' = "till"
            BY <1>2, <2>1 DEF OfficeNext, avars
        <3>2. TillInv'
            BY <3>1, TillStep
        <3> QED BY <3>2
    <2>2. CASE focus # "till"
        BY <1>2, <2>2 DEF OfficeNext, avars
    <2> QED BY <2>1, <2>2
<1>3. Inv => OfficeTill
    BY TillStands DEF OfficeTill
<1> QED BY <1>1, <1>2, <1>3, PTL DEF OfficeSpec, avars
=============================================================================
