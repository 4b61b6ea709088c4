--------------------------------- MODULE SignIn ---------------------------------
(***************************************************************************)
(* Attempts to sign in: the limit on requests of one address, which lives  *)
(* in the cache, the lockout after failures, which lives in the database,  *)
(* and the password with its one-time code.                                *)
(*                                                                         *)
(* Workers take these steps at the same time.  When the cache is down its  *)
(* operations answer nothing instead of raising, so a probe asks first.    *)
(***************************************************************************)
EXTENDS Integers, FiniteSets, FiniteSetsExt

CONSTANTS
    Workers,       \* web workers
    Addresses,     \* addresses that requests come from
    Accounts,      \* user names
    Limit,         \* requests of an address in a window
    FailureLimit,  \* AXES_FAILURE_LIMIT
    MaxPosts,      \* bound: requests
    MaxOutages     \* bound: outages of the cache

ASSUME SignInAssumption ==
    /\ {Limit, FailureLimit} \subseteq Nat \ {0} /\ {MaxPosts, MaxOutages} \subseteq Nat
    /\ IsFiniteSet(Workers) /\ IsFiniteSet(Addresses) /\ IsFiniteSet(Accounts)

VARIABLES
    count,      \* rl:login:<address>, 0 when the key is not there
    marked,     \* rlrec:login:<address> is there
    up,         \* the cache answers
    request,    \* what each worker serves
    failures,   \* failed attempts that axes has, by address and account
    security,   \* SecurityEvent rows, counted by type
    posts, outages,
    let,        \* history: requests of an address let through in this window
    lost,       \* history: of those, counts that a late set threw away
    unseen,     \* history: requests let through while the cache was down
    guesses     \* history: wrong passwords and codes tried for an account

svars == <<count, marked, up, request, failures, security, posts, outages,
           let, lost, unseen, guesses>>

NoRequest   == [step |-> "idle"]
Events == {"auth_failure", "forbidden", "rate_limited"}
Serving(w, step)   == request[w].step = step
NextStep(w, step) == request' = [request EXCEPT ![w].step = step]
Ends(w)       == request' = [request EXCEPT ![w] = NoRequest]
Noted(type)   == security' = [security EXCEPT ![type] = @ + 1]

-----------------------------------------------------------------------------
(* check_rate_limit and is_rate_limited *)

NoProbe(w) == "get"                                                 \* mutant

\* cache_is_available: without the cache the answer is 503.
AfterProbe(w) == IF up THEN "get" ELSE "idle"

Post(w, ip, who) ==
    /\ request[w] = NoRequest /\ posts < MaxPosts
    /\ posts' = posts + 1
    /\ request' = [request EXCEPT ![w] =
                     IF AfterProbe(w) = "idle" THEN NoRequest
                     ELSE [step |-> AfterProbe(w), ip |-> ip, who |-> who]]
    /\ UNCHANGED <<count, marked, up, failures, security, outages, let, lost, unseen, guesses>>

AboveLimit(ip) == count[ip] > Limit                                 \* mutant

Full(ip) == count[ip] >= Limit

\* The count is read; a full one ends the request with 429, and the first such
\* answer in a while writes a row.
Get(w) ==
    /\ Serving(w, "get")
    /\ LET ip == request[w].ip
       IN  IF up /\ Full(ip)
           THEN /\ Ends(w)
                /\ marked' = marked \cup {ip}
                /\ IF ip \in marked THEN UNCHANGED security ELSE Noted("rate_limited")
           ELSE NextStep(w, "add") /\ UNCHANGED <<marked, security>>
    /\ UNCHANGED <<count, up, failures, posts, outages, let, lost, unseen, guesses>>

LetThrough(w, ip) ==
    /\ let' = [let EXCEPT ![ip] = @ + 1]
    /\ NextStep(w, "check")

\* add seeds a key that is not there.
AddKey(w) ==
    /\ Serving(w, "add") /\ up
    /\ LET ip == request[w].ip
       IN  IF count[ip] = 0
           THEN count' = [count EXCEPT ![ip] = 1] /\ LetThrough(w, ip)
           ELSE NextStep(w, "incr") /\ UNCHANGED <<count, let>>
    /\ UNCHANGED <<marked, up, failures, security, posts, outages, lost, unseen, guesses>>

\* incr of a key that has gone since raises ValueError.
Incr(w) ==
    /\ Serving(w, "incr") /\ up
    /\ LET ip == request[w].ip
       IN  IF count[ip] # 0
           THEN count' = [count EXCEPT ![ip] = @ + 1] /\ LetThrough(w, ip)
           ELSE NextStep(w, "set") /\ UNCHANGED <<count, let>>
    /\ UNCHANGED <<marked, up, failures, security, posts, outages, lost, unseen, guesses>>

\* The key is set, over whatever others have counted meanwhile.
SetKey(w) ==
    /\ Serving(w, "set") /\ up
    /\ LET ip == request[w].ip
       IN  /\ lost' = [lost EXCEPT ![ip] = @ + count[ip]]
           /\ count' = [count EXCEPT ![ip] = 1]
           /\ LetThrough(w, ip)
    /\ UNCHANGED <<marked, up, failures, security, posts, outages, unseen, guesses>>

\* The cache went down after the probe: every operation answers nothing.
Uncounted(w) ==
    /\ request[w].step \in {"add", "incr", "set"} /\ ~up
    /\ NextStep(w, "check")
    /\ unseen' = unseen + 1
    /\ UNCHANGED <<count, marked, up, failures, security, posts, outages, let, lost, guesses>>

-----------------------------------------------------------------------------
(* The login form *)

ByAddress(ip)  == MapThenSumSet(LAMBDA a : failures[<<ip, a>>], Accounts)
ByAccount(who) == MapThenSumSet(LAMBDA ip : failures[<<ip, who>>], Addresses)

\* axes counts by account and by address, each on its own.
LockedOut(ip, who) == ByAddress(ip) >= FailureLimit \/ ByAccount(who) >= FailureLimit

\* A lockout is PermissionDenied, for which the middleware writes a row.
Check(w) ==
    /\ Serving(w, "check")
    /\ IF LockedOut(request[w].ip, request[w].who)
       THEN Ends(w) /\ Noted("forbidden")
       ELSE NextStep(w, "verify") /\ UNCHANGED security
    /\ UNCHANGED <<count, marked, up, failures, posts, outages, let, lost, unseen, guesses>>

Sign(w) ==
    /\ Serving(w, "verify")
    /\ Ends(w)
    /\ UNCHANGED <<count, marked, up, failures, security, posts, outages, let, lost, unseen, guesses>>

PasswordOnly(what) == what = "password"                             \* mutant

\* authenticate() tells axes of a wrong password; the form itself of a wrong code.
CountsAsFailure(what) == what \in {"password", "code"}

Fail(w, what) ==
    /\ Serving(w, "verify")
    /\ LET ip == request[w].ip
           who == request[w].who
       IN  /\ guesses' = [guesses EXCEPT ![who] = @ + 1]
           /\ IF CountsAsFailure(what)
              THEN failures' = [failures EXCEPT ![<<ip, who>>] = @ + 1] /\ Noted("auth_failure")
              ELSE UNCHANGED <<failures, security>>
    /\ Ends(w)
    /\ UNCHANGED <<count, marked, up, posts, outages, let, lost, unseen>>

-----------------------------------------------------------------------------
(* Time and the cache *)

\* The window of an address ends, and so do the requests that are counted for it.
WindowEnds(ip) ==
    /\ up /\ count[ip] # 0
    /\ count' = [count EXCEPT ![ip] = 0]
    /\ let'   = [let EXCEPT ![ip] = 0]
    /\ lost'  = [lost EXCEPT ![ip] = 0]
    /\ UNCHANGED <<marked, up, request, failures, security, posts, outages, unseen, guesses>>

MarkEnds(ip) ==
    /\ up /\ ip \in marked
    /\ marked' = marked \ {ip}
    /\ UNCHANGED <<count, up, request, failures, security, posts, outages, let, lost,
                   unseen, guesses>>

CacheFails ==
    /\ up /\ outages < MaxOutages
    /\ up' = FALSE /\ outages' = outages + 1
    /\ UNCHANGED <<count, marked, request, failures, security, posts, let, lost, unseen, guesses>>

\* It comes back empty.
CacheReturns ==
    /\ ~up /\ up' = TRUE
    /\ count' = [ip \in Addresses |-> 0] /\ marked' = {}
    /\ let' = [ip \in Addresses |-> 0] /\ lost' = [ip \in Addresses |-> 0]
    /\ unseen' = 0
    /\ UNCHANGED <<request, failures, security, posts, outages, guesses>>

\* AXES_COOLOFF_TIME
CoolOff ==
    /\ \E f \in DOMAIN failures : failures[f] # 0
    /\ failures' = [f \in DOMAIN failures |-> 0]
    /\ guesses' = [a \in Accounts |-> 0]
    /\ UNCHANGED <<count, marked, up, request, security, posts, outages, let, lost, unseen>>

-----------------------------------------------------------------------------
SInit ==
    /\ count = [ip \in Addresses |-> 0] /\ marked = {} /\ up = TRUE
    /\ request = [w \in Workers |-> NoRequest]
    /\ failures = [f \in Addresses \X Accounts |-> 0]
    /\ security = [t \in Events |-> 0]
    /\ posts = 0 /\ outages = 0 /\ unseen = 0
    /\ let = [ip \in Addresses |-> 0] /\ lost = [ip \in Addresses |-> 0]
    /\ guesses = [a \in Accounts |-> 0]

PostStep(w) ==
    \/ \E ip \in Addresses, who \in Accounts : Post(w, ip, who)
    \/ Get(w) \/ AddKey(w) \/ Incr(w) \/ SetKey(w) \/ Uncounted(w)
    \/ Check(w) \/ Sign(w) \/ \E what \in {"password", "code"} : Fail(w, what)

SNext ==
    \/ \E w \in Workers : PostStep(w)
    \/ \E ip \in Addresses : WindowEnds(ip) \/ MarkEnds(ip)
    \/ CacheFails \/ CacheReturns \/ CoolOff

SSpec == SInit /\ [][SNext]_svars

-----------------------------------------------------------------------------
(* Properties *)

Others == Cardinality(Workers) - 1

\* Between reading the count and raising it the other workers may do the same: an
\* address gets that many requests over its limit in a window, and besides what
\* was lost when a worker set the key that had expired under it.
LimitHolds == \A ip \in Addresses : let[ip] - lost[ip] <= Limit + Others

\* An outage lets through what had been probed before it began: one request of a
\* worker, and no more until the cache is back.
OutageClosesDoor == unseen <= Cardinality(Workers)

\* An account is guessed at, by password or by code and from whatever address, no
\* more often than the lockout allows and the other workers had begun to.
GuessesBounded == \A a \in Accounts : guesses[a] <= FailureLimit + Others

\* The door holds against what arrives at once, an outage and many addresses.
SignInHolds == LimitHolds /\ OutageClosesDoor /\ GuessesBounded
=============================================================================
