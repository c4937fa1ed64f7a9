----------------------------- MODULE RateWindow -----------------------------
(***************************************************************************)
(* The sliding-window limiter in front of login and refresh, for one key.  *)
(* A server reads its clock, then asks: Redis, which runs the script as    *)
(* one step some time later, or, where the redis package is missing, a     *)
(* list of its own.  Times are ages: 0 is now, and RateTick makes          *)
(* everything one unit older.                                              *)
(***************************************************************************)
EXTENDS Naturals, FiniteSets

CONSTANTS RateServers,
          MaxRequests,    \* RATE_LIMIT_MAX_REQUESTS
          RateWindowLen,  \* RATE_LIMIT_WINDOW_SECONDS
          KeyBuffer,      \* what the key lives longer than the window
          MaxDelay        \* bound: a script runs at most so long after its clock was read

ASSUME RateAssumption ==
    /\ {MaxRequests, RateWindowLen} \subseteq Nat \ {0}
    /\ KeyBuffer \in Nat /\ MaxDelay \in Nat
    /\ MaxDelay <= KeyBuffer /\ MaxDelay < RateWindowLen

VARIABLES rateBackend,  \* "redis", or "memory" without the package
          rateLog,      \* per store, the requests it recorded
          rateTTL,      \* per store, what is left of the key's time to live
          rateAsked     \* per server, the age of the clock reading in flight

rateVars == <<rateBackend, rateLog, rateTTL, rateAsked>>

\* All servers share the key in Redis; without it each has a list of its own.
StoreOf(s) == IF rateBackend = "redis" THEN "shared" ELSE s

Stores == RateServers \cup {"shared"}

NoneAsked == MaxDelay + 1

\* History is kept as long as a window can look back.
Horizon == RateWindowLen + MaxDelay

-----------------------------------------------------------------------------

\* A recorded request: its member of the sorted set, its score (the age of
\* the clock reading), the age of its insertion, whether the set still holds
\* it, and, as history, whether its caller was let through.
Entry(m, asked, let) == [member |-> m, score |-> asked, age |-> 0, held |-> TRUE, let |-> let]

\* The member, which a random number makes unique.
NewMember(k) ==
    CHOOSE m \in 1 .. Cardinality(rateLog[k]) + 1 : \A e \in rateLog[k] : e.member # m

ReadClock(s) ==
    /\ rateAsked[s] = NoneAsked
    /\ rateAsked' = [rateAsked EXCEPT ![s] = 0]
    /\ UNCHANGED <<rateBackend, rateLog, rateTTL>>

\* Mutant: the window is one unit short.
KeptShort(k, asked) == {e \in rateLog[k] : e.held /\ e.score + 1 < asked + RateWindowLen}

\* What ZREMRANGEBYSCORE -inf cutoff leaves, with the cutoff of this request's
\* clock.
Kept(k, asked) == {e \in rateLog[k] : e.held /\ e.score < asked + RateWindowLen}

Full(k, asked) == Cardinality(Kept(k, asked)) >= MaxRequests

\* The log with only the given requests held; history is kept as long as a
\* window can look back.
Holding(k, kept) ==
    {[e EXCEPT !.held = e \in kept] : e \in {f \in rateLog[k] : f \in kept \/ f.age < Horizon}}

\* ZADD and EXPIRE.
Added(k, asked, let) ==
    /\ rateLog' = [rateLog EXCEPT ![k] = Holding(k, Kept(k, asked))
                                         \cup {Entry(NewMember(k), asked, let)}]
    /\ rateTTL' = [rateTTL EXCEPT ![k] = RateWindowLen + KeyBuffer]

\* The script lets the request through, and its answer arrives.
Allow(s) ==
    LET k == StoreOf(s) IN
    /\ rateAsked[s] # NoneAsked
    /\ ~Full(k, rateAsked[s])
    /\ Added(k, rateAsked[s], TRUE)
    /\ rateAsked' = [rateAsked EXCEPT ![s] = NoneAsked]
    /\ UNCHANGED rateBackend

\* Mutant: a denied request counts as well: it renews what is recorded.
DenyCounts(s) ==
    LET k == StoreOf(s) IN
    /\ rateAsked[s] # NoneAsked
    /\ Full(k, rateAsked[s])
    /\ rateLog' = [rateLog EXCEPT ![k] =
                     {[e EXCEPT !.score = rateAsked[s]] : e \in Holding(k, Kept(k, rateAsked[s]))}]
    /\ rateAsked' = [rateAsked EXCEPT ![s] = NoneAsked]
    /\ UNCHANGED <<rateBackend, rateTTL>>

\* 429: the expired entries are gone, nothing is added.
Deny(s) ==
    LET k == StoreOf(s) IN
    /\ rateAsked[s] # NoneAsked
    /\ Full(k, rateAsked[s])
    /\ rateLog' = [rateLog EXCEPT ![k] = Holding(k, Kept(k, rateAsked[s]))]
    /\ rateAsked' = [rateAsked EXCEPT ![s] = NoneAsked]
    /\ UNCHANGED <<rateBackend, rateTTL>>

\* RateLimiterUnavailable, 429 as well: Redis did not run the script, or it
\* did and the answer was lost.
Unavailable(s) ==
    LET k == StoreOf(s) IN
    /\ rateBackend = "redis"
    /\ rateAsked[s] # NoneAsked
    /\ \/ UNCHANGED <<rateLog, rateTTL>>
       \/ ~Full(k, rateAsked[s]) /\ Added(k, rateAsked[s], FALSE)
    /\ rateAsked' = [rateAsked EXCEPT ![s] = NoneAsked]
    /\ UNCHANGED rateBackend

\* The list of a server is read and written within one step of its loop.
AskMemory(s) ==
    /\ rateBackend = "memory"
    /\ rateAsked[s] = 0
    /\ Allow(s) \/ Deny(s)

AskRedis(s) ==
    /\ rateBackend = "redis"
    /\ Allow(s) \/ Deny(s) \/ Unavailable(s)

-----------------------------------------------------------------------------

\* A request as old as the horizon is out of every window: it needs no exact
\* age, and no place in the log once the set has dropped it.
Later(n) == IF n < Horizon THEN n + 1 ELSE Horizon

Aged(log, dropped) ==
    {[e EXCEPT !.score = Later(@), !.age = Later(@), !.held = @ /\ ~dropped] :
        e \in {f \in log : (f.held /\ ~dropped) \/ f.age + 1 < Horizon}}

\* A key without time to live left is dropped by Redis.  The clock of a
\* request in flight is read at most MaxDelay ago.
RateTick ==
    /\ \A s \in RateServers : rateAsked[s] \in {NoneAsked} \cup 0 .. MaxDelay - 1
    /\ rateBackend = "memory" => \A s \in RateServers : rateAsked[s] = NoneAsked
    /\ rateTTL' = [k \in Stores |-> IF rateTTL[k] = 0 THEN 0 ELSE rateTTL[k] - 1]
    /\ rateLog' = [k \in Stores |->
                     Aged(rateLog[k], rateBackend = "redis" /\ rateTTL'[k] = 0)]
    /\ rateAsked' = [s \in RateServers |->
                       IF rateAsked[s] = NoneAsked THEN NoneAsked ELSE rateAsked[s] + 1]
    /\ UNCHANGED rateBackend

RateInit ==
    /\ rateBackend \in {"redis", "memory"}
    /\ rateLog = [k \in Stores |-> {}]
    /\ rateTTL = [k \in Stores |-> 0]
    /\ rateAsked = [s \in RateServers |-> NoneAsked]

RateNext ==
    \/ \E s \in RateServers : ReadClock(s) \/ AskRedis(s) \/ AskMemory(s)
    \/ RateTick

RateSpec == RateInit /\ [][RateNext]_rateVars

-----------------------------------------------------------------------------
(* Properties                                                               *)

\* What the limit means for a key: no window holds more than MaxRequests
\* admitted requests.  With Redis the window is shorter by the time that can
\* pass between a server's clock reading and the script (is_allowed reads the
\* clock first), because the script trusts the caller's clock.
RateBounded ==
    \A k \in Stores :
      LET window == IF rateBackend = "redis" THEN RateWindowLen - MaxDelay ELSE RateWindowLen
      IN  Cardinality({e \in rateLog[k] : e.let /\ e.age < window}) <= MaxRequests

\* Nobody is locked out by being refused: a denial has MaxRequests insertions
\* of the last window (and delay) behind it, since a refused request is not
\* recorded.
DenialJustified ==
    \A s \in RateServers :
        Deny(s) => Cardinality({e \in rateLog[StoreOf(s)] : e.age < Horizon}) >= MaxRequests

\* is_allowed admits no more than the limit and denies no earlier.
LimitKept == [][RateBounded' /\ DenialJustified]_rateVars

=============================================================================
