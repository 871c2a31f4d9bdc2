---------------------------- MODULE RateLimiter ----------------------------
(***************************************************************************)
(* The token buckets that limit each client's requests: in memory          *)
(* (RateLimiter in internal/middleware/middleware.go, and TokenBucket in   *)
(* internal/concurrency/patterns.go, which is the same with one bucket),   *)
(* or shared by all servers in Redis (redis_rate_limiter.go and            *)
(* rate_limit.lua).  Every decision is one step: under the mutex, or one   *)
(* script.                                                                 *)
(*                                                                         *)
(* Time is counted in ticks and tokens in fractions, Second of each to a   *)
(* second and to a token, so that a tick refills Rate fractions.  Go's     *)
(* monotonic clock only ticks.  Redis' TIME is a wall clock that may also  *)
(* be set; travel counts how far the clock has moved forward in all.       *)
(***************************************************************************)
EXTENDS Integers

CONSTANTS
    Clients,   \* client IDs
    Configs,   \* configurations: in Redis or not, tokens per second, burst
    Second,    \* ticks to a second, fractions to a token
    TTL,       \* ticks after which Redis drops an unused bucket
    MaxTravel, \* bound on the time that passes
    MaxWipes   \* bound on the buckets lost early in a window

(* Config checks neither the rate nor the burst.                           *)
ASSUME ConfigsAssumption == Configs \subseteq [shared : BOOLEAN, rate : Int, burst : Int]
ASSUME LimitsAssumption ==
    /\ Second \in Nat \ {0}
    /\ TTL \in Nat \ {0}
    /\ MaxTravel \in Nat
    /\ MaxWipes \in Nat

VARIABLES
    cfg,       \* the configuration
    now,       \* the clock
    travel,    \* distance the clock has moved forward so far
    clockSet,  \* the clock was set at least once
    bucket,    \* tokens and time of the last decision, per client
    from,      \* start of the observed window: travel at that moment
    admitted,  \* requests admitted by the limiter in the window
    expired,   \* times in the window that a bucket expired and was not full
    wiped,     \* times in the window that a bucket was lost before that
    since      \* time of the first of the current run of refusals, or Never

clockVars  == <<now, travel, clockSet>>
windowVars == <<from, admitted, expired, wiped>>
vars       == <<cfg, clockVars, bucket, windowVars, since>>

Shared == cfg.shared
Rate   == cfg.rate
Full   == cfg.burst * Second
Never  == -1
Absent == [tokens |-> 0, last |-> Never]

AtLeast0(n) == IF n > 0 THEN n ELSE 0

TypeOK ==
    /\ cfg \in Configs
    /\ now \in Nat
    /\ travel \in 0 .. MaxTravel
    /\ clockSet \in BOOLEAN
    /\ bucket \in [Clients -> [tokens : Int, last : Nat \cup {Never}]]
    /\ \A k \in Clients : bucket[k].tokens <= AtLeast0(Full)
    /\ from \in [Clients -> 0 .. MaxTravel]
    /\ admitted \in [Clients -> Nat]
    /\ expired \in [Clients -> Nat]
    /\ wiped \in [Clients -> 0 .. MaxWipes]
    /\ since \in [Clients -> Nat \cup {Never}]

Init ==
    /\ cfg \in Configs
    /\ now = 0
    /\ travel = 0
    /\ clockSet = FALSE
    /\ bucket = [k \in Clients |-> Absent]
    /\ from = [k \in Clients |-> 0]
    /\ admitted = [k \in Clients |-> 0]
    /\ expired = [k \in Clients |-> 0]
    /\ wiped = [k \in Clients |-> 0]
    /\ since = [k \in Clients |-> Never]

-----------------------------------------------------------------------------
Elapsed(k) == now - bucket[k].last

(* Mutant of NoBucket: Redis drops buckets too early.                      *)
NoBucketEarly(k) == bucket[k].last = Never \/ (Shared /\ Elapsed(k) >= TTL \div 2)

(* No bucket yet, or its time to live is over: EXPIRE counts from the last *)
(* decision on the clock that TIME reads.                                  *)
NoBucket(k) == bucket[k].last = Never \/ (Shared /\ Elapsed(k) >= TTL)

Capped(tokens) == IF tokens > Full THEN Full ELSE tokens

(* Refilled by the time elapsed, if any.                                   *)
Refill(tokens, elapsed) ==
    Capped(tokens + IF elapsed > 0 THEN elapsed * Rate ELSE 0)

(* Mutant of Refilled: fractions of a token are lost.                      *)
RefilledWhole(k) ==
    IF NoBucket(k) THEN Full
    ELSE Second * (Refill(bucket[k].tokens, Elapsed(k)) \div Second)

(* Tokens in the bucket at the time of the decision.                       *)
Refilled(k) ==
    IF NoBucket(k) THEN Full ELSE Refill(bucket[k].tokens, Elapsed(k))

Enough(tokens) == tokens >= Second

(* The bucket after the decision; a refused request sets the time too.     *)
Decided(k) ==
    [tokens |-> IF Enough(Refilled(k)) THEN Refilled(k) - Second ELSE Refilled(k),
     last   |-> now]

(* The client gains when its bucket goes: it would not be full by now.     *)
GainsByLoss(k) ==
    /\ bucket[k].last # Never /\ Full > 0
    /\ Refill(bucket[k].tokens, Elapsed(k)) < Full

(* One run of the limiter's code, and what an observer notes of it.        *)
Decide(k) ==
    /\ bucket' = [bucket EXCEPT ![k] = Decided(k)]
    /\ expired' = IF NoBucket(k) /\ GainsByLoss(k)
                  THEN [expired EXCEPT ![k] = @ + 1] ELSE expired

(* The run of refusals ends, begins or goes on.                            *)
NoteRefusal(k) ==
    since' = [since EXCEPT ![k] = IF Enough(Refilled(k)) THEN Never
                                  ELSE IF @ = Never THEN now ELSE @]

(* Allow, and RateLimit, which answers 429 if it refuses.                  *)
Allow(k) ==
    /\ Decide(k)
    /\ NoteRefusal(k)
    /\ admitted' = IF Enough(Refilled(k)) THEN [admitted EXCEPT ![k] = @ + 1] ELSE admitted
    /\ UNCHANGED <<cfg, clockVars, from, wiped>>

(* The script's reply is lost and the client library runs it again.        *)
Resend(k) ==
    /\ Shared
    /\ Decide(k)
    /\ NoteRefusal(k)
    /\ UNCHANGED <<cfg, clockVars, from, admitted, wiped>>

(* Redis fails, before or after it ran the script: the request passes.     *)
FailOpen(k) ==
    /\ Shared
    /\ Decide(k) \/ UNCHANGED <<bucket, expired>>
    /\ since' = [since EXCEPT ![k] = Never]
    /\ UNCHANGED <<cfg, clockVars, from, admitted, wiped>>

-----------------------------------------------------------------------------
Tick ==
    /\ travel < MaxTravel
    /\ now' = now + 1
    /\ travel' = travel + 1
    /\ UNCHANGED <<cfg, clockSet, bucket, windowVars, since>>

(* The wall clock is set, forward or back.                                 *)
SetClock(t) ==
    /\ Shared
    /\ t > now => travel + (t - now) <= MaxTravel
    /\ now' = t
    /\ travel' = IF t > now THEN travel + (t - now) ELSE travel
    /\ clockSet' = TRUE
    /\ UNCHANGED <<cfg, bucket, windowVars, since>>

(* Redis deletes an expired bucket that nobody has asked for.              *)
Drop(k) ==
    /\ bucket[k].last # Never
    /\ NoBucket(k)
    /\ bucket' = [bucket EXCEPT ![k] = Absent]
    /\ expired' = IF GainsByLoss(k) THEN [expired EXCEPT ![k] = @ + 1] ELSE expired
    /\ UNCHANGED <<cfg, clockVars, from, admitted, wiped, since>>

(* A bucket is lost before its time: Redis restarts or evicts it, or the   *)
(* server that holds it in memory restarts.                                *)
Wipe(k) ==
    /\ ~NoBucket(k)
    /\ wiped[k] < MaxWipes
    /\ bucket' = [bucket EXCEPT ![k] = Absent]
    /\ wiped' = [wiped EXCEPT ![k] = @ + 1]
    /\ UNCHANGED <<cfg, clockVars, from, admitted, expired, since>>

(* An observer starts to count.                                            *)
StartWindow(k) ==
    /\ from' = [from EXCEPT ![k] = travel]
    /\ admitted' = [admitted EXCEPT ![k] = 0]
    /\ expired' = [expired EXCEPT ![k] = 0]
    /\ wiped' = [wiped EXCEPT ![k] = 0]
    /\ UNCHANGED <<cfg, clockVars, bucket, since>>

Next ==
    \/ \E k \in Clients : Allow(k) \/ Resend(k) \/ FailOpen(k)
    \/ \E k \in Clients : Drop(k) \/ Wipe(k) \/ StartWindow(k)
    \/ Tick
    \/ \E t \in 0 .. MaxTravel : SetClock(t)

Spec == Init /\ [][Next]_vars

-----------------------------------------------------------------------------
(* In any stretch of time the limiter admits at most a burst, what the     *)
(* rate allows for that time, and a burst more for every bucket lost in    *)
(* it, although refills are computed lazily, capped and kept in fractions. *)
(* An expired bucket counts as lost only in Redis, where a bucket takes    *)
(* longer to fill than its time to live, and once per TTL; the first of    *)
(* them may have been due when the window began.  If the wall clock is set *)
(* forward it counts as time.                                              *)
WindowBounded ==
    \A k \in Clients :
        /\ admitted[k] * Second <=
              AtLeast0(Full) * (1 + expired[k] + wiped[k])
                  + AtLeast0(Rate) * (travel - from[k])
        /\ expired[k] > 0 => Shared /\ Rate * TTL < Full
        /\ expired[k] * TTL <= TTL + (travel - from[k])

(* A client that keeps asking is not refused for longer than one token     *)
(* takes, because refused requests lose no fraction of a token; unless the *)
(* clock is set back, or the bucket is too small for a token.              *)
RefusalsEnd ==
    \A k \in Clients :
        since[k] # Never /\ ~clockSet /\ Full > 0
            => (bucket[k].last - since[k]) * AtLeast0(Rate) < Second
=============================================================================
