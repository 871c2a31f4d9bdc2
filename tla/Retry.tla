------------------------------- MODULE Retry -------------------------------
(***************************************************************************)
(* One call of Retry (internal/service/resilience.go): the attempts of a   *)
(* function under a context, with waits that grow in between.              *)
(* PaymentService has the attempts of a bank call in context; this module  *)
(* has the configuration, the waits and the cancellation.                  *)
(*                                                                         *)
(* A duration is an integer, up to MaxDuration (2^63 - 1 nanoseconds).     *)
(***************************************************************************)
EXTENDS Integers, FiniteSetsExt

CONSTANTS
    Configs,        \* RetryConfigs: attempts, base, max, jitter
    DefaultBase,    \* 50 ms
    DefaultMax,     \* 1 s
    MaxDuration

Durations == (-MaxDuration - 1)..MaxDuration

ASSUME ConfigsAssumption ==
    Configs \subseteq [attempts : Int, base : Durations, max : Durations, jitter : Durations]
ASSUME DurationAssumption ==
    MaxDuration \in Nat /\ DefaultBase \in 1..MaxDuration /\ DefaultMax \in 1..MaxDuration

(* Results of the function: none yet, success, an error that ShouldRetry   *)
(* accepts or refuses; "ctx" is the error of the context.                  *)
Results == {"nil", "transient", "final"}

VARIABLES
    cfg,        \* the configuration
    attempt,    \* the loop variable
    pc,         \* where the loop is
    lastErr,    \* the result of the last call
    calls,      \* calls made
    late,       \* calls begun after the cancellation
    wait,       \* the last wait, 0 before the first
    canceled,   \* the context is done
    result      \* what Retry returned

vars == <<cfg, attempt, pc, lastErr, calls, late, wait, canceled, result>>

(* Mutant of MaxAttempts: no default.                                      *)
MaxAttemptsUnchecked == cfg.attempts

(* The defaults.                                                           *)
MaxAttempts == IF cfg.attempts <= 0 THEN 1 ELSE cfg.attempts
BaseDelay == IF cfg.base <= 0 THEN DefaultBase ELSE cfg.base
MaxDelay == IF cfg.max <= 0 THEN DefaultMax ELSE cfg.max

TypeOK ==
    /\ cfg \in Configs
    /\ attempt \in 1..(MaxAttempts + 1)
    /\ pc \in {"check", "call", "sleep", "returned"}
    /\ lastErr \in Results
    /\ calls \in 0..MaxAttempts /\ late \in 0..calls
    /\ wait \in Int
    /\ canceled \in BOOLEAN
    /\ result \in Results \cup {"none", "ctx"}

Init ==
    /\ cfg \in Configs
    /\ attempt = 1
    /\ pc = "check"
    /\ lastErr = "nil"
    /\ calls = 0 /\ late = 0
    /\ wait = 0
    /\ canceled = FALSE
    /\ result = "none"

-----------------------------------------------------------------------------
Return(r) ==
    /\ result' = r
    /\ pc' = "returned"

(* Mutant of Done: the context is not looked at between attempts.          *)
DoneIgnored == FALSE

Done == canceled

(* The loop's condition, and the check of the context.                     *)
Check ==
    /\ pc = "check"
    /\ \/ /\ attempt > MaxAttempts
          /\ Return(lastErr)
       \/ /\ attempt <= MaxAttempts /\ Done
          /\ Return("ctx")
       \/ /\ attempt <= MaxAttempts /\ ~Done
          /\ pc' = "call"
          /\ UNCHANGED result
    /\ UNCHANGED <<cfg, attempt, lastErr, calls, late, wait, canceled>>

(* float64(base) * Pow2[attempt - 1] as a Duration.  Beyond its range the  *)
(* conversion is up to the build: the smallest value or the largest.       *)
Converted(d) == IF d <= MaxDuration THEN {d} ELSE {-MaxDuration - 1, MaxDuration}

(* math.Pow(2, n).                                                         *)
Pow2[n \in Nat] == IF n = 0 THEN 1 ELSE 2 * Pow2[n - 1]

(* Mutant of Exponential: it grows by a constant.                          *)
Linear == BaseDelay * attempt

Exponential == BaseDelay * Pow2[attempt - 1]

(* The sum of two Durations wraps.                                         *)
Plus(a, b) == IF a + b > MaxDuration THEN a + b - 2 * (MaxDuration + 1) ELSE a + b

(* retryDelay: capped, and the jitter on top.                              *)
RetryDelay(delay) ==
    \E d \in Converted(Exponential),
       j \in IF cfg.jitter <= 0 THEN {0} ELSE 0..(cfg.jitter - 1) :
          delay = Plus(Min({d, MaxDelay}), j)

GiveUp(err) == attempt = MaxAttempts \/ err = "final"

(* The function is called and returns: success, the end of the attempts,   *)
(* or a wait.                                                              *)
Call ==
    /\ pc = "call"
    /\ calls' = calls + 1
    /\ late' = IF canceled THEN late + 1 ELSE late
    /\ \E err \in Results :
          /\ lastErr' = err
          /\ \/ /\ err = "nil" \/ GiveUp(err)
                /\ Return(err)
                /\ UNCHANGED wait
             \/ /\ err # "nil" /\ ~GiveUp(err)
                /\ RetryDelay(wait')
                /\ pc' = "sleep"
                /\ UNCHANGED result
    /\ UNCHANGED <<cfg, attempt, canceled>>

(* The timer fires, also when the context is done by then.                 *)
Wake ==
    /\ pc = "sleep"
    /\ attempt' = attempt + 1
    /\ pc' = "check"
    /\ UNCHANGED <<cfg, lastErr, calls, late, wait, canceled, result>>

(* The context ends the wait.                                              *)
Interrupt ==
    /\ pc = "sleep" /\ canceled
    /\ Return("ctx")
    /\ UNCHANGED <<cfg, attempt, lastErr, calls, late, wait, canceled>>

Cancel ==
    /\ ~canceled /\ pc # "returned"
    /\ canceled' = TRUE
    /\ UNCHANGED <<cfg, attempt, pc, lastErr, calls, late, wait, result>>

Next == Check \/ Call \/ Wake \/ Interrupt \/ Cancel

Spec == Init /\ [][Next]_vars

-----------------------------------------------------------------------------
(* Whatever the configuration, Retry returns what the last call returned,  *)
(* or the error of a context that is done: no success without a call that  *)
(* succeeded, and an error worth another attempt only after all of them.   *)
ResultIsTrue ==
    /\ result = "ctx" => canceled
    /\ result \in Results => calls > 0 /\ result = lastErr
    /\ result = "transient" => calls = MaxAttempts

(* After the cancellation one call at most is begun: the one whose check   *)
(* of the context came before.                                             *)
OneLateCall == late <= 1

(* Neither the exponential nor the sum with the jitter overflows.          *)
InRange == Exponential <= MaxDuration /\ MaxDelay + Max({cfg.jitter, 0}) <= MaxDuration

(* Waits back off and do not collapse while durations are in range: none   *)
(* is shorter than MaxDelay or twice the wait before it without its        *)
(* jitter, whichever is smaller.  None is ever longer than MaxDelay and    *)
(* the jitter, in range or not.                                            *)
WaitsGrow ==
    [][pc' = "sleep" /\ pc # "sleep" =>
          /\ InRange =>
                wait' >= Min({MaxDelay, Max({BaseDelay, 2 * (wait - Max({cfg.jitter, 0}))})})
          /\ wait' <= MaxDelay + Max({cfg.jitter, 0})]_vars
=============================================================================
