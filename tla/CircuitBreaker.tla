--------------------------- MODULE CircuitBreaker ---------------------------
(***************************************************************************)
(* The circuit breaker around the bank client, internal/service/           *)
(* resilience.go.  Callers are the handlers that share one breaker; each   *)
(* calls Execute again and again.  beforeRequest, afterRequest and State   *)
(* hold the mutex, so each is one step; the bank call runs between them    *)
(* without it, and other callers' steps interleave with it.                *)
(*                                                                         *)
(* Time enters only through time.Since(openedAt) >= resetTimeout, which is *)
(* the variable cooled: FALSE when openedAt is set, TRUE some time later.  *)
(***************************************************************************)
EXTENDS Integers

CONSTANTS
    Callers,    \* concurrent callers of Execute
    Threshold   \* failures that open the circuit

ASSUME ThresholdAssumption == Threshold \in Nat \ {0}

VARIABLES
    state,            \* CLOSED, OPEN or HALF_OPEN
    failures,         \* failures counted since the last success
    halfOpenRunning,  \* a test request is running
    cooled,           \* resetTimeout has passed since openedAt
    caller,           \* idle, or how its running request was let through
    result            \* what Execute returned last: ok, error, refused

breakerVars == <<state, failures, halfOpenRunning, cooled>>
vars        == <<breakerVars, caller, result>>

TypeOK ==
    /\ state \in {"CLOSED", "OPEN", "HALF_OPEN"}
    /\ failures \in 0 .. Threshold
    /\ halfOpenRunning \in BOOLEAN
    /\ cooled \in BOOLEAN
    /\ caller \in [Callers -> {"idle", "request", "test"}]
    /\ result \in [Callers -> {"none", "ok", "error", "refused"}]

Init ==
    /\ state = "CLOSED"
    /\ failures = 0
    /\ halfOpenRunning = FALSE
    /\ cooled = FALSE
    /\ caller = [c \in Callers |-> "idle"]
    /\ result = [c \in Callers |-> "none"]

-----------------------------------------------------------------------------
(* beforeRequest.                                                          *)

(* A closed circuit lets every request through.                            *)
Pass(c) ==
    /\ caller[c] = "idle"
    /\ state = "CLOSED"
    /\ caller' = [caller EXCEPT ![c] = "request"]
    /\ UNCHANGED <<breakerVars, result>>

(* ErrCircuitOpen: the circuit is cooling down, or a test is running.      *)
Refuse(c) ==
    /\ caller[c] = "idle"
    /\ \/ state = "OPEN" /\ ~cooled
       \/ state = "HALF_OPEN" /\ halfOpenRunning
    /\ result' = [result EXCEPT ![c] = "refused"]
    /\ UNCHANGED <<breakerVars, caller>>

(* The first request after the cooldown tests the bank.                    *)
TestAfterCooldown(c) ==
    /\ caller[c] = "idle"
    /\ state = "OPEN" /\ cooled
    /\ state' = "HALF_OPEN"
    /\ failures' = 0
    /\ halfOpenRunning' = TRUE
    /\ caller' = [caller EXCEPT ![c] = "test"]
    /\ UNCHANGED <<cooled, result>>

(* So does a request that finds a half-open circuit without a test.        *)
TestHalfOpen(c) ==
    /\ caller[c] = "idle"
    /\ state = "HALF_OPEN" /\ ~halfOpenRunning
    /\ halfOpenRunning' = TRUE
    /\ caller' = [caller EXCEPT ![c] = "test"]
    /\ UNCHANGED <<state, failures, cooled, result>>

BeforeRequest(c) ==
    Pass(c) \/ Refuse(c) \/ TestAfterCooldown(c) \/ TestHalfOpen(c)

-----------------------------------------------------------------------------
(* afterRequest.  It does not know how its request was let through.        *)

(* The failures counted open the circuit.                                  *)
Tripped(n) == n >= Threshold

(* A closed circuit counts failures until it opens.                        *)
CountResult(r) ==
    /\ state = "CLOSED"
    /\ failures' = IF r = "ok" THEN 0 ELSE failures + 1
    /\ IF Tripped(failures')
       THEN state' = "OPEN" /\ cooled' = FALSE
       ELSE UNCHANGED <<state, cooled>>
    /\ UNCHANGED halfOpenRunning

(* Mutant of SettleHalfOpen: a failed test leaves the flag set.            *)
SettleWithoutReset(r) ==
    /\ state = "HALF_OPEN"
    /\ IF r = "ok"
       THEN /\ state' = "CLOSED"
            /\ failures' = 0
            /\ halfOpenRunning' = FALSE
            /\ UNCHANGED cooled
       ELSE /\ state' = "OPEN"
            /\ cooled' = FALSE
            /\ UNCHANGED <<failures, halfOpenRunning>>

(* A half-open circuit is settled by the first result to arrive.           *)
SettleHalfOpen(r) ==
    /\ state = "HALF_OPEN"
    /\ halfOpenRunning' = FALSE
    /\ IF r = "ok"
       THEN /\ state' = "CLOSED"
            /\ failures' = 0
            /\ UNCHANGED cooled
       ELSE /\ state' = "OPEN"
            /\ cooled' = FALSE
            /\ UNCHANGED failures

(* A result that finds the circuit open changes nothing.                   *)
DropResult == state = "OPEN" /\ UNCHANGED breakerVars

AfterRequest(c, r) ==
    /\ caller[c] # "idle"
    /\ CountResult(r) \/ SettleHalfOpen(r) \/ DropResult
    /\ caller' = [caller EXCEPT ![c] = "idle"]
    /\ result' = [result EXCEPT ![c] = r]

-----------------------------------------------------------------------------
(* State() half-opens a circuit that has cooled down.                      *)
QueryState ==
    /\ state = "OPEN" /\ cooled
    /\ state' = "HALF_OPEN"
    /\ UNCHANGED <<failures, halfOpenRunning, cooled, caller, result>>

(* resetTimeout passes.                                                    *)
CoolDown ==
    /\ state = "OPEN" /\ ~cooled
    /\ cooled' = TRUE
    /\ UNCHANGED <<state, failures, halfOpenRunning, caller, result>>

Next ==
    \/ \E c \in Callers : BeforeRequest(c)
    \/ \E c \in Callers, r \in {"ok", "error"} : AfterRequest(c, r)
    \/ QueryState
    \/ CoolDown

Spec == Init /\ [][Next]_vars

(* Time passes, bank calls end (they run under a deadline), and requests   *)
(* keep coming.                                                            *)
Fairness ==
    /\ WF_vars(CoolDown)
    /\ \A c \in Callers : WF_vars(\E r \in {"ok", "error"} : AfterRequest(c, r))
    /\ \A c \in Callers : WF_vars(BeforeRequest(c))

FairSpec == Spec /\ Fairness

-----------------------------------------------------------------------------
(* A closed circuit has seen fewer than Threshold failures in a row,       *)
(* although requests let through earlier report after it opened and        *)
(* closed again.                                                           *)
ClosedBelowThreshold == state = "CLOSED" => failures < Threshold

(* The flag that refuses everybody is set only while the circuit is        *)
(* half-open and a test request is in flight that will clear it, whatever  *)
(* late results arrive in between: the breaker cannot be stuck refusing.   *)
RefusalHasTest ==
    halfOpenRunning => state = "HALF_OPEN" /\ \E c \in Callers : caller[c] = "test"

(* A circuit that has opened lets a test request through again, unless a   *)
(* late result closed it first: it never refuses for ever.                 *)
OpenCircuitIsTested ==
    state = "OPEN" ~> state = "CLOSED" \/ \E c \in Callers : caller[c] = "test"

(* "a test request is allowed through - if it succeeds, the circuit        *)
(* closes" (README.md:382-383): after the step in which a test reports its *)
(* success the circuit is closed.                                          *)
TestSuccessCloses ==
    [][\A c \in Callers :
          caller[c] = "test" /\ caller'[c] = "idle" /\ result'[c] = "ok"
              => state' = "CLOSED"]_vars
=============================================================================
