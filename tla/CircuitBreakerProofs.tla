------------------------ MODULE CircuitBreakerProofs ------------------------
(* Proofs that the circuit breaker neither stays closed after Threshold    *)
(* failures nor gets stuck refusing, for any number of callers.            *)
EXTENDS CircuitBreaker, TLAPS

(* The conjunction is inductive: the bound on failures needs to know that  *)
(* a closed circuit is below the threshold.                                *)
IInv == TypeOK /\ ClosedBelowThreshold /\ RefusalHasTest

(* A new breaker is closed and has counted nothing.                        *)
LEMMA InitIInv == Init => IInv
<1> SUFFICES ASSUME Init PROVE IInv
  OBVIOUS
<1>1. TypeOK /\ ClosedBelowThreshold
  <2>1. halfOpenRunning \in BOOLEAN /\ cooled \in BOOLEAN
    BY Zenon DEF Init
  <2>2. failures \in 0 .. Threshold /\ failures < Threshold
    BY ThresholdAssumption DEF Init
  <2> QED
    BY <2>1, <2>2 DEF Init, TypeOK, ClosedBelowThreshold
<1>2. RefusalHasTest
  BY Zenon DEF Init, RefusalHasTest
<1> QED
  BY <1>1, <1>2 DEF IInv

(* Letting a request through or refusing it.                               *)
LEMMA BeforeRequestStep ==
    ASSUME IInv, NEW c \in Callers, BeforeRequest(c) PROVE IInv'
<1> USE ThresholdAssumption DEF IInv, TypeOK, ClosedBelowThreshold, RefusalHasTest, breakerVars
<1>1. CASE Pass(c)
  BY <1>1 DEF Pass
<1>2. CASE Refuse(c)
  BY <1>2 DEF Refuse
<1>3. CASE TestAfterCooldown(c)
  BY <1>3 DEF TestAfterCooldown
<1>4. CASE TestHalfOpen(c)
  BY <1>4 DEF TestHalfOpen
<1> QED
  BY <1>1, <1>2, <1>3, <1>4 DEF BeforeRequest

(* A result clears the flag whenever the circuit is half-open, so the flag *)
(* never outlives the test that set it.                                    *)
LEMMA AfterRequestStep ==
    ASSUME IInv, NEW c \in Callers, NEW r \in {"ok", "error"}, AfterRequest(c, r)
    PROVE  IInv'
<1> USE ThresholdAssumption
    DEF IInv, TypeOK, ClosedBelowThreshold, RefusalHasTest, AfterRequest
<1>1. CASE CountResult(r)
  <2>1. failures' \in 0 .. Threshold /\ (state' = "CLOSED" => failures' < Threshold)
    BY <1>1 DEF CountResult, Tripped
  <2>2. /\ state' \in {"CLOSED", "OPEN"} /\ cooled' \in BOOLEAN
        /\ ~halfOpenRunning /\ halfOpenRunning' = halfOpenRunning
    BY <1>1 DEF CountResult
  <2> QED
    BY <2>1, <2>2
<1>2. CASE SettleHalfOpen(r)
  <2>1. /\ state' \in {"CLOSED", "OPEN"} /\ failures' \in 0 .. Threshold
        /\ state' = "CLOSED" => failures' < Threshold
    BY <1>2 DEF SettleHalfOpen
  <2>2. cooled' \in BOOLEAN /\ halfOpenRunning' = FALSE
    BY <1>2 DEF SettleHalfOpen
  <2>3. caller' \in [Callers -> {"idle", "request", "test"}]
        /\ result' \in [Callers -> {"none", "ok", "error", "refused"}]
    OBVIOUS
  <2>4. TypeOK'
    BY <2>1, <2>2, <2>3
  <2>5. RefusalHasTest'
    BY <2>2, Zenon
  <2> QED
    BY <2>1, <2>4, <2>5
<1>3. CASE DropResult
  BY <1>3 DEF DropResult, breakerVars
<1> QED
  BY <1>1, <1>2, <1>3

(* The conjunction is inductive: one case per action.                      *)
LEMMA NextIInv == IInv /\ [Next]_vars => IInv'
<1> SUFFICES ASSUME IInv, [Next]_vars PROVE IInv'
  OBVIOUS
<1>1. CASE QueryState
  BY <1>1 DEF QueryState, IInv, TypeOK, ClosedBelowThreshold, RefusalHasTest
<1>2. CASE CoolDown
  BY <1>2 DEF CoolDown, IInv, TypeOK, ClosedBelowThreshold, RefusalHasTest
<1>3. CASE UNCHANGED vars
  BY <1>3 DEF vars, breakerVars, IInv, TypeOK, ClosedBelowThreshold, RefusalHasTest
<1> QED
  BY <1>1, <1>2, <1>3, BeforeRequestStep, AfterRequestStep DEF Next

(* So it holds in every reachable state.                                   *)
LEMMA Invariance == Spec => []IInv
<1> QED
  BY InitIInv, NextIInv, PTL DEF Spec

(* The variables of the breaker keep their types: the count of failures    *)
(* never passes Threshold, late results included.                          *)
THEOREM TypeCorrect == Spec => []TypeOK
<1>1. IInv => TypeOK
  BY DEF IInv
<1> QED
  BY <1>1, Invariance, PTL

(* A closed circuit has counted fewer than Threshold failures.             *)
THEOREM OpensAtThreshold == Spec => []ClosedBelowThreshold
<1>1. IInv => ClosedBelowThreshold
  BY DEF IInv
<1> QED
  BY <1>1, Invariance, PTL

(* Whenever the half-open flag refuses requests, a test request is in      *)
(* flight whose result will clear it.                                      *)
THEOREM NeverStuckRefusing == Spec => []RefusalHasTest
<1>1. IInv => RefusalHasTest
  BY DEF IInv
<1> QED
  BY <1>1, Invariance, PTL
=============================================================================
