---------------------------- MODULE CallsProofs ----------------------------
(***************************************************************************)
(* What one call of Retry, VerifyTransaction or ProcessConcurrently        *)
(* returns and what a walk over the pages of a listing shows, for every    *)
(* configuration, every schedule and every number of items and rows.       *)
(***************************************************************************)
EXTENDS MCCalls, Sequences, FiniteSetTheorems, WellFoundedInduction, NaturalsInduction, TLAPS

-----------------------------------------------------------------------------
(* Induction over the natural numbers with the property as a set.          *)

LEMMA NatSetInduction ==
    ASSUME NEW T, 0 \in T, \A n \in Nat : n \in T => n + 1 \in T
    PROVE  Nat \subseteq T
<1> DEFINE B == Nat \ T
<1> SUFFICES ASSUME B # {} PROVE FALSE
    OBVIOUS
<1>1. PICK x \in B : \A y \in B : ~(<<y, x>> \in OpToRel(<, Nat))
    <2>1. IsWellFoundedOn(OpToRel(<, Nat), Nat)
        BY NatLessThanWellFounded, Zenon
    <2>2. B \subseteq Nat /\ B # {}
        OBVIOUS
    <2> HIDE DEF B
    <2> QED
        BY <2>1, <2>2, WFMin, Zenon
<1>2. x \in Nat /\ x # 0 /\ x - 1 \in Nat /\ x - 1 < x
    OBVIOUS
<1>3. x - 1 \in B
    BY <1>2
<1>4. <<x - 1, x>> \in OpToRel(<, Nat)
    BY <1>2 DEF OpToRel
<1> QED
    BY <1>1, <1>3, <1>4

-----------------------------------------------------------------------------
(* The recursive definition of Pow2 has a solution: for every n there is a *)
(* function that doubles up to n, and two of them agree there.             *)

Doubles(h, n) == h[0] = 1 /\ \A k \in Nat : k < n => h[k + 1] = 2 * h[k]

LEMMA DoublesExists == \A n \in Nat : \E h \in [Nat -> Nat] : Doubles(h, n)
<1> DEFINE T == {n \in Nat : \E h \in [Nat -> Nat] : Doubles(h, n)}
<1>1. 0 \in T
    <2>1. [k \in Nat |-> 1] \in [Nat -> Nat] /\ Doubles([k \in Nat |-> 1], 0)
        BY DEF Doubles
    <2> QED
        BY <2>1
<1>2. ASSUME NEW n \in Nat, n \in T PROVE n + 1 \in T
    <2>1. PICK h \in [Nat -> Nat] : Doubles(h, n)
        BY <1>2
    <2> DEFINE g == [h EXCEPT ![n + 1] = 2 * h[n]]
    <2>2. g \in [Nat -> Nat] /\ Doubles(g, n + 1)
        BY <2>1 DEF Doubles
    <2> HIDE DEF g
    <2> QED
        BY <2>2
<1> HIDE DEF T
<1>3. Nat \subseteq T
    BY <1>1, <1>2, NatSetInduction
<1> QED
    BY <1>3 DEF T

LEMMA DoublesUnique ==
    ASSUME NEW g \in [Nat -> Nat], NEW h \in [Nat -> Nat], NEW n \in Nat, Doubles(g, n), Doubles(h, n)
    PROVE  \A k \in 0..n : g[k] = h[k]
<1> DEFINE T == {k \in Nat : k <= n => g[k] = h[k]}
<1>1. 0 \in T
    BY DEF Doubles
<1>2. ASSUME NEW k \in Nat, k \in T PROVE k + 1 \in T
    BY <1>2 DEF Doubles
<1> HIDE DEF T
<1>3. Nat \subseteq T
    BY <1>1, <1>2, NatSetInduction
<1> QED
    BY <1>3 DEF T

LEMMA Pow2Def ==
    /\ Pow2 \in [Nat -> Nat \ {0}]
    /\ Pow2[0] = 1
    /\ \A n \in Nat : Pow2[n + 1] = 2 * Pow2[n]
<1> DEFINE H(n) == CHOOSE h \in [Nat -> Nat] : Doubles(h, n)
           G    == [n \in Nat |-> H(n)[n]]
<1>1. \A n \in Nat : H(n) \in [Nat -> Nat] /\ Doubles(H(n), n)
    BY DoublesExists
<1> HIDE DEF H
<1>2. G \in [Nat -> Nat] /\ G[0] = 1
    BY <1>1 DEF Doubles
<1>3. ASSUME NEW n \in Nat PROVE G[n + 1] = 2 * G[n]
    <2>1. Doubles(H(n + 1), n) /\ H(n + 1)[n + 1] = 2 * H(n + 1)[n]
        BY <1>1 DEF Doubles
    <2>2. H(n) \in [Nat -> Nat] /\ H(n + 1) \in [Nat -> Nat] /\ Doubles(H(n), n) /\ n \in 0..n
        BY <1>1
    <2>3. H(n + 1)[n] = H(n)[n]
        BY <2>1, <2>2, DoublesUnique
    <2> QED
        BY <2>1, <2>3
<1> HIDE DEF G
<1>4. G = [n \in Nat |-> IF n = 0 THEN 1 ELSE 2 * G[n - 1]]
    <2>1. ASSUME NEW n \in Nat PROVE G[n] = IF n = 0 THEN 1 ELSE 2 * G[n - 1]
        BY <1>2, <1>3
    <2> QED
        BY <1>2, <2>1
<1>5. Pow2 = [n \in Nat |-> IF n = 0 THEN 1 ELSE 2 * Pow2[n - 1]]
    <2> DEFINE Fix(f) == f = [n \in Nat |-> IF n = 0 THEN 1 ELSE 2 * f[n - 1]]
    <2>1. \E f : Fix(f)
        BY <1>4
    <2>2. Pow2 = CHOOSE f : Fix(f)
        BY DEF Pow2
    <2> HIDE DEF Fix
    <2>3. Fix(Pow2)
        BY <2>1, <2>2
    <2> QED
        BY <2>3 DEF Fix
<1>6. Pow2[0] = 1 /\ \A n \in Nat : Pow2[n + 1] = 2 * Pow2[n]
    BY <1>5
<1>7. Pow2 \in [Nat -> Nat \ {0}]
    <2> DEFINE T == {n \in Nat : Pow2[n] \in Nat \ {0}}
    <2>1. 0 \in T
        BY <1>6
    <2>2. ASSUME NEW n \in Nat, n \in T PROVE n + 1 \in T
        BY <1>6, <2>2
    <2> HIDE DEF T
    <2>3. Nat \subseteq T
        BY <2>1, <2>2, NatSetInduction
    <2> QED
        BY <1>5, <2>3 DEF T
<1> QED
    BY <1>6, <1>7

-----------------------------------------------------------------------------
(* Retry: the inductive invariant.                                         *)

LoopType ==
    /\ MaxAttempts \in Nat \ {0}
    /\ attempt \in Nat \ {0} /\ calls \in Nat /\ late \in Nat
    /\ pc \in {"check", "call", "sleep", "returned"}
    /\ lastErr \in Results
    /\ canceled \in BOOLEAN
    /\ result \in Results \cup {"none", "ctx"}

(* The attempts made, and that the loop goes on only after an error worth  *)
(* another attempt.                                                        *)
LoopInv ==
    /\ attempt <= MaxAttempts /\ calls <= attempt
    /\ pc \in {"check", "call"} => calls = attempt - 1
    /\ pc = "sleep" => calls = attempt /\ attempt < MaxAttempts
    /\ pc # "returned" => result = "none"

(* A call that began after the cancellation is followed by no other.       *)
LateInv ==
    /\ late <= 1 /\ late <= calls
    /\ late = 1 => canceled
    /\ pc = "call" => late = 0

IInv == LoopType /\ LoopInv /\ LateInv /\ ResultIsTrue

-----------------------------------------------------------------------------
LEMMA InitIInv == Init => IInv
<1> SUFFICES ASSUME Init PROVE IInv
    OBVIOUS
<1>1. cfg.attempts \in Int
    BY ConfigsAssumption DEF Init
<1>2. MaxAttempts \in Nat \ {0}
    <2>1. CASE cfg.attempts <= 0
        BY <2>1 DEF MaxAttempts
    <2>2. CASE cfg.attempts > 0
        BY <1>1, <2>2 DEF MaxAttempts
    <2> QED
        BY <1>1, <2>1, <2>2
<1>3. LoopType
    <2>1. canceled \in BOOLEAN /\ lastErr \in Results /\ pc \in {"check", "call", "sleep", "returned"}
        BY Zenon DEF Init, Results
    <2>2. attempt \in Nat \ {0} /\ calls \in Nat /\ late \in Nat
        BY DEF Init
    <2> QED
        BY <1>2, <2>1, <2>2 DEF LoopType, Init
<1>4. LoopInv /\ LateInv /\ ResultIsTrue
    BY <1>2 DEF Init, LoopInv, LateInv, ResultIsTrue, Results
<1> QED
    BY <1>3, <1>4 DEF IInv

LEMMA CheckIInv == IInv /\ Check => IInv'
<1> SUFFICES ASSUME IInv, Check PROVE IInv'
    OBVIOUS
<1>1. MaxAttempts' = MaxAttempts
    BY DEF Check, MaxAttempts
<1> QED
    BY <1>1 DEF IInv, LoopType, LoopInv, LateInv, ResultIsTrue, Check, Return, Done, Results

LEMMA CallIInv == IInv /\ Call => IInv'
<1> SUFFICES ASSUME IInv, Call PROVE IInv'
    OBVIOUS
<1>1. MaxAttempts' = MaxAttempts
    BY DEF Call, MaxAttempts
<1>2. PICK e \in Results :
          /\ lastErr' = e
          /\ \/ (e = "nil" \/ GiveUp(e)) /\ Return(e)
             \/ e # "nil" /\ ~GiveUp(e) /\ pc' = "sleep" /\ UNCHANGED result
    BY DEF Call
<1>3. /\ pc = "call" /\ calls' = calls + 1 /\ UNCHANGED <<attempt, canceled>>
      /\ late' = IF canceled THEN late + 1 ELSE late
    BY DEF Call
<1>4. LoopType'
    BY <1>1, <1>2, <1>3 DEF IInv, LoopType, Return
<1>5. LoopInv'
    BY <1>1, <1>2, <1>3 DEF IInv, LoopType, LoopInv, Return, GiveUp
<1>6. LateInv'
    BY <1>2, <1>3 DEF IInv, LoopType, LateInv, Return
<1>7. ResultIsTrue'
    BY <1>1, <1>2, <1>3 DEF IInv, LoopType, LoopInv, ResultIsTrue, Return, GiveUp, Results
<1> QED
    BY <1>4, <1>5, <1>6, <1>7 DEF IInv

LEMMA WaitIInv == IInv /\ (Wake \/ Interrupt \/ Cancel) => IInv'
<1> SUFFICES ASSUME IInv, Wake \/ Interrupt \/ Cancel PROVE IInv'
    OBVIOUS
<1>1. MaxAttempts' = MaxAttempts
    BY DEF Wake, Interrupt, Cancel, MaxAttempts
<1>2. CASE Wake
    BY <1>1, <1>2 DEF IInv, LoopType, LoopInv, LateInv, ResultIsTrue, Wake, Results
<1>3. CASE Interrupt
    BY <1>1, <1>3 DEF IInv, LoopType, LoopInv, LateInv, ResultIsTrue, Interrupt, Return, Results
<1>4. CASE Cancel
    BY <1>1, <1>4 DEF IInv, LoopType, LoopInv, LateInv, ResultIsTrue, Cancel, Results
<1> QED
    BY <1>2, <1>3, <1>4

LEMMA NextIInv == IInv /\ [Next]_vars => IInv'
<1> SUFFICES ASSUME IInv, [Next]_vars PROVE IInv'
    OBVIOUS
<1>1. CASE UNCHANGED vars
    BY <1>1 DEF vars, IInv, LoopType, LoopInv, LateInv, ResultIsTrue, MaxAttempts
<1> QED
    BY <1>1, CheckIInv, CallIInv, WaitIInv DEF Next

(* So the loop's invariant holds in every reachable state of Retry, for    *)
(* every configuration.                                                    *)
THEOREM Invariance == Spec => []IInv
BY InitIInv, NextIInv, PTL DEF Spec

-----------------------------------------------------------------------------
(* Under every RetryConfig, zero and negative values included, what Retry  *)
(* returns is what happened: the last call's result, or a context that is  *)
(* done.                                                                   *)
THEOREM ReturnsWhatHappened == Spec => []ResultIsTrue
<1>1. IInv => ResultIsTrue
    BY DEF IInv
<1> QED
    BY <1>1, Invariance, PTL

(* A cancellation lets one more call begin at most.                        *)
THEOREM StopsAfterCancel == Spec => []OneLateCall
<1>1. IInv => OneLateCall
    BY DEF IInv, LateInv, OneLateCall
<1> QED
    BY <1>1, Invariance, PTL

-----------------------------------------------------------------------------
(* Retry: the waits.                                                       *)

Jitter == Max({cfg.jitter, 0})

(* Without its jitter the wait after n attempts is at most the exponential *)
(* of the n-th, where that is in range.                                    *)
Backed(n) ==
    IF n = 0 THEN wait = 0
    ELSE BaseDelay * Pow2[n - 1] <= MaxDuration => wait - Jitter <= BaseDelay * Pow2[n - 1]

WaitInv ==
    /\ cfg \in Configs
    /\ wait \in Int
    /\ pc \in {"check", "call"} => Backed(attempt - 1)
    /\ pc = "sleep" => Backed(attempt)

LEMMA MinMaxPair ==
    ASSUME NEW a \in Int, NEW b \in Int
    PROVE  /\ Min({a, b}) = IF a <= b THEN a ELSE b
           /\ Max({a, b}) = IF a <= b THEN b ELSE a
<1>1. \E x \in {a, b} : \A y \in {a, b} : x <= y
    OBVIOUS
<1>2. \E x \in {a, b} : \A y \in {a, b} : x >= y
    OBVIOUS
<1>3. Min({a, b}) \in {a, b} /\ \A y \in {a, b} : Min({a, b}) <= y
    BY <1>1 DEF Min
<1>4. Max({a, b}) \in {a, b} /\ \A y \in {a, b} : Max({a, b}) >= y
    BY <1>2 DEF Max
<1> QED
    BY <1>3, <1>4

LEMMA DelayTypes ==
    ASSUME cfg \in Configs
    PROVE  /\ BaseDelay \in Nat \ {0} /\ MaxDelay \in Nat \ {0}
           /\ cfg.jitter \in Int /\ MaxDuration \in Nat
           /\ Jitter \in Nat /\ Jitter = IF cfg.jitter <= 0 THEN 0 ELSE cfg.jitter
<1>1. cfg.base \in Int /\ cfg.max \in Int /\ cfg.jitter \in Int
    BY ConfigsAssumption, DurationAssumption DEF Durations
<1>2. Jitter = IF cfg.jitter <= 0 THEN 0 ELSE cfg.jitter
    <2> DEFINE j == cfg.jitter
    <2>1. j \in Int /\ Jitter = Max({j, 0})
        BY <1>1 DEF Jitter
    <2> HIDE DEF j
    <2>2. Max({j, 0}) = IF j <= 0 THEN 0 ELSE j
        BY <2>1, MinMaxPair
    <2> QED
        BY <2>1, <2>2 DEF j
<1> QED
    BY <1>1, <1>2, DurationAssumption DEF BaseDelay, MaxDelay

(* The wait that retryDelay computes is between the capped exponential and *)
(* that with the jitter, in range, and never above the cap and the jitter. *)
LEMMA DelayBounds ==
    ASSUME cfg \in Configs, attempt \in Nat \ {0}, NEW w, RetryDelay(w)
    PROVE  /\ w \in Int
           /\ w <= MaxDelay + Jitter
           /\ Exponential \in Nat
           /\ Exponential <= MaxDuration => w - Jitter <= Exponential
           /\ InRange => w >= Exponential \/ w >= MaxDelay
<1>1. Exponential \in Nat
    BY DelayTypes, Pow2Def DEF Exponential
<1> DEFINE J == IF cfg.jitter <= 0 THEN {0} ELSE 0..(cfg.jitter - 1)
<1>2. PICK d \in Converted(Exponential), j \in J : w = Plus(Min({d, MaxDelay}), j)
    BY DEF RetryDelay
<1>3. d \in Int /\ (Exponential <= MaxDuration => d = Exponential)
    BY <1>1, DelayTypes DEF Converted
<1>4. j \in Nat /\ j <= Jitter
    BY DelayTypes
<1>5. Min({d, MaxDelay}) = IF d <= MaxDelay THEN d ELSE MaxDelay
    BY <1>3, DelayTypes, MinMaxPair
<1>6. InRange => Exponential <= MaxDuration /\ MaxDelay + Jitter <= MaxDuration
    BY DEF InRange, Jitter
<1> HIDE DEF J
<1>7. w \in Int /\ w <= Min({d, MaxDelay}) + j /\ (InRange => w = Min({d, MaxDelay}) + j)
    BY <1>2, <1>3, <1>4, <1>5, <1>6, DelayTypes DEF Plus
<1> QED
    BY <1>1, <1>3, <1>4, <1>5, <1>6, <1>7, DelayTypes

LEMMA InitWaitInv == Init => WaitInv
BY DEF Init, WaitInv, Backed

LEMMA NextWaitInv == IInv /\ WaitInv /\ [Next]_vars => WaitInv'
<1> SUFFICES ASSUME IInv, WaitInv, [Next]_vars PROVE WaitInv'
    OBVIOUS
<1>1. cfg' = cfg /\ BaseDelay' = BaseDelay /\ Jitter' = Jitter
    BY DEF Next, Check, Call, Wake, Interrupt, Cancel, vars, BaseDelay, Jitter
<1>2. CASE Call
    <2>1. attempt \in Nat \ {0} /\ cfg \in Configs
        BY DEF IInv, LoopType, WaitInv
    <2>2. CASE pc' = "returned" /\ wait' = wait
        BY <1>1, <2>2 DEF WaitInv
    <2>3. CASE pc' = "sleep" /\ RetryDelay(wait')
        <3>1. wait' \in Int /\ (Exponential <= MaxDuration => wait' - Jitter <= Exponential)
            BY <2>1, <2>3, DelayBounds
        <3>2. attempt' = attempt
            BY <1>2 DEF Call
        <3>3. Backed(attempt)'
            BY <1>1, <2>1, <3>1, <3>2 DEF Backed, Exponential
        <3> QED
            BY <1>1, <2>1, <2>3, <3>1, <3>3 DEF WaitInv
    <2> QED
        BY <1>2, <2>2, <2>3 DEF Call, Return
<1>3. CASE Wake
    <2>1. attempt \in Nat \ {0} /\ attempt' = attempt + 1 /\ wait' = wait /\ pc = "sleep" /\ pc' = "check"
        BY <1>3 DEF Wake, IInv, LoopType
    <2>2. Backed(attempt) /\ attempt' - 1 = attempt
        BY <2>1 DEF WaitInv
    <2>3. Backed(attempt - 1)'
        BY <1>1, <2>1, <2>2 DEF Backed
    <2> QED
        BY <1>1, <2>1, <2>3 DEF WaitInv
<1>4. CASE Check \/ Interrupt \/ Cancel \/ UNCHANGED vars
    <2>1. wait' = wait /\ attempt' = attempt
        BY <1>4 DEF Check, Interrupt, Cancel, vars
    <2>2. pc' = pc \/ pc' = "returned" \/ (pc = "check" /\ pc' = "call")
        BY <1>4 DEF Check, Interrupt, Cancel, vars, Return
    <2> QED
        BY <1>1, <2>1, <2>2 DEF WaitInv, Backed
<1> QED
    BY <1>2, <1>3, <1>4 DEF Next

(* In every step that goes to sleep, the wait against the one before it.   *)
LEMMA GrowStep ==
    ASSUME IInv, WaitInv, Next, pc' = "sleep", pc # "sleep"
    PROVE  /\ InRange =>
                 wait' >= Min({MaxDelay, Max({BaseDelay, 2 * (wait - Max({cfg.jitter, 0}))})})
           /\ wait' <= MaxDelay + Max({cfg.jitter, 0})
<1>1. Call
    BY DEF Next, Check, Wake, Interrupt, Cancel, Return
<1>2. pc = "call" /\ RetryDelay(wait') /\ attempt \in Nat \ {0} /\ cfg \in Configs /\ wait \in Int
    BY <1>1 DEF Call, Return, IInv, LoopType, WaitInv
<1>3. Backed(attempt - 1)
    BY <1>2 DEF WaitInv
<1>4. /\ wait' \in Int /\ wait' <= MaxDelay + Jitter /\ Exponential \in Nat
      /\ InRange => wait' >= Exponential \/ wait' >= MaxDelay
    BY <1>2, DelayBounds
<1>5. ASSUME Exponential <= MaxDuration
      PROVE  Exponential >= BaseDelay /\ Exponential >= 2 * (wait - Jitter)
    <2>1. CASE attempt = 1
        <3>1. Exponential = BaseDelay
            BY <2>1, DelayTypes, Pow2Def, <1>2 DEF Exponential
        <3>2. wait = 0
            BY <2>1, <1>3 DEF Backed
        <3> QED
            BY <3>1, <3>2, <1>2, DelayTypes
    <2>2. CASE attempt # 1
        <3> DEFINE e == BaseDelay * Pow2[attempt - 2]
        <3>1. attempt - 2 \in Nat /\ (attempt - 2) + 1 = attempt - 1
            BY <1>2, <2>2
        <3>2. Pow2[attempt - 1] = 2 * Pow2[attempt - 2] /\ Pow2[attempt - 2] \in Nat
            BY <3>1, Pow2Def
        <3>3. Exponential = 2 * e /\ e \in Nat
            BY <1>2, <3>2, DelayTypes DEF Exponential
        <3>4. Exponential >= BaseDelay
            <4>1. \A b \in Nat, p \in Nat \ {0} : b * p >= b
                OBVIOUS
            <4>2. Pow2[attempt - 1] \in Nat \ {0}
                BY <1>2, Pow2Def
            <4> QED
                BY <1>2, <4>1, <4>2, DelayTypes DEF Exponential
        <3>5. e <= MaxDuration => wait - Jitter <= e
            BY <1>2, <1>3, <2>2 DEF Backed
        <3> HIDE DEF e
        <3>6. e <= MaxDuration
            BY <1>2, <1>5, <3>3, DelayTypes
        <3> QED
            BY <1>2, <3>3, <3>4, <3>5, <3>6, DelayTypes
    <2> QED
        BY <2>1, <2>2
<1> DEFINE m == Max({BaseDelay, 2 * (wait - Jitter)})
<1>6. 2 * (wait - Jitter) \in Int /\ BaseDelay \in Int /\ MaxDelay \in Int
    BY <1>2, DelayTypes
<1>7. m = IF BaseDelay <= 2 * (wait - Jitter) THEN 2 * (wait - Jitter) ELSE BaseDelay
    BY <1>6, MinMaxPair
<1>8. m \in Int
    BY <1>6, <1>7
<1> HIDE DEF m
<1>9. Min({MaxDelay, m}) = IF MaxDelay <= m THEN MaxDelay ELSE m
    BY <1>6, <1>8, MinMaxPair
<1>10. InRange => wait' >= Min({MaxDelay, m})
    <2>1. InRange => Exponential <= MaxDuration
        BY DEF InRange
    <2> QED
        BY <1>4, <1>5, <1>6, <1>7, <1>8, <1>9, <2>1
<1> QED
    BY <1>4, <1>10 DEF m, Jitter

(* Under every configuration the waits back off: while durations are in    *)
(* range none is shorter than the cap or twice the one before without its  *)
(* jitter, and none is ever longer than the cap and the jitter.            *)
THEOREM WaitsBackOff == Spec => WaitsGrow
<1>1. IInv /\ WaitInv /\ [Next]_vars =>
          [pc' = "sleep" /\ pc # "sleep" =>
              /\ InRange =>
                    wait' >= Min({MaxDelay, Max({BaseDelay, 2 * (wait - Max({cfg.jitter, 0}))})})
              /\ wait' <= MaxDelay + Max({cfg.jitter, 0})]_vars
    BY GrowStep
<1> QED
    BY <1>1, InitWaitInv, NextWaitInv, Invariance, PTL DEF Spec, WaitsGrow

(* Retry stays in its state space: no attempt and no call beyond the       *)
(* configured number.                                                      *)
THEOREM RetryTypeCorrect == Spec => []TypeOK
<1>1. IInv /\ WaitInv => TypeOK
    BY DEF IInv, LoopType, LoopInv, LateInv, WaitInv, TypeOK
<1> QED
    BY <1>1, InitWaitInv, NextWaitInv, Invariance, PTL DEF Spec

-----------------------------------------------------------------------------
(* VerifyTransaction.                                                      *)

(* One for a check that has sent its result.                               *)
Sent(c) == IF check[c] \in {"sent", "done"} THEN 1 ELSE 0

(* Where the results are: each one sent is in the channel or collected,    *)
(* and there are no others.                                                *)
SentInv ==
    /\ Len(results) + Len(resultCh) = Sent("fraud") + Sent("sanctions") + Sent("bank")
    /\ \A i \in 1 .. Len(resultCh) : check[resultCh[i]] \in {"sent", "done"}
    /\ \A i \in 1 .. Len(results) : check[results[i]] \in {"sent", "done"}
    /\ \A c \in V!Checks : check[c] \in {"sent", "done"} =>
          \/ \E i \in 1 .. Len(resultCh) : resultCh[i] = c
          \/ \E i \in 1 .. Len(results) : results[i] = c

(* The channel is closed after every goroutine is done and drained before  *)
(* the verdict.                                                            *)
CloseInv ==
    /\ closed => \A c \in V!Checks : check[c] = "done"
    /\ verdict # "running" => closed /\ resultCh = <<>>

(* The i-th result collected is the first failure.                         *)
FirstFailed(i) ==
    /\ i \in 1 .. Len(results) /\ err[results[i]] # "nil"
    /\ \A k \in 1 .. Len(results) : k < i => err[results[k]] = "nil"

(* The function's own cancellation comes after the first failure collected *)
(* and an error that says so after that, so the first failure is another.  *)
OwnInv ==
    /\ \A c \in V!Checks : err[c] = "none" <=> check[c] = "running"
    /\ risky => err["fraud"] # "nil"
    /\ ctx # "own" => \A c \in V!Checks : err[c] # "own"
    /\ ctx = "own" => \E i \in 1 .. Len(results) : err[results[i]] # "nil"
    /\ (\E i \in 1 .. Len(results) : err[results[i]] # "nil") =>
          \E i \in 1 .. Len(results) : FirstFailed(i) /\ err[results[i]] # "own"

VerifyInv == V!TypeOK /\ SentInv /\ CloseInv /\ OwnInv /\ CauseReported

-----------------------------------------------------------------------------
LEMMA InitVerifyInv == V!Init => VerifyInv
<1> SUFFICES ASSUME V!Init PROVE VerifyInv
    OBVIOUS
<1>1. V!TypeOK
    <2>1. risky \in BOOLEAN /\ closed \in BOOLEAN
        BY Zenon DEF V!Init
    <2>2. /\ resultCh \in Seq(V!Checks) /\ Len(resultCh) <= 3 /\ results \in Seq(V!Checks)
          /\ ctx \in {"live", "outer", "own"} /\ verdict \in {"running", "nil", "merit", "outer", "own"}
          /\ check \in [V!Checks -> {"running", "returned", "sent", "done"}]
          /\ err \in [V!Checks -> {"none", "nil", "merit", "outer", "own"}]
        BY DEF V!Init
    <2> QED
        BY <2>1, <2>2 DEF V!TypeOK
<1>2. SentInv
    BY DEF V!Init, SentInv, Sent, V!Checks
<1>3. CloseInv /\ OwnInv /\ CauseReported
    BY DEF V!Init, CloseInv, OwnInv, CauseReported, V!CauseReported, V!Checks
<1> QED
    BY <1>1, <1>2, <1>3 DEF VerifyInv

LEMMA OuterDoneVerifyInv == VerifyInv /\ V!OuterDone => VerifyInv'
BY DEF V!OuterDone, VerifyInv, V!TypeOK, SentInv, Sent, CloseInv, OwnInv, FirstFailed,
       CauseReported, V!CauseReported

(* A check that returns has sent nothing, so what was collected stands.    *)
LEMMA ReturnVerifyInv ==
    ASSUME VerifyInv, NEW c \in V!Checks, V!Return(c)
    PROVE  VerifyInv'
<1>1. PICK e \in V!CheckResults(c) : err' = [err EXCEPT ![c] = e]
    BY DEF V!Return
<1>2. /\ check[c] = "running" /\ check' = [check EXCEPT ![c] = "returned"]
      /\ UNCHANGED <<risky, ctx, resultCh, closed, results, verdict>>
    BY DEF V!Return
<1>3. /\ e \in {"nil", "merit", "outer", "own"}
      /\ e = "own" => ctx = "own"
      /\ c = "fraud" /\ risky => e # "nil"
    BY DEF V!CheckResults, VerifyInv, V!TypeOK
<1>4. V!TypeOK'
    BY <1>1, <1>2, <1>3 DEF VerifyInv, V!TypeOK
<1>5. SentInv'
    BY <1>2 DEF VerifyInv, V!TypeOK, SentInv, Sent, V!Checks
<1>6. CloseInv' /\ CauseReported'
    BY <1>2 DEF VerifyInv, V!TypeOK, CloseInv, CauseReported, V!CauseReported
<1>7. \A i \in 1 .. Len(results) : err'[results[i]] = err[results[i]]
    BY <1>1, <1>2 DEF VerifyInv, V!TypeOK, SentInv
<1>8. OwnInv'
    BY <1>1, <1>2, <1>3, <1>7 DEF VerifyInv, V!TypeOK, OwnInv, FirstFailed, V!Checks
<1> QED
    BY <1>4, <1>5, <1>6, <1>8 DEF VerifyInv

LEMMA SendVerifyInv ==
    ASSUME VerifyInv, NEW c \in V!Checks, V!Send(c)
    PROVE  VerifyInv'
<1>1. /\ check[c] = "returned" /\ check' = [check EXCEPT ![c] = "sent"]
      /\ resultCh' = Append(resultCh, c)
      /\ UNCHANGED <<risky, ctx, err, closed, results, verdict>>
    BY DEF V!Send
<1>2. resultCh \in Seq(V!Checks) /\ results \in Seq(V!Checks)
    BY DEF VerifyInv, V!TypeOK
<1>3. /\ Len(resultCh') = Len(resultCh) + 1
      /\ \A i \in 1 .. Len(resultCh) : resultCh'[i] = resultCh[i]
      /\ resultCh'[Len(resultCh) + 1] = c
    BY <1>1, <1>2
<1>4. SentInv'
    <2>1. Sent("fraud")' + Sent("sanctions")' + Sent("bank")'
              = Sent("fraud") + Sent("sanctions") + Sent("bank") + 1
        BY <1>1 DEF VerifyInv, V!TypeOK, Sent, V!Checks
    <2>2. \A d \in V!Checks : check[d] \in {"sent", "done"} => check'[d] \in {"sent", "done"}
        BY <1>1 DEF VerifyInv, V!TypeOK
    <2>3. Len(results)' + Len(resultCh)' = Sent("fraud")' + Sent("sanctions")' + Sent("bank")'
        BY <1>1, <1>2, <1>3, <2>1 DEF VerifyInv, SentInv, Sent
    <2>4. /\ \A i \in 1 .. Len(resultCh') : check'[resultCh'[i]] \in {"sent", "done"}
          /\ \A i \in 1 .. Len(results') : check'[results'[i]] \in {"sent", "done"}
        BY <1>1, <1>2, <1>3, <2>2 DEF VerifyInv, V!TypeOK, SentInv
    <2>5. ASSUME NEW d \in V!Checks, check'[d] \in {"sent", "done"}
          PROVE  \/ \E i \in 1 .. Len(resultCh') : resultCh'[i] = d
                 \/ \E i \in 1 .. Len(results') : results'[i] = d
        <3>1. CASE d = c
            BY <1>2, <1>3, <3>1
        <3>2. CASE d # c
            <4>1. check[d] \in {"sent", "done"}
                BY <1>1, <2>5, <3>2 DEF VerifyInv, V!TypeOK
            <4> QED
                BY <1>1, <1>2, <1>3, <4>1 DEF VerifyInv, SentInv
        <3> QED
            BY <3>1, <3>2
    <2> QED
        BY <2>3, <2>4, <2>5 DEF SentInv
<1>5. V!TypeOK'
    <2>1. Len(resultCh') <= 3
        BY <1>1, <1>2, <1>3, <1>4 DEF SentInv, Sent
    <2> QED
        BY <1>1, <2>1 DEF VerifyInv, V!TypeOK
<1>6. CloseInv' /\ CauseReported'
    BY <1>1 DEF VerifyInv, V!TypeOK, CloseInv, CauseReported, V!CauseReported
<1>7. OwnInv'
    BY <1>1 DEF VerifyInv, V!TypeOK, OwnInv, FirstFailed
<1> QED
    BY <1>4, <1>5, <1>6, <1>7 DEF VerifyInv

LEMMA WgDoneVerifyInv ==
    ASSUME VerifyInv, NEW c \in V!Checks, V!WgDone(c)
    PROVE  VerifyInv'
<1>1. /\ check[c] = "sent" /\ check' = [check EXCEPT ![c] = "done"]
      /\ UNCHANGED <<risky, ctx, err, resultCh, closed, results, verdict>>
    BY DEF V!WgDone
<1>2. \A d \in V!Checks : check'[d] \in {"sent", "done"} <=> check[d] \in {"sent", "done"}
    BY <1>1 DEF VerifyInv, V!TypeOK
<1>3. V!TypeOK'
    BY <1>1 DEF VerifyInv, V!TypeOK
<1>4. SentInv'
    BY <1>1, <1>2 DEF VerifyInv, V!TypeOK, SentInv, Sent, V!Checks
<1>5. CloseInv' /\ CauseReported' /\ OwnInv'
    BY <1>1 DEF VerifyInv, V!TypeOK, CloseInv, CauseReported, V!CauseReported, OwnInv, FirstFailed
<1> QED
    BY <1>3, <1>4, <1>5 DEF VerifyInv

LEMMA CloseVerifyInv == VerifyInv /\ V!CloseResults => VerifyInv'
BY DEF V!CloseResults, V!Waited, VerifyInv, V!TypeOK, SentInv, Sent, CloseInv, OwnInv, FirstFailed,
       CauseReported, V!CauseReported

(* The first failure collected is no cancellation of the function's own,   *)
(* because there was none before it.                                       *)
LEMMA CollectVerifyInv == VerifyInv /\ V!Collect => VerifyInv'
<1> SUFFICES ASSUME VerifyInv, V!Collect PROVE VerifyInv'
    OBVIOUS
<1> DEFINE h == Head(resultCh)
<1>0. PICK n \in Nat : n = Len(results) + 1
    BY DEF VerifyInv, V!TypeOK
<1>1. /\ verdict = "running" /\ resultCh # <<>>
      /\ results' = Append(results, h) /\ resultCh' = Tail(resultCh)
      /\ ctx' = IF err[h] # "nil" /\ ctx = "live" THEN "own" ELSE ctx
      /\ UNCHANGED <<risky, check, err, closed, verdict>>
    BY DEF V!Collect
<1>2. /\ resultCh \in Seq(V!Checks) /\ results \in Seq(V!Checks) /\ Len(resultCh) <= 3
      /\ err \in [V!Checks -> {"none", "nil", "merit", "outer", "own"}]
      /\ check \in [V!Checks -> {"running", "returned", "sent", "done"}]
      /\ ctx \in {"live", "outer", "own"}
    BY DEF VerifyInv, V!TypeOK
<1>3. /\ h \in V!Checks /\ h = resultCh[1]
      /\ Len(resultCh') = Len(resultCh) - 1 /\ Len(resultCh) \in Nat \ {0}
      /\ \A i \in 1 .. Len(resultCh') : resultCh'[i] = resultCh[i + 1]
      /\ \A i \in 1 .. Len(resultCh) : i # 1 => i - 1 \in 1 .. Len(resultCh') /\ resultCh'[i - 1] = resultCh[i]
    BY <1>1, <1>2
<1>4. /\ Len(results') = n
      /\ \A i \in 1 .. Len(results) : results'[i] = results[i]
      /\ results'[n] = h
    BY <1>0, <1>1, <1>2, <1>3
<1>5. check[h] \in {"sent", "done"} /\ err[h] # "none"
    BY <1>2, <1>3 DEF VerifyInv, SentInv, OwnInv
<1> HIDE DEF h
<1>6. V!TypeOK'
    <2>1. resultCh' \in Seq(V!Checks) /\ results' \in Seq(V!Checks)
        BY <1>1, <1>2, <1>3
    <2> QED
        BY <1>1, <1>2, <1>3, <2>1 DEF VerifyInv, V!TypeOK
<1>7. SentInv'
    <2>1. Len(results') + Len(resultCh') = Len(results) + Len(resultCh)
        BY <1>0, <1>2, <1>3, <1>4
    <2>2. /\ \A i \in 1 .. Len(resultCh') : check[resultCh'[i]] \in {"sent", "done"}
          /\ \A i \in 1 .. Len(results') : check[results'[i]] \in {"sent", "done"}
        <3>1. \A i \in 1 .. Len(resultCh) : check[resultCh[i]] \in {"sent", "done"}
            BY DEF VerifyInv, SentInv
        <3>2. \A i \in 1 .. Len(results) : check[results[i]] \in {"sent", "done"}
            BY DEF VerifyInv, SentInv
        <3>3. \A i \in 1 .. Len(resultCh') : i + 1 \in 1 .. Len(resultCh)
            BY <1>3
        <3>4. \A i \in 1 .. Len(results') : i = n \/ i \in 1 .. Len(results)
            BY <1>0, <1>2, <1>4
        <3> QED
            BY <1>3, <1>4, <1>5, <3>1, <3>2, <3>3, <3>4
    <2>3. ASSUME NEW d \in V!Checks, check[d] \in {"sent", "done"}
          PROVE  \/ \E i \in 1 .. Len(resultCh') : resultCh'[i] = d
                 \/ \E i \in 1 .. Len(results') : results'[i] = d
        <3>1. CASE \E i \in 1 .. Len(resultCh) : resultCh[i] = d
            <4>1. PICK i \in 1 .. Len(resultCh) : resultCh[i] = d
                BY <3>1
            <4>2. CASE i = 1
                BY <1>0, <1>2, <1>3, <1>4, <4>1, <4>2
            <4>3. CASE i # 1
                BY <1>3, <4>1, <4>3
            <4> QED
                BY <4>2, <4>3
        <3>2. CASE \E i \in 1 .. Len(results) : results[i] = d
            BY <1>0, <1>2, <1>4, <3>2
        <3> QED
            BY <2>3, <3>1, <3>2 DEF VerifyInv, SentInv
    <2> QED
        BY <1>1, <2>1, <2>2, <2>3 DEF VerifyInv, SentInv, Sent
<1>8. CloseInv' /\ CauseReported'
    BY <1>1 DEF VerifyInv, CloseInv, CauseReported, V!CauseReported
<1>9. OwnInv'
    <2>1. CASE \E i \in 1 .. Len(results) : err[results[i]] # "nil"
        <3>1. PICK i \in 1 .. Len(results) : FirstFailed(i) /\ err[results[i]] # "own"
            BY <2>1 DEF VerifyInv, OwnInv
        <3>2. i \in 1 .. Len(results') /\ FirstFailed(i)' /\ err[results'[i]] # "own" /\ err[results'[i]] # "nil"
            BY <1>0, <1>1, <1>2, <1>4, <3>1 DEF FirstFailed
        <3>3. ctx' # "own" => ctx # "own"
            BY <1>1
        <3> QED
            BY <1>1, <3>2, <3>3 DEF VerifyInv, OwnInv
    <2>2. CASE (\A i \in 1 .. Len(results) : err[results[i]] = "nil") /\ err[h] = "nil"
        <3>1. \A i \in 1 .. Len(results') : err[results'[i]] = "nil"
            BY <1>0, <1>2, <1>4, <2>2
        <3>2. ctx' = ctx /\ ctx # "own"
            BY <1>1, <2>2 DEF VerifyInv, OwnInv
        <3> QED
            BY <1>1, <3>1, <3>2 DEF VerifyInv, OwnInv
    <2>3. CASE (\A i \in 1 .. Len(results) : err[results[i]] = "nil") /\ err[h] # "nil"
        <3>1. ctx # "own" /\ err[h] # "own"
            BY <1>3, <2>3 DEF VerifyInv, OwnInv
        <3>2. n \in 1 .. Len(results') /\ FirstFailed(n)' /\ err[results'[n]] # "own" /\ err[results'[n]] # "nil"
            BY <1>0, <1>1, <1>2, <1>4, <2>3, <3>1 DEF FirstFailed
        <3>3. \A d \in V!Checks : err[d] # "own"
            BY <3>1 DEF VerifyInv, OwnInv
        <3> QED
            BY <1>1, <3>2, <3>3 DEF VerifyInv, OwnInv
    <2> QED
        BY <2>1, <2>2, <2>3
<1> QED
    BY <1>6, <1>7, <1>8, <1>9 DEF VerifyInv

LEMMA DecideVerifyInv == VerifyInv /\ V!Decide => VerifyInv'
<1> SUFFICES ASSUME VerifyInv, V!Decide PROVE VerifyInv'
    OBVIOUS
<1>1. /\ verdict = "running" /\ resultCh = <<>> /\ closed
      /\ verdict' = IF V!Failed = {} THEN "nil"
                    ELSE err[results[CHOOSE i \in V!Failed : \A k \in V!Failed : i <= k]]
      /\ UNCHANGED <<risky, ctx, check, err, resultCh, closed, results>>
    BY DEF V!Decide
<1>2. /\ results \in Seq(V!Checks) /\ err \in [V!Checks -> {"none", "nil", "merit", "outer", "own"}]
      /\ "fraud" \in V!Checks
    BY DEF VerifyInv, V!TypeOK, V!Checks
<1>3. PICK f \in 1 .. Len(results) : results[f] = "fraud"
    <2>1. check["fraud"] = "done"
        BY <1>1, <1>2 DEF VerifyInv, CloseInv
    <2>2. \/ \E i \in 1 .. Len(resultCh) : resultCh[i] = "fraud"
          \/ \E i \in 1 .. Len(results) : results[i] = "fraud"
        BY <1>2, <2>1 DEF VerifyInv, SentInv
    <2> QED
        BY <1>1, <2>2
<1>4. CASE V!Failed = {}
    <2>1. err["fraud"] = "nil"
        BY <1>3, <1>4 DEF V!Failed
    <2>2. verdict' = "nil" /\ ~risky
        BY <1>1, <1>4, <2>1 DEF VerifyInv, OwnInv
    <2> QED
        BY <1>1, <2>2 DEF VerifyInv, V!TypeOK, SentInv, Sent, CloseInv, OwnInv, FirstFailed,
                          CauseReported, V!CauseReported
<1>5. CASE V!Failed # {}
    <2>1. PICK i \in 1 .. Len(results) : FirstFailed(i) /\ err[results[i]] # "own"
        BY <1>5 DEF VerifyInv, OwnInv, V!Failed
    <2>2. i \in V!Failed /\ \A k \in V!Failed : i <= k
        BY <1>2, <2>1 DEF V!Failed, FirstFailed
    <2>3. \A j \in V!Failed : (\A k \in V!Failed : j <= k) => j = i
        BY <1>2, <2>2 DEF V!Failed
    <2>4. (CHOOSE j \in V!Failed : \A k \in V!Failed : j <= k) = i
        BY <2>2, <2>3
    <2>5. verdict' = err[results[i]] /\ verdict' \in {"merit", "outer"}
        <3>1. check[results[i]] # "running" /\ results[i] \in V!Checks
            BY <1>2 DEF VerifyInv, SentInv
        <3>2. err[results[i]] \notin {"none", "nil", "own"}
            BY <2>1, <3>1 DEF VerifyInv, OwnInv, FirstFailed
        <3> QED
            BY <1>1, <1>2, <1>5, <2>4, <3>1, <3>2
    <2> QED
        BY <1>1, <2>5 DEF VerifyInv, V!TypeOK, SentInv, Sent, CloseInv, OwnInv, FirstFailed,
                          CauseReported, V!CauseReported
<1> QED
    BY <1>4, <1>5

LEMMA NextVerifyInv == VerifyInv /\ [V!Next]_(V!vars) => VerifyInv'
<1> SUFFICES ASSUME VerifyInv, [V!Next]_(V!vars) PROVE VerifyInv'
    OBVIOUS
<1>1. CASE UNCHANGED V!vars
    BY <1>1 DEF V!vars, VerifyInv, V!TypeOK, SentInv, Sent, CloseInv, OwnInv, FirstFailed,
                CauseReported, V!CauseReported
<1> QED
    BY <1>1, OuterDoneVerifyInv, ReturnVerifyInv, SendVerifyInv, WgDoneVerifyInv, CloseVerifyInv,
       CollectVerifyInv, DecideVerifyInv DEF V!Next

(* The invariant of the three checks and their collector holds in every    *)
(* reachable state of VerifyTransaction.                                   *)
THEOREM VerifyInvariance == V!Spec => []VerifyInv
BY InitVerifyInv, NextVerifyInv, PTL DEF V!Spec

(* VerifyTransaction stays in its state space, and its channel within its  *)
(* buffer: no send blocks.                                                 *)
THEOREM VerifyTypeCorrect == V!Spec => []V!TypeOK
<1>1. VerifyInv => V!TypeOK
    BY DEF VerifyInv
<1> QED
    BY <1>1, VerifyInvariance, PTL

(* Whatever the schedule, VerifyTransaction returns with the result of     *)
(* every check, once each.                                                 *)
THEOREM EveryCheckIsReported == V!Spec => []EveryCheckReported
<1>1. VerifyInv => EveryCheckReported
    <2> SUFFICES ASSUME VerifyInv, verdict # "running"
                 PROVE  Len(results) = 3 /\ {results[i] : i \in 1 .. Len(results)} = V!Checks
        BY DEF EveryCheckReported, V!EveryCheckReported
    <2>1. resultCh = <<>> /\ \A c \in V!Checks : check[c] = "done"
        BY DEF VerifyInv, CloseInv
    <2>2. results \in Seq(V!Checks)
        BY DEF VerifyInv, V!TypeOK
    <2>3. Len(results) = 3
        BY <2>1, <2>2 DEF VerifyInv, SentInv, Sent, V!Checks
    <2>4. \A c \in V!Checks : \E i \in 1 .. Len(results) : results[i] = c
        BY <2>1 DEF VerifyInv, SentInv
    <2>5. \A i \in 1 .. Len(results) : results[i] \in V!Checks
        BY <2>2
    <2>6. {results[i] : i \in 1 .. Len(results)} = V!Checks
        BY <2>4, <2>5, Zenon
    <2> QED
        BY <2>3, <2>6
<1> QED
    BY <1>1, VerifyInvariance, PTL

(* Whatever the schedule, the error VerifyTransaction returns is a cause   *)
(* and not its own cancellation, and a high-risk amount never passes.      *)
THEOREM CauseIsReported == V!Spec => []CauseReported
<1>1. VerifyInv => CauseReported
    BY DEF VerifyInv
<1> QED
    BY <1>1, VerifyInvariance, PTL

-----------------------------------------------------------------------------
(* ProcessConcurrently.                                                    *)

(* Goroutines that have not signed off, and those that hold a token.       *)
Live == {i \in P!Index : item[i] \in {"started", "working", "stored", "released"}}
Holders == {i \in P!Index : item[i] \in {"started", "working", "stored"}}

(* The counters count them, the loop has started those below next, and a   *)
(* goroutine that is past its work has stored a result.                    *)
ProcessInv ==
    /\ P!TypeOK
    /\ wg = Cardinality(Live)
    /\ sem = Cardinality(Holders)
    /\ \A i \in P!Index : item[i] = "none" <=> i >= next
    /\ \A i \in P!Index : item[i] \in {"stored", "released", "done"} => outputs[i] # "unset"
    /\ returned => \A i \in P!Index : item[i] = "done"

(* Adding and removing an element of a set of indexes.                     *)
LEMMA IndexSets ==
    ASSUME NEW S \in SUBSET P!Index
    PROVE  /\ Cardinality(S) \in 0 .. Items
           /\ Cardinality(S) = 0 => S = {}
           /\ \A i \in P!Index : i \notin S => Cardinality(S \cup {i}) = Cardinality(S) + 1
           /\ \A i \in S : Cardinality(S \ {i}) = Cardinality(S) - 1
<1>1. IsFiniteSet(P!Index) /\ Cardinality(P!Index) = Items
    BY SizeAssumption, FS_Interval DEF P!Index
<1>2. IsFiniteSet(S) /\ Cardinality(S) <= Items
    BY <1>1, FS_Subset
<1>3. Cardinality(S) \in Nat
    BY <1>2, FS_CardinalityType
<1>4. Cardinality(S) = 0 => S = {}
    BY <1>2, FS_EmptySet
<1>5. \A i \in P!Index : i \notin S => Cardinality(S \cup {i}) = Cardinality(S) + 1
    BY <1>2, FS_AddElement
<1>6. \A i \in S : Cardinality(S \ {i}) = Cardinality(S) - 1
    BY <1>2, FS_RemoveElement
<1> QED
    BY <1>2, <1>3, <1>4, <1>5, <1>6, SizeAssumption

LEMMA InitProcessInv == P!Init => ProcessInv
<1> SUFFICES ASSUME P!Init PROVE ProcessInv
    OBVIOUS
<1>1. Live = {} /\ Holders = {}
    BY DEF P!Init, Live, Holders
<1>2. Cardinality({}) = 0
    BY FS_EmptySet
<1>3. stopped \in BOOLEAN /\ returned \in BOOLEAN
    BY Zenon DEF P!Init
<1>4. next = 1 /\ sem = 0 /\ wg = 0 /\ returned = FALSE
    BY Zenon DEF P!Init
<1>5. item = [i \in P!Index |-> "none"] /\ outputs = [i \in P!Index |-> "unset"]
    BY DEF P!Init
<1>6. P!TypeOK
    BY <1>3, <1>4, <1>5, SizeAssumption DEF P!TypeOK
<1> QED
    BY <1>1, <1>2, <1>4, <1>5, <1>6, SizeAssumption DEF ProcessInv, P!Index

(* The indexes from next on have no goroutine, so a new one adds to both   *)
(* counts.                                                                 *)
LEMMA StartProcessInv == ProcessInv /\ P!Start => ProcessInv'
<1> SUFFICES ASSUME ProcessInv, P!Start PROVE ProcessInv'
    OBVIOUS
<1>1. /\ next <= Items /\ sem < Concurrency
      /\ wg' = wg + 1 /\ sem' = sem + 1 /\ next' = next + 1
      /\ item' = [item EXCEPT ![next] = "started"]
      /\ UNCHANGED <<stopped, outputs, returned>>
    BY DEF P!Start
<1>2. /\ next \in P!Index /\ item[next] = "none"
      /\ item \in [P!Index -> {"none", "started", "working", "stored", "released", "done"}]
    BY <1>1, SizeAssumption DEF ProcessInv, P!TypeOK, P!Index
<1>3. Live' = Live \cup {next} /\ next \notin Live
    BY <1>1, <1>2 DEF Live
<1>4. Holders' = Holders \cup {next} /\ next \notin Holders
    BY <1>1, <1>2 DEF Holders
<1>5. Cardinality(Live') = wg' /\ Cardinality(Holders') = sem'
    <2>1. Live \in SUBSET P!Index /\ Holders \in SUBSET P!Index
        BY DEF Live, Holders
    <2> QED
        BY <1>1, <1>2, <1>3, <1>4, <2>1, IndexSets DEF ProcessInv
<1>6. Live' \in SUBSET P!Index
    BY <1>2, <1>3 DEF Live
<1>7. wg' \in 0 .. Items
    BY <1>5, <1>6, IndexSets
<1>8. P!TypeOK'
    BY <1>1, <1>2, <1>7, SizeAssumption DEF ProcessInv, P!TypeOK
<1>9. /\ \A i \in P!Index : item'[i] = "none" <=> i >= next'
      /\ \A i \in P!Index : item'[i] \in {"stored", "released", "done"} => outputs'[i] # "unset"
    BY <1>1, <1>2, SizeAssumption DEF ProcessInv, P!TypeOK, P!Index
<1>10. ~returned
    BY <1>2 DEF ProcessInv
<1> QED
    BY <1>1, <1>5, <1>8, <1>9, <1>10 DEF ProcessInv

LEMMA BeginProcessInv ==
    ASSUME ProcessInv, NEW i \in P!Index, P!Begin(i) \/ P!Store(i)
    PROVE  ProcessInv'
<1>1. PICK s \in {"stored", "working"}, r \in {"unset", "processed", "error"} :
          /\ item' = [item EXCEPT ![i] = s]
          /\ outputs' = [outputs EXCEPT ![i] = r]
          /\ s = "stored" => r # "unset"
          /\ item[i] \in {"started", "working"}
          /\ UNCHANGED <<stopped, next, sem, wg, returned>>
    <2>1. outputs[i] \in {"unset", "processed", "error"}
        BY DEF ProcessInv, P!TypeOK
    <2>2. CASE P!Begin(i) /\ stopped
        BY <2>2 DEF P!Begin
    <2>3. CASE P!Begin(i) /\ ~stopped
        BY <2>1, <2>3 DEF P!Begin
    <2>4. CASE P!Store(i)
        BY <2>4 DEF P!Store
    <2> QED
        BY <2>2, <2>3, <2>4
<1>2. Live' = Live /\ Holders' = Holders
    BY <1>1 DEF ProcessInv, P!TypeOK, Live, Holders
<1>3. P!TypeOK'
    BY <1>1 DEF ProcessInv, P!TypeOK
<1> QED
    BY <1>1, <1>2, <1>3 DEF ProcessInv, P!TypeOK

LEMMA ReleaseProcessInv ==
    ASSUME ProcessInv, NEW i \in P!Index, P!Release(i)
    PROVE  ProcessInv'
<1>1. /\ item[i] = "stored" /\ item' = [item EXCEPT ![i] = "released"]
      /\ sem' = sem - 1
      /\ UNCHANGED <<stopped, next, wg, outputs, returned>>
    BY DEF P!Release
<1>2. Live' = Live /\ Holders' = Holders \ {i} /\ i \in Holders
    BY <1>1 DEF ProcessInv, P!TypeOK, Live, Holders
<1>3. Cardinality(Holders') = sem'
    <2>1. Holders \in SUBSET P!Index
        BY DEF Holders
    <2> QED
        BY <1>1, <1>2, <2>1, IndexSets DEF ProcessInv
<1>4. sem' \in 0 .. Concurrency
    <2>1. Holders' \in SUBSET P!Index
        BY <1>2 DEF Holders
    <2>2. Cardinality(Holders') \in Nat
        BY <2>1, IndexSets
    <2> QED
        BY <1>1, <1>3, <2>2, SizeAssumption DEF ProcessInv, P!TypeOK
<1>5. P!TypeOK'
    BY <1>1, <1>4 DEF ProcessInv, P!TypeOK
<1> QED
    BY <1>1, <1>2, <1>3, <1>5 DEF ProcessInv, P!TypeOK

LEMMA WgDoneProcessInv ==
    ASSUME ProcessInv, NEW i \in P!Index, P!WgDone(i)
    PROVE  ProcessInv'
<1>1. /\ item[i] = "released" /\ item' = [item EXCEPT ![i] = "done"]
      /\ wg' = wg - 1
      /\ UNCHANGED <<stopped, next, sem, outputs, returned>>
    BY DEF P!WgDone
<1>2. Holders' = Holders /\ Live' = Live \ {i} /\ i \in Live
    BY <1>1 DEF ProcessInv, P!TypeOK, Live, Holders
<1>3. Cardinality(Live') = wg'
    <2>1. Live \in SUBSET P!Index
        BY DEF Live
    <2> QED
        BY <1>1, <1>2, <2>1, IndexSets DEF ProcessInv
<1>4. wg' \in 0 .. Items
    <2>1. Live' \in SUBSET P!Index
        BY <1>2 DEF Live
    <2> QED
        BY <1>3, <2>1, IndexSets
<1>5. P!TypeOK'
    BY <1>1, <1>4 DEF ProcessInv, P!TypeOK
<1> QED
    BY <1>1, <1>2, <1>3, <1>5 DEF ProcessInv, P!TypeOK

(* A wait group at zero after the loop: every goroutine was started and    *)
(* none is live.                                                           *)
LEMMA ReturnProcessInv == ProcessInv /\ P!Return => ProcessInv'
<1> SUFFICES ASSUME ProcessInv, P!Return PROVE ProcessInv'
    OBVIOUS
<1>1. /\ next > Items /\ wg = 0 /\ returned' = TRUE
      /\ UNCHANGED <<stopped, next, sem, wg, item, outputs>>
    BY DEF P!Return
<1>2. Live = {}
    <2>1. Live \in SUBSET P!Index
        BY DEF Live
    <2> QED
        BY <1>1, <2>1, IndexSets DEF ProcessInv
<1>3. \A i \in P!Index : item[i] # "none"
    BY <1>1, SizeAssumption DEF ProcessInv, P!TypeOK, P!Index
<1>4. \A i \in P!Index : item[i] = "done"
    BY <1>2, <1>3 DEF ProcessInv, P!TypeOK, Live
<1>5. Live' = Live /\ Holders' = Holders
    BY <1>1 DEF Live, Holders
<1>6. P!TypeOK'
    BY <1>1 DEF ProcessInv, P!TypeOK
<1> QED
    BY <1>1, <1>4, <1>5, <1>6 DEF ProcessInv

LEMMA NextProcessInv == ProcessInv /\ [P!Next]_(P!vars) => ProcessInv'
<1> SUFFICES ASSUME ProcessInv, [P!Next]_(P!vars) PROVE ProcessInv'
    OBVIOUS
<1>1. CASE P!Cancel \/ UNCHANGED P!vars
    <2>1. /\ UNCHANGED <<next, sem, wg, item, outputs, returned>>
          /\ stopped' \in BOOLEAN
        BY <1>1 DEF P!Cancel, P!vars, ProcessInv, P!TypeOK
    <2>2. Live' = Live /\ Holders' = Holders
        BY <2>1 DEF Live, Holders
    <2> QED
        BY <2>1, <2>2 DEF ProcessInv, P!TypeOK
<1> QED
    BY <1>1, StartProcessInv, BeginProcessInv, ReleaseProcessInv, WgDoneProcessInv,
       ReturnProcessInv DEF P!Next

(* The wait group and the semaphore count the goroutines in every          *)
(* reachable state of ProcessConcurrently.                                 *)
THEOREM ProcessInvariance == P!Spec => []ProcessInv
BY InitProcessInv, NextProcessInv, PTL DEF P!Spec

(* ProcessConcurrently stays in its state space: the semaphore within its  *)
(* capacity, the wait group never negative.                                *)
THEOREM ProcessTypeCorrect == P!Spec => []P!TypeOK
<1>1. ProcessInv => P!TypeOK
    BY DEF ProcessInv
<1> QED
    BY <1>1, ProcessInvariance, PTL

(* For every number of items and every capacity, the results are complete  *)
(* and no longer written to when ProcessConcurrently returns.              *)
THEOREM ResultsAreComplete == P!Spec => []ResultsComplete
<1>1. ProcessInv => ResultsComplete
    BY DEF ProcessInv, ResultsComplete, P!ResultsComplete
<1> QED
    BY <1>1, ProcessInvariance, PTL

-----------------------------------------------------------------------------
(* The walk over the pages of a listing.                                   *)

(* The rows that come before t in every order the database may choose.     *)
Newer(t) == {u \in L!Rows : created[u] > created[t]}

(* The rows that the walk owes its client.                                 *)
Owed == {t \in old : L!AloneInTime(t) /\ t \notin seen}

(* Those are at the next offset or behind it: inserts only move rows to    *)
(* later pages.                                                            *)
ListInv ==
    /\ L!TypeOK
    /\ walk \in {"count", "page"} =>
          params.offset = IF query.offset <= 0 THEN 0 ELSE query.offset
    /\ walk # "ended" => \A t \in Owed : Cardinality(Newer(t)) >= query.offset

(* The library's operators, as Pagination extends it.                      *)
LEMMA ListLibrary ==
    /\ \A S : L!Cardinality(S) = Cardinality(S)
    /\ \A S : L!Max(S) = Max(S) /\ L!Min(S) = Min(S)
    /\ \A k, S : L!kSubset(k, S) = kSubset(k, S)
<1>1. \A S : L!Cardinality(S) = Cardinality(S)
    BY Zenon DEF L!Cardinality, Cardinality
<1>2. \A S : L!Max(S) = Max(S) /\ L!Min(S) = Min(S)
    BY Zenon DEF L!Max, L!Min, Max, Min
<1>3. \A k, S : L!kSubset(k, S) = kSubset(k, S)
    BY <1>1, Zenon DEF L!kSubset, kSubset
<1> QED
    BY <1>1, <1>2, <1>3

LEMMA RowSets ==
    ASSUME L!TypeOK, NEW S \in SUBSET L!Rows
    PROVE  /\ IsFiniteSet(S) /\ IsFiniteSet(L!Rows)
           /\ Cardinality(S) \in Nat /\ Cardinality(L!Rows) \in Nat
           /\ Cardinality(S) <= Cardinality(L!Rows)
           /\ Cardinality(S) = Cardinality(L!Rows) => S = L!Rows
           /\ \A T \in SUBSET S : /\ Cardinality(T) \in Nat
                                  /\ Cardinality(T) <= Cardinality(S)
                                  /\ Cardinality(T) = Cardinality(S) => T = S
<1>1. L!Rows \subseteq Txs
    BY DEF L!Rows
<1>2. IsFiniteSet(L!Rows)
    BY <1>1, TxsAssumption, FS_Subset
<1>3. \A A : IsFiniteSet(A) => \A B \in SUBSET A :
          /\ IsFiniteSet(B) /\ Cardinality(B) <= Cardinality(A)
          /\ Cardinality(A) = Cardinality(B) => B = A
    BY FS_Subset
<1>4. IsFiniteSet(S) /\ \A T \in SUBSET S : IsFiniteSet(T)
    BY <1>2, <1>3
<1>5. \A A : IsFiniteSet(A) => Cardinality(A) \in Nat
    BY FS_CardinalityType
<1> QED
    BY <1>2, <1>3, <1>4, <1>5

(* A page at the offset either has a row it owes or ends before it.        *)
LEMMA PageReaches ==
    ASSUME L!TypeOK, NEW skipped \in L!Firsts(params.offset),
           NEW S \in L!Firsts(params.offset + params.limit),
           NEW t \in L!Rows, L!AloneInTime(t),
           Cardinality(Newer(t)) >= params.offset, t \notin S \ skipped
    PROVE  Cardinality(Newer(t)) >= params.offset + params.limit /\ S # skipped
<1> DEFINE N == Cardinality(L!Rows)
           o == params.offset
           e == params.offset + params.limit
<1>1. o \in Nat /\ e \in Nat /\ o < e /\ N \in Nat
    <2>1. params.offset \in Nat /\ params.limit \in 1..MaxLimit
        BY DEF L!TypeOK
    <2>2. N \in Nat
        BY RowSets
    <2> QED
        BY <2>1, <2>2, LimitAssumption
<1>3. /\ skipped \in SUBSET L!Rows /\ Cardinality(skipped) = Min({o, N}) /\ L!Prefix(skipped)
      /\ S \in SUBSET L!Rows /\ Cardinality(S) = Min({e, N}) /\ L!Prefix(S)
    BY ListLibrary DEF L!Firsts, kSubset
<1> HIDE DEF o, e
<1>4. /\ Min({o, N}) = IF o <= N THEN o ELSE N
      /\ Min({e, N}) = IF e <= N THEN e ELSE N
    BY <1>1, MinMaxPair
<1>5. \A u \in L!Rows : created[u] \in Nat
    BY TxsAssumption DEF L!TypeOK, L!Rows
<1>6. Newer(t) \in SUBSET L!Rows /\ t \notin Newer(t)
    BY <1>5 DEF Newer
<1>7. t \notin skipped
    <2> SUFFICES ASSUME t \in skipped PROVE FALSE
        OBVIOUS
    <2>1. Newer(t) \subseteq skipped
        BY <1>3, <1>5 DEF Newer, L!Prefix
    <2>2. Newer(t) # skipped
        BY <1>6
    <2>3. Cardinality(Newer(t)) < Cardinality(skipped)
        BY <1>3, <1>6, <2>1, <2>2, RowSets
    <2>4. Cardinality(Newer(t)) >= o /\ Cardinality(Newer(t)) \in Nat
        BY <1>6, RowSets DEF o
    <2> QED
        BY <1>1, <1>3, <1>4, <2>3, <2>4
<1>8. t \notin S
    BY <1>7
<1>9. Cardinality(S) = e
    <2>1. Cardinality(S) # N
        BY <1>3, <1>8, RowSets
    <2> QED
        BY <1>1, <1>3, <1>4, <2>1
<1>10. S \subseteq Newer(t)
    BY <1>3, <1>5, <1>8 DEF Newer, L!Prefix, L!AloneInTime
<1>11. Cardinality(Newer(t)) >= e
    BY <1>1, <1>6, <1>9, <1>10, RowSets
<1>12. S # skipped
    BY <1>1, <1>3, <1>4, <1>9
<1> QED
    BY <1>11, <1>12 DEF e

LEMMA InitListInv == L!Init => ListInv
<1> SUFFICES ASSUME L!Init PROVE ListInv
    OBVIOUS
<1>1. /\ created \in [Txs -> Times \cup {0}] /\ old = L!Rows
      /\ query \in [limit : LimitQueries, offset : OffsetQueries]
      /\ params = [limit |-> DefaultLimit, offset |-> 0]
      /\ total = 0 /\ seen = {} /\ walk = "ask"
    BY DEF L!Init
<1>2. IsFiniteSet(L!Rows)
    BY TxsAssumption, FS_Subset DEF L!Rows
<1>3. Cardinality(L!Rows) \in Nat
    BY <1>2, FS_CardinalityType
<1>4. L!TypeOK
    <2>1. query \in [limit : LimitQueries, offset : Int]
        BY <1>1, QueriesAssumption
    <2>2. params \in [limit : 1..MaxLimit, offset : Nat]
        BY <1>1, LimitAssumption
    <2>3. total \in 0..Cardinality(L!Rows)
        BY <1>1, <1>3
    <2> QED
        BY <1>1, <2>1, <2>2, <2>3, ListLibrary DEF L!TypeOK
<1>5. ASSUME NEW t \in Owed PROVE Cardinality(Newer(t)) >= query.offset
    <2>1. Cardinality(Newer(t)) \in Nat
        BY <1>4, RowSets DEF Newer
    <2>2. query.offset \in Int /\ query.offset <= 0
        <3>1. query.offset \in OffsetQueries
            BY <1>1
        <3>2. query.offset \in Int /\ query.offset \notin Nat \ {0}
            BY <3>1, QueriesAssumption
        <3> QED
            BY <3>2
    <2> QED
        BY <2>1, <2>2
<1> QED
    BY <1>1, <1>4, <1>5 DEF ListInv

LEMMA AskListInv == ListInv /\ L!Ask => ListInv'
<1> SUFFICES ASSUME ListInv, L!Ask PROVE ListInv'
    OBVIOUS
<1>1. /\ walk = "ask" /\ walk' = "count"
      /\ params' = [limit |-> L!LimitOf(query.limit), offset |-> L!OffsetOf(query.offset)]
      /\ UNCHANGED <<created, old, query, total, seen>>
    BY DEF L!Ask
<1>2. query.limit \in Int /\ query.offset \in Int
    BY QueriesAssumption DEF ListInv, L!TypeOK
<1>3. L!LimitOf(query.limit) \in 1..MaxLimit
    BY <1>2, LimitAssumption DEF L!LimitOf
<1>4. L!OffsetOf(query.offset) = IF query.offset <= 0 THEN 0 ELSE query.offset
    <2>1. L!OffsetOf(query.offset) = Max({query.offset, 0})
        BY ListLibrary DEF L!OffsetOf
    <2>2. \A q \in Int : Max({q, 0}) = IF q <= 0 THEN 0 ELSE q
        BY MinMaxPair
    <2> QED
        BY <1>2, <2>1, <2>2
<1>5. L!TypeOK'
    BY <1>1, <1>2, <1>3, <1>4 DEF ListInv, L!TypeOK, L!Rows
<1>6. Owed' = Owed /\ \A t \in Owed : Newer(t)' = Newer(t)
    BY <1>1 DEF Owed, Newer, L!AloneInTime, L!Rows
<1> QED
    BY <1>1, <1>4, <1>5, <1>6 DEF ListInv

LEMMA QuietListInv ==
    ListInv /\ (L!Count \/ L!Fail \/ UNCHANGED L!vars) => ListInv'
<1> SUFFICES ASSUME ListInv, L!Count \/ L!Fail \/ UNCHANGED L!vars PROVE ListInv'
    OBVIOUS
<1>1. /\ UNCHANGED <<created, old, query, params, seen>>
      /\ walk' = walk \/ (walk \in {"count", "page"} /\ walk' \in {"ask", "page"})
      /\ total' = total \/ total' = Cardinality(L!Rows)
    <2>1. CASE L!Count
        BY <2>1, ListLibrary DEF L!Count
    <2>2. CASE L!Fail
        BY <2>2 DEF L!Fail
    <2>3. CASE UNCHANGED L!vars
        BY <2>3 DEF L!vars
    <2> QED
        BY <2>1, <2>2, <2>3
<1>2. Cardinality(L!Rows) \in Nat
    BY RowSets DEF ListInv
<1>3. L!TypeOK'
    <2>1. L!Rows' = L!Rows
        BY <1>1 DEF L!Rows
    <2>2. total' \in 0..Cardinality(L!Rows)
        BY <1>1, <1>2, ListLibrary DEF ListInv, L!TypeOK
    <2> QED
        BY <1>1, <2>1, <2>2, ListLibrary DEF ListInv, L!TypeOK
<1>4. Owed' = Owed /\ \A t \in Owed : Newer(t)' = Newer(t)
    BY <1>1 DEF Owed, Newer, L!AloneInTime, L!Rows
<1> QED
    BY <1>1, <1>3, <1>4 DEF ListInv

(* A row that the page does not have is behind the next offset.            *)
LEMMA PageListInv == ListInv /\ L!Page => ListInv'
<1> SUFFICES ASSUME ListInv, L!Page PROVE ListInv'
    OBVIOUS
<1>1. PICK skipped \in L!Firsts(params.offset), S \in L!Firsts(params.offset + params.limit) :
          seen' = seen \cup (S \ skipped) /\ walk' = IF S = skipped THEN "ended" ELSE "ask"
    BY DEF L!Page
<1>2. /\ walk = "page"
      /\ query' = [query EXCEPT !.offset = params.offset + params.limit]
      /\ UNCHANGED <<created, old, params, total>>
    BY DEF L!Page, L!MetaLimit
<1>3. params.offset \in Nat /\ params.limit \in 1..MaxLimit /\ query.offset \in Int
    BY DEF ListInv, L!TypeOK
<1>4. L!TypeOK'
    <2>1. L!Rows' = L!Rows /\ S \subseteq L!Rows
        BY <1>2 DEF L!Rows, L!Firsts, L!kSubset
    <2>2. query' \in [limit : LimitQueries, offset : Int]
        BY <1>2, <1>3, LimitAssumption DEF ListInv, L!TypeOK
    <2> QED
        BY <1>1, <1>2, <2>1, <2>2 DEF ListInv, L!TypeOK
<1>5. query'.offset = params.offset + params.limit
    BY <1>2 DEF ListInv, L!TypeOK
<1>6. ASSUME NEW t \in Owed' PROVE Cardinality(Newer(t)') >= query'.offset
    <2>1. t \in Owed /\ t \notin S \ skipped /\ t \in L!Rows /\ L!AloneInTime(t) /\ Newer(t)' = Newer(t)
        BY <1>1, <1>2 DEF Owed, Newer, L!AloneInTime, L!Rows, ListInv, L!TypeOK
    <2>2. Cardinality(Newer(t)) \in Nat
        BY RowSets DEF ListInv, Newer
    <2>3. Cardinality(Newer(t)) >= params.offset
        BY <1>2, <1>3, <2>1, <2>2 DEF ListInv
    <2> QED
        BY <1>5, <2>1, <2>3, PageReaches DEF ListInv
<1> QED
    BY <1>1, <1>4, <1>6 DEF ListInv

(* An insert adds rows before an owed one or puts it next to another.      *)
LEMMA InsertListInv ==
    ASSUME ListInv, NEW t \in Txs, L!Insert(t)
    PROVE  ListInv'
<1>1. PICK time \in Times : created' = [created EXCEPT ![t] = time]
    BY DEF L!Insert
<1>2. t \notin L!Rows /\ UNCHANGED <<old, query, params, total, seen, walk>>
    BY DEF L!Insert
<1>3. created \in [Txs -> Times \cup {0}] /\ time # 0
    BY TxsAssumption DEF ListInv, L!TypeOK
<1>4. /\ L!Rows' = L!Rows \cup {t}
      /\ \A u \in L!Rows : created'[u] = created[u]
      /\ created' \in [Txs -> Times \cup {0}]
    BY <1>1, <1>2, <1>3 DEF L!Rows
<1>5. /\ IsFiniteSet(L!Rows') /\ Cardinality(L!Rows') \in Nat
      /\ Cardinality(L!Rows) \in Nat /\ Cardinality(L!Rows) <= Cardinality(L!Rows')
    <2>1. L!Rows' \subseteq Txs
        BY <1>3, <1>4 DEF L!Rows
    <2>2. IsFiniteSet(L!Rows')
        BY <2>1, TxsAssumption, FS_Subset
    <2> QED
        BY <1>4, <2>2, FS_Subset, FS_CardinalityType
<1>6. L!TypeOK'
    <2>1. total' \in 0..Cardinality(L!Rows')
        BY <1>2, <1>5, ListLibrary DEF ListInv, L!TypeOK
    <2>2. old' \subseteq L!Rows' /\ seen' \subseteq L!Rows'
        BY <1>2, <1>4 DEF ListInv, L!TypeOK
    <2> QED
        BY <1>2, <1>4, <2>1, <2>2, ListLibrary DEF ListInv, L!TypeOK
<1>7. ASSUME NEW u \in Owed' PROVE u \in Owed /\ Cardinality(Newer(u)') >= Cardinality(Newer(u))
    <2>1. u \in old /\ u \in L!Rows /\ u \notin seen /\ L!AloneInTime(u)'
        BY <1>2 DEF Owed, ListInv, L!TypeOK
    <2>2. L!AloneInTime(u)
        BY <1>2, <1>4, <2>1 DEF L!AloneInTime
    <2>3. Newer(u) \subseteq Newer(u)'
        BY <1>4, <2>1 DEF Newer
    <2>4. Newer(u)' \subseteq L!Rows'
        BY DEF Newer
    <2>5. IsFiniteSet(Newer(u)')
        BY <1>5, <2>4, FS_Subset
    <2>6. Cardinality(Newer(u)) <= Cardinality(Newer(u)')
        BY <2>3, <2>5, FS_Subset
    <2>7. Cardinality(Newer(u)) \in Nat /\ Cardinality(Newer(u)') \in Nat
        BY <2>3, <2>5, FS_Subset, FS_CardinalityType
    <2> QED
        BY <2>1, <2>2, <2>6, <2>7 DEF Owed
<1>8. ASSUME NEW u \in Owed', walk' # "ended" PROVE Cardinality(Newer(u)') >= query'.offset
    <2>1. u \in Owed /\ Cardinality(Newer(u)') >= Cardinality(Newer(u))
        BY <1>7
    <2>2. Cardinality(Newer(u)) >= query.offset
        BY <1>2, <1>8, <2>1 DEF ListInv
    <2>3. Cardinality(Newer(u)) \in Nat /\ Cardinality(Newer(u)') \in Nat /\ query.offset \in Int
        <3>1. Cardinality(Newer(u)) \in Nat
            BY RowSets DEF ListInv, Newer
        <3>2. IsFiniteSet(Newer(u)')
            BY <1>5, FS_Subset DEF Newer
        <3> QED
            BY <3>1, <3>2, FS_CardinalityType DEF ListInv, L!TypeOK
    <2> QED
        BY <1>2, <2>1, <2>2, <2>3
<1> QED
    BY <1>2, <1>6, <1>8 DEF ListInv

LEMMA NextListInv == ListInv /\ [L!Next]_(L!vars) => ListInv'
BY AskListInv, QuietListInv, PageListInv, InsertListInv DEF L!Next

(* In every reachable state of a walk the rows it still owes are at the    *)
(* next offset or behind it.                                               *)
THEOREM ListInvariance == L!Spec => []ListInv
BY InitListInv, NextListInv, PTL DEF L!Spec

(* The walk stays in its state space: the limit within its bounds, the     *)
(* offset never negative.                                                  *)
THEOREM ListTypeCorrect == L!Spec => []L!TypeOK
<1>1. ListInv => L!TypeOK
    BY DEF ListInv
<1> QED
    BY <1>1, ListInvariance, PTL

(* For every number of transactions and every limit, a walk to an empty    *)
(* page misses no transaction that was there when it began and shares its  *)
(* created_at with no other, whatever is inserted meanwhile.               *)
THEOREM WalkIsComplete == L!Spec => WalkMissesNone
<1> DEFINE Complete == walk' = "ended" /\ walk # "ended" =>
                           \A t \in old : L!AloneInTime(t) => t \in seen'
<1>1. ListInv /\ [L!Next]_(L!vars) => [Complete]_(L!vars)
    <2> SUFFICES ASSUME ListInv, L!Next, walk' = "ended", walk # "ended",
                        NEW t \in old, L!AloneInTime(t), t \notin seen'
                 PROVE  FALSE
        OBVIOUS
    <2>1. L!Page
        BY DEF L!Next, L!Ask, L!Count, L!Fail, L!Insert
    <2>2. PICK skipped \in L!Firsts(params.offset),
               S \in L!Firsts(params.offset + params.limit) :
              seen' = seen \cup (S \ skipped) /\ walk' = IF S = skipped THEN "ended" ELSE "ask"
        BY <2>1 DEF L!Page
    <2>3. S = skipped /\ t \notin S \ skipped /\ t \in Owed /\ t \in L!Rows
        BY <2>2 DEF Owed, ListInv, L!TypeOK
    <2>4. Cardinality(Newer(t)) \in Nat /\ params.offset \in Nat /\ query.offset \in Int
        BY RowSets DEF ListInv, L!TypeOK, Newer
    <2>5. Cardinality(Newer(t)) >= params.offset
        BY <2>1, <2>3, <2>4 DEF ListInv, L!Page
    <2> QED
        BY <2>3, <2>5, PageReaches DEF ListInv
<1> QED
    BY <1>1, ListInvariance, PTL DEF L!Spec, WalkMissesNone, L!WalkMissesNone

-----------------------------------------------------------------------------
(* The run's specification is a call of one of the four: it implements     *)
(* each of them, so the theorems above hold of it.                         *)
THEOREM CallsImplement == CallSpec => Spec /\ V!Spec /\ P!Spec /\ L!Spec
<1>1. CallInit => Init /\ V!Init /\ P!Init /\ L!Init
    BY DEF CallInit
<1>2. [CallNext]_<<called, vars, verifyVars, processVars, listVars>> =>
          [Next]_vars /\ [V!Next]_(V!vars) /\ [P!Next]_(P!vars) /\ [L!Next]_(L!vars)
    BY DEF CallNext, verifyVars, processVars, listVars, vars, V!vars, P!vars, L!vars
<1> QED
    BY <1>1, <1>2, PTL DEF CallSpec, Spec, V!Spec, P!Spec, L!Spec
=============================================================================
