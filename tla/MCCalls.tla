------------------------------ MODULE MCCalls ------------------------------
(***************************************************************************)
(* One call of Retry, VerifyTransaction or ProcessConcurrently, which      *)
(* share nothing with other calls but their context, or one walk over the  *)
(* pages of a listing.  The initial state chooses; the other three wait.   *)
(***************************************************************************)
EXTENDS Retry

CONSTANTS
    Items, Concurrency,
    Txs, Times, LimitQueries, OffsetQueries, DefaultLimit, MaxLimit

(* A negative capacity of the semaphore panics in make.                    *)
ASSUME SizeAssumption == Items \in Nat /\ Concurrency \in Nat

ASSUME TxsAssumption == IsFiniteSet(Txs) /\ Times \subseteq Nat \ {0}
ASSUME LimitAssumption == MaxLimit \in Nat /\ DefaultLimit \in 1..MaxLimit
ASSUME QueriesAssumption ==
    LimitQueries \subseteq Int /\ OffsetQueries \subseteq Int \ (Nat \ {0})

VARIABLES
    called,  \* the function called
    risky, ctx, check, err, resultCh, closed, results, verdict,
    stopped, next, sem, wg, item, outputs, returned,
    created, old, query, params, total, seen, walk

V == INSTANCE VerifyTransaction

P == INSTANCE ProcessConcurrently WITH canceled <- stopped, results <- outputs

L == INSTANCE Pagination WITH pc <- walk

verifyVars  == <<risky, ctx, check, err, resultCh, closed, results, verdict>>
processVars == <<stopped, next, sem, wg, item, outputs, returned>>
listVars    == <<created, old, query, params, total, seen, walk>>

(* 3 * 2^3, and 14 and the jitter, are out of the range of durations.      *)
MCConfigs == [attempts : {-1, 0, 1, 3, 5}, base : {-1, 0, 1, 3}, max : {0, 2, 7, 14},
              jitter : {-1, 0, 3}]

MCTimes == 1..3
MCLimitQueries == {-1, 0, 1, 2, 4}
MCOffsetQueries == {-1, 0}

OneConfig == [attempts |-> 1, base |-> 1, max |-> 2, jitter |-> 0]

OneQuery == [limit |-> 0, offset |-> 0]

CallInit ==
    /\ called \in {"retry", "verify", "process", "list"}
    /\ Init /\ (called # "retry" => cfg = OneConfig)
    /\ V!Init /\ (called # "verify" => risky = FALSE)
    /\ P!Init
    /\ L!Init /\ (called # "list" => L!Rows = {} /\ query = OneQuery)

CallNext ==
    /\ \/ called = "retry" /\ Next /\ UNCHANGED <<verifyVars, processVars, listVars>>
       \/ called = "verify" /\ V!Next /\ UNCHANGED <<vars, processVars, listVars>>
       \/ called = "process" /\ P!Next /\ UNCHANGED <<vars, verifyVars, listVars>>
       \/ called = "list" /\ L!Next /\ UNCHANGED <<vars, verifyVars, processVars>>
    /\ UNCHANGED called

(* Goroutines are scheduled, timers fire, and the functions that are       *)
(* passed in return.  The client of the listing goes on, and a request     *)
(* that it repeats is answered in the end.                                 *)
CallFairness ==
    /\ WF_vars(called = "retry" /\ (Check \/ Call \/ Wake))
    /\ \A c \in V!Checks :
          WF_verifyVars(called = "verify" /\ (V!Return(c) \/ V!Send(c) \/ V!WgDone(c)))
    /\ WF_verifyVars(called = "verify" /\ V!CloseResults)
    /\ WF_verifyVars(called = "verify" /\ (V!Collect \/ V!Decide))
    /\ WF_processVars(called = "process" /\ (P!Start \/ P!Return))
    /\ \A i \in P!Index :
          WF_processVars(called = "process"
                            /\ (P!Begin(i) \/ P!Store(i) \/ P!Release(i) \/ P!WgDone(i)))
    /\ WF_listVars(called = "list" /\ L!Ask)
    /\ SF_listVars(called = "list" /\ L!Count)
    /\ SF_listVars(called = "list" /\ L!Page)

CallSpec ==
    CallInit /\ [][CallNext]_<<called, vars, verifyVars, processVars, listVars>> /\ CallFairness

-----------------------------------------------------------------------------
(* VerifyTransaction: when it returns it has the result of every check     *)
(* once, and no goroutine is left to send on the closed channel.           *)
EveryCheckReported == V!EveryCheckReported

(* VerifyTransaction: the error returned is a cause, never the             *)
(* function's own cancellation, in whatever order goroutines return and    *)
(* send, and a high-risk amount never passes.                              *)
CauseReported == V!CauseReported

(* ProcessConcurrently: the results are complete, and no longer written    *)
(* to, when they are returned.                                             *)
ResultsComplete == P!ResultsComplete

(* The listing: a walk from the first page to an empty one lists every     *)
(* transaction that was there when it began and shares its created_at with *)
(* no other, whatever is inserted meanwhile.                               *)
WalkMissesNone == L!WalkMissesNone

(* Every call returns, canceled or not and whatever its checks, items and  *)
(* attempts end with: no goroutine waits for one that will not come.  The  *)
(* walk over the pages ends.                                               *)
EveryCallReturns ==
    <>(\/ called = "retry" /\ pc = "returned"
       \/ called = "verify" /\ verdict # "running"
       \/ called = "process" /\ returned
       \/ called = "list" /\ walk = "ended")
=============================================================================
