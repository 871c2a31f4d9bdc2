------------------------ MODULE ProcessConcurrently ------------------------
(***************************************************************************)
(* ProcessConcurrently of internal/concurrency/patterns.go: one goroutine  *)
(* per item, at most Concurrency at a time.  The caller takes a token of   *)
(* the semaphore before it starts a goroutine; the goroutine gives it back *)
(* after it has stored its result, and then signs off at the wait group.   *)
(***************************************************************************)
EXTENDS Integers, FiniteSets

CONSTANTS
    Items,        \* number of ids
    Concurrency   \* capacity of the semaphore

VARIABLES
    canceled,  \* ctx is done
    next,      \* index of the next id of the caller's loop
    sem,       \* tokens in the semaphore
    wg,        \* counter of the wait group
    item,      \* progress of the goroutine of each index
    results,   \* what is stored at each index
    returned   \* ProcessConcurrently has returned

vars == <<canceled, next, sem, wg, item, results, returned>>

Index == 1 .. Items

TypeOK ==
    /\ canceled \in BOOLEAN
    /\ next \in 1 .. Items + 1
    /\ sem \in 0 .. Concurrency
    /\ wg \in 0 .. Items
    /\ item \in [Index -> {"none", "started", "working", "stored", "released", "done"}]
    /\ results \in [Index -> {"unset", "processed", "error"}]
    /\ returned \in BOOLEAN

Init ==
    /\ canceled = FALSE
    /\ next = 1
    /\ sem = 0
    /\ wg = 0
    /\ item = [i \in Index |-> "none"]
    /\ results = [i \in Index |-> "unset"]
    /\ returned = FALSE

Cancel ==
    /\ ~canceled
    /\ canceled' = TRUE
    /\ UNCHANGED <<next, sem, wg, item, results, returned>>

(* Mutant of Start: wg.Add is missing.                                     *)
StartWithoutAdd ==
    /\ next <= Items /\ sem < Concurrency
    /\ sem' = sem + 1
    /\ item' = [item EXCEPT ![next] = "started"]
    /\ next' = next + 1
    /\ UNCHANGED <<canceled, wg, results, returned>>

(* One round of the caller's loop; it blocks while the semaphore is full.  *)
Start ==
    /\ next <= Items /\ sem < Concurrency
    /\ wg' = wg + 1
    /\ sem' = sem + 1
    /\ item' = [item EXCEPT ![next] = "started"]
    /\ next' = next + 1
    /\ UNCHANGED <<canceled, results, returned>>

(* The goroutine looks at the context once, before it works.               *)
Begin(i) ==
    /\ item[i] = "started"
    /\ item' = [item EXCEPT ![i] = IF canceled THEN "stored" ELSE "working"]
    /\ results' = [results EXCEPT ![i] = IF canceled THEN "error" ELSE @]
    /\ UNCHANGED <<canceled, next, sem, wg, returned>>

Store(i) ==
    /\ item[i] = "working"
    /\ item' = [item EXCEPT ![i] = "stored"]
    /\ results' = [results EXCEPT ![i] = "processed"]
    /\ UNCHANGED <<canceled, next, sem, wg, returned>>

(* The deferred calls, last one first.                                     *)
Release(i) ==
    /\ item[i] = "stored"
    /\ item' = [item EXCEPT ![i] = "released"]
    /\ sem' = sem - 1
    /\ UNCHANGED <<canceled, next, wg, results, returned>>

WgDone(i) ==
    /\ item[i] = "released"
    /\ item' = [item EXCEPT ![i] = "done"]
    /\ wg' = wg - 1
    /\ UNCHANGED <<canceled, next, sem, results, returned>>

(* wg.Wait.                                                                *)
Return ==
    /\ next > Items /\ wg = 0 /\ ~returned
    /\ returned' = TRUE
    /\ UNCHANGED <<canceled, next, sem, wg, item, results>>

Next ==
    \/ Cancel \/ Start \/ Return
    \/ \E i \in Index : Begin(i) \/ Store(i) \/ Release(i) \/ WgDone(i)

Spec == Init /\ [][Next]_vars

-----------------------------------------------------------------------------
(* When the results are returned there is one at every index, and no       *)
(* goroutine is left that could still write one.                           *)
ResultsComplete ==
    returned => \A i \in Index : results[i] # "unset" /\ item[i] = "done"
=============================================================================
