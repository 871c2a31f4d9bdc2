-------------------------- MODULE VerifyTransaction --------------------------
(***************************************************************************)
(* VerifyTransaction of internal/concurrency/patterns.go: three checks run *)
(* in goroutines of their own, send their results into a buffered channel, *)
(* and the first failure received cancels the others.  A fourth goroutine  *)
(* closes the channel when the wait group is down to zero.                 *)
(*                                                                         *)
(* An error is "merit" (the check itself failed), "outer" (the caller's    *)
(* context ended or the two seconds are over) or "own" (ctx was canceled   *)
(* by this very function after another failure).                           *)
(***************************************************************************)
EXTENDS Integers, Sequences

VARIABLES
    risky,     \* amount > 10000
    ctx,       \* live, or why it is done: outer, own
    check,     \* progress of the goroutine of each check
    err,       \* what each check returned: none yet, nil or an error
    resultCh,  \* checks whose results are in the channel
    closed,    \* the channel is closed
    results,   \* checks whose results were collected, in order
    verdict    \* running, or what is returned: nil or an error

vars == <<risky, ctx, check, err, resultCh, closed, results, verdict>>

Checks == {"fraud", "sanctions", "bank"}

TypeOK ==
    /\ risky \in BOOLEAN
    /\ ctx \in {"live", "outer", "own"}
    /\ check \in [Checks -> {"running", "returned", "sent", "done"}]
    /\ err \in [Checks -> {"none", "nil", "merit", "outer", "own"}]
    /\ resultCh \in Seq(Checks) /\ Len(resultCh) <= 3
    /\ closed \in BOOLEAN
    /\ results \in Seq(Checks)
    /\ verdict \in {"running", "nil", "merit", "outer", "own"}

Init ==
    /\ risky \in BOOLEAN
    /\ ctx = "live"
    /\ check = [c \in Checks |-> "running"]
    /\ err = [c \in Checks |-> "none"]
    /\ resultCh = <<>>
    /\ closed = FALSE
    /\ results = <<>>
    /\ verdict = "running"

(* The caller's context ends, or the timeout passes.                       *)
OuterDone ==
    /\ ctx = "live"
    /\ ctx' = "outer"
    /\ UNCHANGED <<risky, check, err, resultCh, closed, results, verdict>>

(* checkFraud, checkSanctions, checkBank: the timer's case, and ctx.Done's *)
(* case when the context is done (select takes either if both are ready).  *)
CheckResults(c) ==
    {IF risky /\ c = "fraud" THEN "merit" ELSE "nil"}
        \cup IF ctx = "live" THEN {} ELSE {ctx}

(* Mutant of Return: a check that fails cancels the others itself.         *)
ReturnCancels(c) ==
    /\ check[c] = "running"
    /\ \E e \in CheckResults(c) :
          /\ err' = [err EXCEPT ![c] = e]
          /\ ctx' = IF e # "nil" /\ ctx = "live" THEN "own" ELSE ctx
    /\ check' = [check EXCEPT ![c] = "returned"]
    /\ UNCHANGED <<risky, resultCh, closed, results, verdict>>

Return(c) ==
    /\ check[c] = "running"
    /\ \E e \in CheckResults(c) : err' = [err EXCEPT ![c] = e]
    /\ check' = [check EXCEPT ![c] = "returned"]
    /\ UNCHANGED <<risky, ctx, resultCh, closed, results, verdict>>

(* The channel has room for every check: the send never blocks.            *)
Send(c) ==
    /\ check[c] = "returned"
    /\ resultCh' = Append(resultCh, c)
    /\ check' = [check EXCEPT ![c] = "sent"]
    /\ UNCHANGED <<risky, ctx, err, closed, results, verdict>>

WgDone(c) ==
    /\ check[c] = "sent"
    /\ check' = [check EXCEPT ![c] = "done"]
    /\ UNCHANGED <<risky, ctx, err, resultCh, closed, results, verdict>>

(* Mutant of Waited: wg.Done runs when the check returns.                  *)
WaitedForChecks == \A c \in Checks : check[c] # "running"

(* Mutant of Waited: one Add more than there are goroutines.               *)
WaitedForever == FALSE

(* wg.Wait returns.                                                        *)
Waited == \A c \in Checks : check[c] = "done"

CloseResults ==
    /\ Waited /\ ~closed
    /\ closed' = TRUE
    /\ UNCHANGED <<risky, ctx, check, err, resultCh, results, verdict>>

(* One round of the collecting loop; a failure cancels the context.        *)
Collect ==
    /\ verdict = "running"
    /\ resultCh # <<>>
    /\ results' = Append(results, Head(resultCh))
    /\ resultCh' = Tail(resultCh)
    /\ ctx' = IF err[Head(resultCh)] # "nil" /\ ctx = "live" THEN "own" ELSE ctx
    /\ UNCHANGED <<risky, check, err, closed, verdict>>

Failed == {i \in 1 .. Len(results) : err[results[i]] # "nil"}

(* The channel is drained and closed: the first failed result decides.     *)
Decide ==
    /\ verdict = "running"
    /\ resultCh = <<>> /\ closed
    /\ verdict' = IF Failed = {} THEN "nil"
                  ELSE err[results[CHOOSE i \in Failed : \A k \in Failed : i <= k]]
    /\ UNCHANGED <<risky, ctx, check, err, resultCh, closed, results>>

Next ==
    \/ OuterDone
    \/ \E c \in Checks : Return(c) \/ Send(c) \/ WgDone(c)
    \/ CloseResults \/ Collect \/ Decide

Spec == Init /\ [][Next]_vars

-----------------------------------------------------------------------------
(* When VerifyTransaction returns it has the result of every check, once,  *)
(* and no goroutine is left with a result to send on the closed channel.   *)
EveryCheckReported ==
    verdict # "running" =>
        /\ Len(results) = 3
        /\ {results[i] : i \in 1 .. Len(results)} = Checks

(* The error returned is a cause: never the cancellation that this         *)
(* function did itself because of another failure, whatever the order in   *)
(* which the goroutines return and send; and a high-risk amount never      *)
(* passes.                                                                 *)
CauseReported ==
    /\ verdict # "own"
    /\ risky => verdict # "nil"
=============================================================================
