----------------------------- MODULE WorkerPool -----------------------------
(***************************************************************************)
(* The worker pool of internal/concurrency/patterns.go, which the outbox   *)
(* worker creates for every batch.  A job is submitted by a goroutine of   *)
(* its own, or from inside another job (Parent); any number of goroutines  *)
(* shut the pool down.  Worker goroutines are interchangeable, so only     *)
(* their number is kept.                                                   *)
(*                                                                         *)
(* Submit sends on the jobs channel while it holds the mutex.  Everything  *)
(* else done under the mutex cannot block and is one step.                 *)
(***************************************************************************)
EXTENDS Integers, Sequences, FiniteSets

CONSTANTS
    Jobs,       \* the jobs somebody may submit
    NoJob,      \* no member of Jobs
    Parent,     \* the job that submits this one, or NoJob
    Stoppers,   \* goroutines that call Shutdown
    Workers,    \* worker goroutines of the pool
    QueueSize   \* capacity of the jobs channel

ASSUME JobsAssumption ==
    /\ NoJob \notin Jobs
    /\ Parent \in [Jobs -> Jobs \cup {NoJob}]
ASSUME SizeAssumption ==
    /\ Workers \in Nat \ {0}
    /\ QueueSize \in Nat

VARIABLES
    mu,       \* the job whose Submit holds the mutex, or NoJob
    closed,   \* the pool is shut down and the jobs channel closed
    slots,    \* tokens in the slots channel
    queue,    \* buffer of the jobs channel
    running,  \* jobs a worker is executing
    live,     \* worker goroutines that have not returned (wg)
    starts,   \* how often a worker began the job
    call,     \* progress of the Submit of each job
    stop      \* progress of each Shutdown

vars == <<mu, closed, slots, queue, running, live, starts, call, stop>>

(* Mutant of Capacity: one slot too many.                                  *)
CapacityOneMore == Workers + QueueSize + 1

(* Capacity of the slots channel: what queue and workers can hold.         *)
Capacity == Workers + QueueSize

TypeOK ==
    /\ mu \in Jobs \cup {NoJob}
    /\ closed \in BOOLEAN
    /\ slots \in 0 .. Capacity
    /\ queue \in Seq(Jobs) /\ Len(queue) <= QueueSize
    /\ running \subseteq Jobs
    /\ live \in 0 .. Workers
    /\ starts \in [Jobs -> Nat]
    /\ call \in [Jobs -> {"idle", "lock", "send", "accepted", "refused"}]
    /\ stop \in [Stoppers -> {"idle", "lock", "wait", "returned"}]

Init ==
    /\ mu = NoJob
    /\ closed = FALSE
    /\ slots = 0
    /\ queue = <<>>
    /\ running = {}
    /\ live = Workers
    /\ starts = [j \in Jobs |-> 0]
    /\ call = [j \in Jobs |-> "idle"]
    /\ stop = [s \in Stoppers |-> "idle"]

(* Workers at the receive of their loop, or on the way to it.              *)
Free == live - Cardinality(running)

-----------------------------------------------------------------------------
(* Submit.                                                                 *)

Call(j) ==
    /\ call[j] = "idle"
    /\ Parent[j] \in running \cup {NoJob}
    /\ call' = [call EXCEPT ![j] = "lock"]
    /\ UNCHANGED <<mu, closed, slots, queue, running, live, starts, stop>>

(* Mutant of Refuse: Submit tries again instead of returning an error.     *)
RefuseRetries(j) ==
    /\ call[j] = "lock" /\ mu = NoJob
    /\ closed \/ slots = Capacity
    /\ UNCHANGED vars

(* The pool is shut down, or select finds no slot: an error at once.       *)
Refuse(j) ==
    /\ call[j] = "lock" /\ mu = NoJob
    /\ closed \/ slots = Capacity
    /\ call' = [call EXCEPT ![j] = "refused"]
    /\ UNCHANGED <<mu, closed, slots, queue, running, live, starts, stop>>

(* A slot is taken and the send begins, the mutex held.                    *)
Admit(j) ==
    /\ call[j] = "lock" /\ mu = NoJob
    /\ ~closed /\ slots < Capacity
    /\ slots' = slots + 1
    /\ mu' = j
    /\ call' = [call EXCEPT ![j] = "send"]
    /\ UNCHANGED <<closed, queue, running, live, starts, stop>>

(* The send goes into the buffer, or right to a waiting worker.            *)
Send(j) ==
    /\ call[j] = "send"
    /\ \/ /\ Len(queue) < QueueSize
          /\ queue' = Append(queue, j)
          /\ UNCHANGED <<running, starts>>
       \/ /\ queue = <<>> /\ Free > 0
          /\ running' = running \cup {j}
          /\ starts' = [starts EXCEPT ![j] = @ + 1]
          /\ UNCHANGED queue
    /\ mu' = NoJob
    /\ call' = [call EXCEPT ![j] = "accepted"]
    /\ UNCHANGED <<closed, slots, live, stop>>

-----------------------------------------------------------------------------
(* worker.                                                                 *)

Receive ==
    /\ queue # <<>> /\ Free > 0
    /\ queue' = Tail(queue)
    /\ running' = running \cup {Head(queue)}
    /\ starts' = [starts EXCEPT ![Head(queue)] = @ + 1]
    /\ UNCHANGED <<mu, closed, slots, live, call, stop>>

(* The job returns, its slot is given back.  A job that is in the middle   *)
(* of a Submit has not returned.                                           *)
Finish(j) ==
    /\ j \in running
    /\ \A k \in Jobs : Parent[k] = j => call[k] \notin {"lock", "send"}
    /\ running' = running \ {j}
    /\ slots' = slots - 1
    /\ UNCHANGED <<mu, closed, queue, live, starts, call, stop>>

(* Mutant of Drained: the channel is closed, its buffer not looked at.     *)
DrainedAtOnce == closed

(* range ends: the channel is closed and its buffer empty.                 *)
Drained == closed /\ queue = <<>>

WorkerReturns ==
    /\ Drained /\ Free > 0
    /\ live' = live - 1
    /\ UNCHANGED <<mu, closed, slots, queue, running, starts, call, stop>>

-----------------------------------------------------------------------------
(* Shutdown.                                                               *)

CallShutdown(s) ==
    /\ stop[s] = "idle"
    /\ stop' = [stop EXCEPT ![s] = "lock"]
    /\ UNCHANGED <<mu, closed, slots, queue, running, live, starts, call>>

(* Mutant of Close: the mutex is not taken.                                *)
CloseUnlocked(s) ==
    /\ stop[s] = "lock"
    /\ closed' = TRUE
    /\ stop' = [stop EXCEPT ![s] = "wait"]
    /\ UNCHANGED <<mu, slots, queue, running, live, starts, call>>

Close(s) ==
    /\ stop[s] = "lock" /\ mu = NoJob
    /\ closed' = TRUE
    /\ stop' = [stop EXCEPT ![s] = "wait"]
    /\ UNCHANGED <<mu, slots, queue, running, live, starts, call>>

(* wg.Wait.                                                                *)
ShutdownReturns(s) ==
    /\ stop[s] = "wait" /\ live = 0
    /\ stop' = [stop EXCEPT ![s] = "returned"]
    /\ UNCHANGED <<mu, closed, slots, queue, running, live, starts, call>>

-----------------------------------------------------------------------------
(* The pool is shut down and no call is open.                              *)
Terminating ==
    /\ \A j \in Jobs : call[j] \notin {"lock", "send"}
    /\ \A s \in Stoppers : stop[s] = "returned"
    /\ UNCHANGED vars

Submit(j) == Refuse(j) \/ Admit(j) \/ Send(j)

Next ==
    \/ \E j \in Jobs : Call(j) \/ Submit(j) \/ Finish(j)
    \/ Receive \/ WorkerReturns
    \/ \E s \in Stoppers : CallShutdown(s) \/ Close(s) \/ ShutdownReturns(s)
    \/ Terminating

Spec == Init /\ [][Next]_vars

(* Goroutines are scheduled, jobs end; nobody has to call.                 *)
Fairness ==
    /\ \A j \in Jobs : WF_vars(Submit(j)) /\ WF_vars(Finish(j))
    /\ WF_vars(Receive) /\ WF_vars(WorkerReturns)
    /\ \A s \in Stoppers : WF_vars(Close(s)) /\ WF_vars(ShutdownReturns(s))

FairSpec == Spec /\ Fairness

-----------------------------------------------------------------------------
(* A Submit that blocks in its send, with the mutex that every other       *)
(* Submit and Shutdown need, has a taker: the buffer has room or a worker  *)
(* is free.  Jobs that wait for the mutex themselves hold a slot each, so  *)
(* they cannot be all of the workers.                                      *)
BlockedSendHasTaker ==
    \A j \in Jobs : call[j] = "send" => Len(queue) < QueueSize \/ Free > 0

(* The jobs channel is never closed under a Submit that is sending on it   *)
(* (which would panic).                                                    *)
NoSendOnClosed == \A j \in Jobs : call[j] = "send" => ~closed

(* Only a job whose Submit returned nil is run, and never twice; and when  *)
(* any Shutdown has returned, all of them have run to their end.           *)
AcceptedRunOnce ==
    \A j \in Jobs :
        /\ starts[j] <= 1
        /\ starts[j] = 1 => call[j] = "accepted"
        /\ call[j] = "accepted" /\ (\E s \in Stoppers : stop[s] = "returned")
             => starts[j] = 1 /\ j \notin running

(* Every Submit returns, also one from inside a job, and every Shutdown,   *)
(* whatever was submitted before or meanwhile.                             *)
EveryPoolCallReturns ==
    /\ \A j \in Jobs :
          call[j] \in {"lock", "send"} ~> call[j] \in {"accepted", "refused"}
    /\ \A s \in Stoppers : stop[s] = "lock" ~> stop[s] = "returned"
=============================================================================
