---------------------------- MODULE OutboxWorker ----------------------------
(***************************************************************************)
(* The outbox table and the workers that drain it: OutboxRepo in           *)
(* internal/repository/postgres/events.go and OutboxWorker in              *)
(* internal/service/outbox_worker.go.  Every server process runs one       *)
(* worker; the workers share only the table.                               *)
(*                                                                         *)
(* A claim leases rows by writing NOW() + 30s into published_at.  Time     *)
(* enters only through published_at <= NOW(), so a lease is held until,    *)
(* at some moment, it is expired.  The worker pool inside a process is     *)
(* abstracted: the events of a batch are processed in any order, and the   *)
(* next batch is claimed when all of them are done.                        *)
(***************************************************************************)
EXTENDS Integers, FiniteSets

CONSTANTS
    NumEvents,    \* outbox rows; a smaller number was created earlier
    Workers,      \* server processes
    BatchSize,    \* limit of FetchUnpublished
    MaxFaults     \* bound on the failures of a behaviour

ASSUME OutboxAssumption ==
    /\ NumEvents \in Nat
    /\ BatchSize \in Nat \ {0}
    /\ MaxFaults \in Nat

Events == 1 .. NumEvents

VARIABLES
    \* the outbox table
    rows,        \* events that have a row
    published,   \* rows with published = TRUE
    lease,       \* published_at of an unpublished row: NULL, future or past
    \* Kafka
    deliveries,  \* how often each event was handed over: 0, 1, or 2 for more
    \* the workers
    mode,        \* running, stopping (context canceled) or down
    task,        \* where each worker is with each event of its batch
    faults,      \* failures that may still happen
    \* history
    expired      \* events whose lease expired at least once

tableVars  == <<rows, published, lease>>
workerVars == <<mode, task>>
vars       == <<tableVars, deliveries, workerVars, faults, expired>>

TypeOK ==
    /\ rows \subseteq Events
    /\ published \subseteq Events
    /\ lease \in [Events -> {"none", "held", "past"}]
    /\ deliveries \in [Events -> 0 .. 2]
    /\ mode \in [Workers -> {"running", "stopping", "down"}]
    /\ task \in [Workers -> [Events -> {"idle", "publish", "mark"}]]
    /\ faults \in 0 .. MaxFaults
    /\ expired \subseteq Events

Init ==
    /\ rows = {}
    /\ published = {}
    /\ lease = [e \in Events |-> "none"]
    /\ deliveries = [e \in Events |-> 0]
    /\ mode = [w \in Workers |-> "running"]
    /\ task = [w \in Workers |-> [e \in Events |-> "idle"]]
    /\ faults = MaxFaults
    /\ expired = {}

-----------------------------------------------------------------------------
(* A call of the database or of Kafka by worker w is carried out and       *)
(* reported, carried out and reported as failed, or not carried out.       *)
(* Under a canceled context it never succeeds.                             *)
Outcomes(w) ==
    {o \in {"ok", "lost", "failed"} :
        IF o = "ok" THEN mode[w] = "running"
                    ELSE mode[w] = "stopping" \/ faults > 0}

Applied(o) == o # "failed"

(* Failures of a running worker are bounded by MaxFaults.                  *)
Spend(w, o) ==
    faults' = IF o # "ok" /\ mode[w] = "running" THEN faults - 1 ELSE faults

SetTask(w, e, t) == task' = [task EXCEPT ![w][e] = t]

(* OutboxRepo.Create, inside the transaction that moved the payment.       *)
Create(e) ==
    /\ e \notin rows
    /\ rows' = rows \cup {e}
    /\ UNCHANGED <<published, lease, deliveries, workerVars, faults, expired>>

(* Mutant of Claimable: the lease is not looked at.                        *)
ClaimableIgnoringLease == {e \in rows : e \notin published}

(* Mutant of Claimable: a row that was leased once is not claimed again.   *)
ClaimableOnce == {e \in rows : e \notin published /\ lease[e] = "none"}

(* WHERE published = FALSE AND (published_at IS NULL OR <= NOW())          *)
Claimable == {e \in rows : e \notin published /\ lease[e] # "held"}

(* ORDER BY created_at LIMIT batchSize.                                    *)
OldestClaimable ==
    {e \in Claimable : Cardinality({d \in Claimable : d < e}) < BatchSize}

(* processBatch: FetchUnpublished leases a batch in one statement.  When   *)
(* its reply is lost the rows stay leased and nobody works on them.        *)
FetchUnpublished(w) ==
    /\ mode[w] = "running"
    /\ \A e \in Events : task[w][e] = "idle"
    /\ \E o \in Outcomes(w) :
          /\ lease' = IF Applied(o)
                      THEN [e \in Events |->
                              IF e \in OldestClaimable THEN "held" ELSE lease[e]]
                      ELSE lease
          /\ task' = IF o = "ok"
                     THEN [task EXCEPT ![w] = [e \in Events |->
                             IF e \in OldestClaimable THEN "publish" ELSE "idle"]]
                     ELSE task
          /\ Spend(w, o)
    /\ UNCHANGED <<rows, published, deliveries, mode, expired>>

(* Mutant of AfterPublish: an error of Publish is not looked at.           *)
MarkAnyway(o) == "mark"

(* processEvent goes on to MarkPublished only when Publish succeeded.      *)
AfterPublish(o) == IF o = "ok" THEN "mark" ELSE "idle"

(* processEvent, first half: the message is written to Kafka.              *)
Publish(w, e) ==
    /\ task[w][e] = "publish"
    /\ \E o \in Outcomes(w) :
          /\ deliveries' = IF Applied(o) /\ deliveries[e] < 2
                           THEN [deliveries EXCEPT ![e] = @ + 1] ELSE deliveries
          /\ SetTask(w, e, AfterPublish(o))
          /\ Spend(w, o)
    /\ UNCHANGED <<tableVars, mode, expired>>

(* processEvent, second half: MarkPublished.  An error leaves the row to   *)
(* the expiry of its lease.                                                *)
MarkPublished(w, e) ==
    /\ task[w][e] = "mark"
    /\ \E o \in Outcomes(w) :
          /\ published' = IF Applied(o) THEN published \cup {e} ELSE published
          /\ Spend(w, o)
    /\ SetTask(w, e, "idle")
    /\ UNCHANGED <<rows, lease, deliveries, mode, expired>>

-----------------------------------------------------------------------------
(* The environment.                                                        *)

(* The clock passes published_at.  Nothing tells the worker.               *)
Expire(e) ==
    /\ lease[e] = "held" /\ e \notin published
    /\ lease' = [lease EXCEPT ![e] = "past"]
    /\ expired' = expired \cup {e}
    /\ UNCHANGED <<rows, published, deliveries, workerVars, faults>>

(* main cancels the worker's context when a signal arrives ...             *)
Shutdown(w) ==
    /\ mode[w] = "running" /\ faults > 0
    /\ mode' = [mode EXCEPT ![w] = "stopping"]
    /\ faults' = faults - 1
    /\ UNCHANGED <<tableVars, deliveries, task, expired>>

Abandon(w) ==
    /\ mode' = [mode EXCEPT ![w] = "down"]
    /\ task' = [task EXCEPT ![w] = [e \in Events |-> "idle"]]

(* ... and exits when the HTTP server is done, without waiting for it.     *)
Exit(w) ==
    /\ mode[w] = "stopping"
    /\ Abandon(w)
    /\ UNCHANGED <<tableVars, deliveries, faults, expired>>

Crash(w) ==
    /\ mode[w] = "running" /\ faults > 0
    /\ Abandon(w)
    /\ faults' = faults - 1
    /\ UNCHANGED <<tableVars, deliveries, expired>>

Restart(w) ==
    /\ mode[w] = "down"
    /\ mode' = [mode EXCEPT ![w] = "running"]
    /\ UNCHANGED <<tableVars, deliveries, task, faults, expired>>

Next ==
    \/ \E e \in Events : Create(e) \/ Expire(e)
    \/ \E w \in Workers : \/ FetchUnpublished(w) \/ Shutdown(w) \/ Exit(w)
                          \/ Crash(w) \/ Restart(w)
    \/ \E w \in Workers, e \in Events : Publish(w, e) \/ MarkPublished(w, e)

Spec == Init /\ [][Next]_vars

(* Workers poll on a ticker and their calls end, leases expire, a process  *)
(* told to stop exits, and the supervisor restarts it.                     *)
Fairness ==
    /\ \A e \in Events : WF_vars(Expire(e))
    /\ \A w \in Workers :
          /\ WF_vars(FetchUnpublished(w)) /\ WF_vars(Exit(w)) /\ WF_vars(Restart(w))
          /\ \A e \in Events : WF_vars(Publish(w, e)) /\ WF_vars(MarkPublished(w, e))

FairSpec == Spec /\ Fairness

-----------------------------------------------------------------------------
(* An event is handed over twice only if its lease expired: concurrent     *)
(* workers, lost replies, crashes and shutdowns alone never duplicate it.  *)
(* This is what FetchUnpublished promises: "Claimed rows should not be     *)
(* returned again until the lease expires or they are marked published"    *)
(* (internal/repository/interfaces.go:44).                                 *)
DuplicateNeedsExpiry == \A e \in Events : deliveries[e] > 1 => e \in expired

(* While nobody's lease on it has expired, one worker at most has the      *)
(* event in hand.                                                          *)
OneWorkerPerLease ==
    \A e \in Events \ expired : \A v, w \in Workers :
        task[v][e] # "idle" /\ task[w][e] # "idle" => v = w

(* The outbox as an at-least-once channel: a row is an event sent, and a   *)
(* published row an event retired.                                         *)
Delivery == INSTANCE AtLeastOnce WITH
    sent <- rows,
    received <- {e \in Events : deliveries[e] > 0},
    retired <- published

(* The table and its workers implement at-least-once delivery: no event is *)
(* marked published before it was handed to Kafka, whichever worker marks  *)
(* it and whatever its publish call reported.                              *)
DeliverySafe == Delivery!Spec

(* With finitely many failures every event is handed over and marked: what *)
(* a failed call, a crash or a shutdown left leased is claimed again.      *)
DeliveryLive == Delivery!FairSpec
=============================================================================
