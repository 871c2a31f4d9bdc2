------------------------- MODULE OutboxWorkerProofs -------------------------
(* Proofs that the outbox never duplicates an event whose lease holds, and *)
(* that it implements at-least-once delivery, for any number of workers,   *)
(* events and failures.                                                    *)
EXTENDS OutboxWorker, TLAPS

(* A row that was never claimed: nobody has it and nothing happened to it. *)
Fresh(e) ==
    /\ deliveries[e] = 0
    /\ e \notin published
    /\ \A w \in Workers : task[w][e] = "idle"

(* A claimed event is a row, and is marked only after a delivery.          *)
Claimed(e) ==
    /\ e \notin rows => lease[e] = "none"
    /\ lease[e] = "none" => Fresh(e)
    /\ e \in published => deliveries[e] > 0
    /\ \A w \in Workers : task[w][e] = "mark" => deliveries[e] > 0

(* While its lease has not expired, one worker has the event, and until    *)
(* that worker has published it nobody has.                                *)
Unexpired(e) ==
    e \notin expired =>
        /\ lease[e] # "past"
        /\ deliveries[e] < 2
        /\ \A w \in Workers : task[w][e] = "publish" => deliveries[e] = 0
        /\ \A v, w \in Workers :
              task[v][e] # "idle" /\ task[w][e] # "idle" => v = w

IInv == TypeOK /\ \A e \in Events : Claimed(e) /\ Unexpired(e)

-----------------------------------------------------------------------------
(* Nothing has happened to any event at the start.                         *)
LEMMA InitIInv == Init => IInv
<1> SUFFICES ASSUME Init PROVE IInv
  OBVIOUS
<1>1. TypeOK
  BY OutboxAssumption DEF Init, TypeOK
<1>2. ASSUME NEW e \in Events PROVE Claimed(e) /\ Unexpired(e)
  BY DEF Init, Claimed, Fresh, Unexpired
<1> QED
  BY <1>1, <1>2 DEF IInv

(* A call that may fail leaves the budget of failures in its type.         *)
LEMMA SpendType ==
    ASSUME TypeOK, NEW w \in Workers, NEW o \in Outcomes(w), Spend(w, o)
    PROVE  faults' \in 0 .. MaxFaults
BY OutboxAssumption DEF TypeOK, Outcomes, Spend

(* SetTask changes one entry and nothing else.                             *)
LEMMA SetTaskEntry ==
    ASSUME TypeOK, NEW w \in Workers, NEW e \in Events,
           NEW t \in {"idle", "publish", "mark"}, SetTask(w, e, t)
    PROVE  /\ task' \in [Workers -> [Events -> {"idle", "publish", "mark"}]]
           /\ \A v \in Workers, d \in Events :
                 task'[v][d] = IF v = w /\ d = e THEN t ELSE task[v][d]
BY DEF TypeOK, SetTask

(* A worker that goes down has no task left.                               *)
LEMMA AbandonTasks ==
    ASSUME TypeOK, NEW w \in Workers, Abandon(w)
    PROVE  /\ mode' \in [Workers -> {"running", "stopping", "down"}]
           /\ task' \in [Workers -> [Events -> {"idle", "publish", "mark"}]]
           /\ \A v \in Workers, d \in Events :
                 task'[v][d] = IF v = w THEN "idle" ELSE task[v][d]
BY DEF TypeOK, Abandon

(* A step that only takes tasks away, or leaves them alone, preserves the  *)
(* part of the invariant about the events.                                 *)
LEMMA FewerTasks ==
    ASSUME IInv, TypeOK',
           \A w \in Workers, e \in Events : task'[w][e] \in {task[w][e], "idle"},
           rows \subseteq rows', UNCHANGED <<published, lease, deliveries, expired>>
    PROVE  IInv'
<1>1. ASSUME NEW e \in Events PROVE Claimed(e)'
  BY <1>1 DEF IInv, Claimed, Fresh
<1>2. ASSUME NEW e \in Events PROVE Unexpired(e)'
  BY <1>2 DEF IInv, Unexpired
<1> QED
  BY <1>1, <1>2 DEF IInv

-----------------------------------------------------------------------------
(* The steps of a worker preserve the invariant.                           *)

(* A claim takes only rows that are not leased; one that never expired was *)
(* never leased before, so nobody has it.                                  *)
LEMMA FetchUnpublishedStep ==
    ASSUME IInv, NEW w \in Workers, FetchUnpublished(w) PROVE IInv'
<1>1. PICK o \in Outcomes(w) :
        /\ lease' = IF Applied(o)
                    THEN [e \in Events |->
                            IF e \in OldestClaimable THEN "held" ELSE lease[e]]
                    ELSE lease
        /\ task' = IF o = "ok"
                   THEN [task EXCEPT ![w] = [e \in Events |->
                           IF e \in OldestClaimable THEN "publish" ELSE "idle"]]
                   ELSE task
        /\ Spend(w, o)
  BY DEF FetchUnpublished
<1>2. /\ UNCHANGED <<rows, published, deliveries, mode, expired>>
      /\ \A e \in Events : task[w][e] = "idle"
  BY DEF FetchUnpublished
<1>3. TypeOK
  BY DEF IInv
<1>4. /\ lease' \in [Events -> {"none", "held", "past"}]
      /\ \A e \in Events : lease'[e] \in {lease[e], "held"}
      /\ \A e \in Events : lease'[e] # lease[e] => e \in OldestClaimable
  BY <1>1, <1>3 DEF TypeOK
<1>5. /\ task' \in [Workers -> [Events -> {"idle", "publish", "mark"}]]
      /\ \A v \in Workers, e \in Events :
            task'[v][e] = IF v = w /\ o = "ok" /\ e \in OldestClaimable
                          THEN "publish" ELSE task[v][e]
  BY <1>1, <1>2, <1>3 DEF TypeOK
<1>6. \A e \in Events : o = "ok" /\ e \in OldestClaimable => lease'[e] = "held"
  BY <1>1, <1>3 DEF TypeOK, Applied
<1>7. \A e \in OldestClaimable : e \in rows /\ e \notin published /\ lease[e] # "held"
  BY DEF OldestClaimable, Claimable
<1>8. TypeOK'
  BY <1>1, <1>2, <1>3, <1>4, <1>5, SpendType DEF TypeOK
<1>9. ASSUME NEW e \in Events PROVE Claimed(e)' /\ Unexpired(e)'
  <2>1. Claimed(e) /\ Unexpired(e) /\ lease[e] \in {"none", "held", "past"}
    BY <1>3 DEF IInv, TypeOK
  <2>2. CASE e \in OldestClaimable
    <3>1. Claimed(e)'
      BY <2>1, <2>2, <1>2, <1>4, <1>5, <1>6, <1>7 DEF Claimed, Fresh
    <3>2. Unexpired(e)'
      BY <2>1, <2>2, <1>2, <1>4, <1>5, <1>7 DEF Claimed, Fresh, Unexpired
    <3> QED
      BY <3>1, <3>2
  <2>3. CASE e \notin OldestClaimable
    <3>1. lease'[e] = lease[e] /\ \A v \in Workers : task'[v][e] = task[v][e]
      BY <2>3, <1>4, <1>5
    <3> QED
      BY <3>1, <2>1, <1>2 DEF Claimed, Fresh, Unexpired
  <2> QED
    BY <2>2, <2>3
<1> QED
  BY <1>8, <1>9 DEF IInv

(* A publish goes on to mark only what was delivered.                      *)
LEMMA PublishStep ==
    ASSUME IInv, NEW w \in Workers, NEW e \in Events, Publish(w, e) PROVE IInv'
<1>1. PICK o \in Outcomes(w) :
        /\ deliveries' = IF Applied(o) /\ deliveries[e] < 2
                         THEN [deliveries EXCEPT ![e] = @ + 1] ELSE deliveries
        /\ SetTask(w, e, AfterPublish(o))
        /\ Spend(w, o)
  BY DEF Publish
<1>2. UNCHANGED <<tableVars, mode, expired>> /\ task[w][e] = "publish"
  BY DEF Publish
<1>3. TypeOK
  BY DEF IInv
<1>4. AfterPublish(o) \in {"idle", "publish", "mark"}
  BY DEF AfterPublish
<1>5. /\ task' \in [Workers -> [Events -> {"idle", "publish", "mark"}]]
      /\ \A v \in Workers, d \in Events :
            task'[v][d] = IF v = w /\ d = e THEN AfterPublish(o) ELSE task[v][d]
  BY <1>1, <1>3, <1>4, SetTaskEntry
<1>6. /\ deliveries' \in [Events -> 0 .. 2]
      /\ \A d \in Events : d # e => deliveries'[d] = deliveries[d]
      /\ deliveries'[e] \in {deliveries[e], deliveries[e] + 1}
      /\ deliveries[e] > 0 => deliveries'[e] > 0
      /\ AfterPublish(o) = "mark" => deliveries'[e] > 0
  BY <1>1, <1>3 DEF TypeOK, Applied, AfterPublish
<1>7. TypeOK'
  BY <1>1, <1>2, <1>3, <1>5, <1>6, SpendType DEF TypeOK, tableVars
<1>8. ASSUME NEW d \in Events PROVE Claimed(d)' /\ Unexpired(d)'
  <2>1. Claimed(d) /\ Unexpired(d) /\ deliveries[d] \in 0 .. 2
    BY <1>3 DEF IInv, TypeOK
  <2>2. CASE d # e
    <3>1. deliveries'[d] = deliveries[d] /\ \A v \in Workers : task'[v][d] = task[v][d]
      BY <2>2, <1>5, <1>6
    <3> QED
      BY <3>1, <2>1, <1>2 DEF Claimed, Fresh, Unexpired, tableVars
  <2>3. CASE d = e
    <3>1. lease[e] # "none"
      BY <2>1, <2>3, <1>2 DEF Claimed, Fresh
    <3>2. Claimed(e)'
      BY <3>1, <2>1, <2>3, <1>2, <1>5, <1>6 DEF Claimed, tableVars
    <3>3. AfterPublish(o) # "publish"
      BY DEF AfterPublish
    <3>4. Unexpired(e)'
      BY <3>3, <2>1, <2>3, <1>2, <1>5, <1>6 DEF Unexpired, tableVars
    <3> QED
      BY <3>2, <3>4, <2>3
  <2> QED
    BY <2>2, <2>3
<1> QED
  BY <1>7, <1>8 DEF IInv

(* An event that is marked was delivered.                                  *)
LEMMA MarkPublishedStep ==
    ASSUME IInv, NEW w \in Workers, NEW e \in Events, MarkPublished(w, e)
    PROVE  IInv'
<1>1. PICK o \in Outcomes(w) :
        /\ published' = IF Applied(o) THEN published \cup {e} ELSE published
        /\ Spend(w, o)
  BY DEF MarkPublished
<1>2. /\ task[w][e] = "mark" /\ SetTask(w, e, "idle")
      /\ UNCHANGED <<rows, lease, deliveries, mode, expired>>
  BY DEF MarkPublished
<1>3. TypeOK
  BY DEF IInv
<1>4. /\ task' \in [Workers -> [Events -> {"idle", "publish", "mark"}]]
      /\ \A v \in Workers, d \in Events :
            task'[v][d] = IF v = w /\ d = e THEN "idle" ELSE task[v][d]
  BY <1>2, <1>3, SetTaskEntry
<1>5. published \subseteq published' /\ published' \subseteq published \cup {e}
  BY <1>1
<1>6. TypeOK'
  BY <1>1, <1>2, <1>3, <1>4, <1>5, SpendType DEF TypeOK
<1>7. ASSUME NEW d \in Events PROVE Claimed(d)' /\ Unexpired(d)'
  <2>1. Claimed(d) /\ Unexpired(d)
    BY DEF IInv
  <2>2. Claimed(d)'
    BY <2>1, <1>2, <1>4, <1>5 DEF Claimed, Fresh
  <2>3. Unexpired(d)'
    BY <2>1, <1>2, <1>4 DEF Unexpired
  <2> QED
    BY <2>2, <2>3
<1> QED
  BY <1>6, <1>7 DEF IInv

-----------------------------------------------------------------------------
(* The invariant is inductive: one case per action of the specification.   *)
LEMMA NextIInv == IInv /\ [Next]_vars => IInv'
<1> SUFFICES ASSUME IInv, [Next]_vars PROVE IInv'
  OBVIOUS
<1>1. TypeOK
  BY DEF IInv
<1>2. ASSUME NEW e \in Events, Create(e) PROVE IInv'
  <2>1. TypeOK'
    BY <1>1, <1>2 DEF Create, TypeOK, workerVars
  <2>2. \A d \in Events : Claimed(d)'
    BY <1>2 DEF IInv, Claimed, Fresh, Create, workerVars
  <2>3. \A d \in Events : Unexpired(d)'
    BY <1>2 DEF IInv, Unexpired, Create, workerVars
  <2> QED
    BY <2>1, <2>2, <2>3 DEF IInv
<1>3. ASSUME NEW e \in Events, Expire(e) PROVE IInv'
  <2>1. TypeOK'
    BY <1>1, <1>3 DEF Expire, TypeOK, workerVars
  <2>2. \A d \in Events : /\ lease'[d] = IF d = e THEN "past" ELSE lease[d]
                          /\ d \notin expired' => d # e /\ d \notin expired
    BY <1>1, <1>3 DEF Expire, TypeOK
  <2>3. lease[e] = "held" /\ UNCHANGED <<rows, published, deliveries, task>>
    BY <1>3 DEF Expire, workerVars
  <2>4. \A d \in Events : Claimed(d)'
    BY <2>2, <2>3 DEF IInv, Claimed, Fresh
  <2>5. \A d \in Events : Unexpired(d)'
    BY <2>2, <2>3 DEF IInv, Unexpired
  <2> QED
    BY <2>1, <2>4, <2>5 DEF IInv
<1>4. ASSUME NEW w \in Workers, Shutdown(w) PROVE IInv'
  <2>1. TypeOK'
    BY <1>1, <1>4, OutboxAssumption DEF Shutdown, TypeOK, tableVars
  <2> QED
    BY <2>1, <1>4, FewerTasks DEF Shutdown, tableVars
<1>5. ASSUME NEW w \in Workers, Exit(w) \/ Crash(w) PROVE IInv'
  <2>1. /\ Abandon(w) /\ UNCHANGED <<tableVars, deliveries, expired>>
        /\ faults' \in 0 .. MaxFaults
    BY <1>1, <1>5, OutboxAssumption DEF Exit, Crash, TypeOK
  <2>2. TypeOK'
    BY <1>1, <2>1, AbandonTasks DEF TypeOK, tableVars
  <2> QED
    BY <1>1, <2>1, <2>2, AbandonTasks, FewerTasks DEF tableVars
<1>6. ASSUME NEW w \in Workers, Restart(w) PROVE IInv'
  <2>1. TypeOK'
    BY <1>1, <1>6 DEF Restart, TypeOK, tableVars
  <2> QED
    BY <2>1, <1>6, FewerTasks DEF Restart, tableVars
<1>7. CASE UNCHANGED vars
  <2>1. TypeOK'
    BY <1>1, <1>7 DEF vars, tableVars, workerVars, TypeOK
  <2> QED
    BY <2>1, <1>7, FewerTasks DEF vars, tableVars, workerVars
<1> QED
  BY <1>2, <1>3, <1>4, <1>5, <1>6, <1>7, FetchUnpublishedStep, PublishStep,
     MarkPublishedStep DEF Next

(* So it holds in every reachable state.                                   *)
LEMMA Invariance == Spec => []IInv
<1> QED
  BY InitIInv, NextIInv, PTL DEF Spec

(* An event is handed to Kafka twice only if its lease expired.            *)
THEOREM NoDuplicateUnderLease == Spec => []DuplicateNeedsExpiry
<1>1. IInv => DuplicateNeedsExpiry
  BY DEF IInv, TypeOK, Unexpired, DuplicateNeedsExpiry
<1> QED
  BY <1>1, Invariance, PTL

(* While no lease on it has expired, one worker has the event in hand.     *)
THEOREM LeaseIsExclusive == Spec => []OneWorkerPerLease
<1>1. IInv => OneWorkerPerLease
  BY DEF IInv, Unexpired, OneWorkerPerLease
<1> QED
  BY <1>1, Invariance, PTL

-----------------------------------------------------------------------------
(* A step of the outbox is a step of the abstract channel or a stutter:    *)
(* Create sends, Publish delivers, MarkPublished retires.                  *)
LEMMA StepSimulation ==
    IInv /\ [Next]_vars => [Delivery!Next]_(Delivery!vars)
<1> SUFFICES ASSUME IInv, [Next]_vars PROVE [Delivery!Next]_(Delivery!vars)
  OBVIOUS
<1>1. TypeOK
  BY DEF IInv
<1>2. ASSUME NEW e \in Events, Create(e) PROVE Delivery!Send(e)
  BY <1>2 DEF Create, Delivery!Send
<1>3. ASSUME NEW w \in Workers, NEW e \in Events, Publish(w, e)
      PROVE  Delivery!Deliver(e) \/ UNCHANGED Delivery!vars
  <2>1. /\ UNCHANGED <<rows, published>>
        /\ deliveries' \in {deliveries, [deliveries EXCEPT ![e] = @ + 1]}
    BY <1>3 DEF Publish, tableVars
  <2>2. e \in rows
    BY <1>3 DEF IInv, Claimed, Fresh, Publish
  <2>3. deliveries \in [Events -> 0 .. 2]
    BY <1>1 DEF TypeOK
  <2>4. CASE deliveries' = deliveries
    BY <2>1, <2>4 DEF Delivery!vars
  <2>5. CASE deliveries' = [deliveries EXCEPT ![e] = @ + 1]
    <3>1. \A d \in Events : deliveries'[d] > 0 <=> (d = e \/ deliveries[d] > 0)
      BY <2>3, <2>5
    <3> QED
      BY <3>1, <2>1, <2>2 DEF Delivery!Deliver
  <2> QED
    BY <2>1, <2>4, <2>5
<1>4. ASSUME NEW w \in Workers, NEW e \in Events, MarkPublished(w, e)
      PROVE  Delivery!Retire(e) \/ UNCHANGED Delivery!vars
  <2>1. UNCHANGED <<rows, deliveries>> /\ published' \in {published, published \cup {e}}
    BY <1>4 DEF MarkPublished
  <2>2. deliveries[e] > 0
    BY <1>4 DEF IInv, Claimed, MarkPublished
  <2> QED
    BY <2>1, <2>2 DEF Delivery!Retire, Delivery!vars
<1>5. ASSUME UNCHANGED <<rows, published, deliveries>> PROVE UNCHANGED Delivery!vars
  BY <1>5 DEF Delivery!vars
<1>6. ASSUME NEW e \in Events, Expire(e) PROVE UNCHANGED Delivery!vars
  BY <1>5, <1>6 DEF Expire
<1>7. ASSUME NEW w \in Workers,
             \/ FetchUnpublished(w) \/ Shutdown(w) \/ Exit(w) \/ Crash(w)
             \/ Restart(w)
      PROVE  UNCHANGED Delivery!vars
  BY <1>5, <1>7 DEF FetchUnpublished, Shutdown, Exit, Crash, Restart, tableVars
<1>8. CASE UNCHANGED vars
  BY <1>5, <1>8 DEF vars, tableVars
<1> QED
  BY <1>2, <1>3, <1>4, <1>6, <1>7, <1>8 DEF Next, Delivery!Next

(* The outbox with its workers implements at-least-once delivery.          *)
THEOREM ImplementsDelivery == Spec => DeliverySafe
<1>1. Init => Delivery!Init
  BY DEF Init, Delivery!Init
<1> QED
  BY <1>1, StepSimulation, Invariance, PTL DEF Spec, DeliverySafe, Delivery!Spec
=============================================================================
