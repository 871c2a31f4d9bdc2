-------------------------- MODULE WorkerPoolProofs --------------------------
(***************************************************************************)
(* Proofs about WorkerPool, for any number of jobs, workers and callers.   *)
(* The heart is SlotsInv: every slot taken is a buffered job, a running    *)
(* job or the one Submit in its send.  When the buffer is full, the slots  *)
(* left are fewer than the workers, so one of them is free.                *)
(***************************************************************************)
EXTENDS WorkerPool, FiniteSetTheorems, TLAPS

InQueue(j) == \E i \in 1 .. Len(queue) : queue[i] = j

MutexInv == \A j \in Jobs : call[j] = "send" <=> mu = j

(* Every slot is accounted for.                                            *)
SlotsInv ==
    /\ IsFiniteSet(running)
    /\ Cardinality(running) \in Nat
    /\ slots = Len(queue) + Cardinality(running) + (IF mu = NoJob THEN 0 ELSE 1)

(* Workers return only when there is nothing left to do.                   *)
LiveInv ==
    /\ Cardinality(running) <= live
    /\ live # Workers => closed /\ queue = <<>>
    /\ mu # NoJob => ~closed

StopInv ==
    \A s \in Stoppers :
        /\ stop[s] \in {"wait", "returned"} => closed
        /\ stop[s] = "returned" => live = 0

(* Where a job is.                                                         *)
Placed(j) ==
    /\ starts[j] <= 1
    /\ starts[j] = 1 => call[j] = "accepted"
    /\ InQueue(j) => starts[j] = 0 /\ call[j] = "accepted"
    /\ j \in running => starts[j] = 1
    /\ call[j] = "accepted" => InQueue(j) \/ starts[j] = 1

PlaceInv ==
    /\ \A i, k \in 1 .. Len(queue) : queue[i] = queue[k] => i = k
    /\ \A j \in Jobs : Placed(j)

IInv ==
    /\ TypeOK
    /\ MutexInv
    /\ SlotsInv
    /\ LiveInv
    /\ StopInv
    /\ PlaceInv

-----------------------------------------------------------------------------
(* The initial state satisfies the invariant.                              *)
LEMMA InitIInv == Init => IInv
<1> SUFFICES ASSUME Init PROVE IInv
  OBVIOUS
<1> USE DEF Init
<1>1. IsFiniteSet(running) /\ Cardinality(running) = 0
  BY FS_EmptySet
<1>2. TypeOK
  <2>1. <<>> \in Seq(Jobs) /\ Len(<<>>) = 0
    OBVIOUS
  <2>2. slots \in 0 .. Capacity /\ live \in 0 .. Workers
    BY SizeAssumption DEF Capacity
  <2>3. Len(queue) <= QueueSize
    BY <2>1, SizeAssumption
  <2> QED
    BY <2>1, <2>2, <2>3 DEF TypeOK
<1>3. MutexInv
  BY JobsAssumption DEF MutexInv
<1>4. SlotsInv
  BY <1>1, <1>2 DEF SlotsInv, TypeOK
<1>5. LiveInv
  BY <1>1, SizeAssumption DEF LiveInv
<1>6. StopInv
  BY DEF StopInv
<1>7. PlaceInv
  BY DEF PlaceInv, Placed, InQueue
<1> QED
  BY <1>2, <1>3, <1>4, <1>5, <1>6, <1>7 DEF IInv

-----------------------------------------------------------------------------
(* A job begins on a free worker: the counting of both ways a job starts.  *)
LEMMA Begins ==
    ASSUME IInv, NEW j \in Jobs, j \notin running, Free > 0
    PROVE  /\ IsFiniteSet(running \cup {j})
           /\ Cardinality(running \cup {j}) = Cardinality(running) + 1
           /\ Cardinality(running \cup {j}) <= live
<1>1. /\ IsFiniteSet(running \cup {j})
      /\ Cardinality(running \cup {j}) = Cardinality(running) + 1
  BY FS_AddElement DEF IInv, SlotsInv
<1> QED
  BY <1>1 DEF IInv, SlotsInv, LiveInv, TypeOK, Free

(* Call.                                                                   *)
LEMMA CallIInv ==
    ASSUME IInv, NEW j \in Jobs, Call(j)
    PROVE  IInv'
<1> USE DEF IInv, Call
<1>1. TypeOK'
  BY DEF TypeOK, Capacity
<1>2. MutexInv'
  BY DEF TypeOK, MutexInv
<1>3. SlotsInv' /\ LiveInv' /\ StopInv'
  BY DEF SlotsInv, LiveInv, StopInv
<1>4. PlaceInv'
  BY DEF TypeOK, PlaceInv, Placed, InQueue
<1> QED
  BY <1>1, <1>2, <1>3, <1>4

(* Refuse.                                                                 *)
LEMMA RefuseIInv ==
    ASSUME IInv, NEW j \in Jobs, Refuse(j)
    PROVE  IInv'
<1> USE DEF IInv, Refuse
<1>1. TypeOK'
  BY DEF TypeOK, Capacity
<1>2. MutexInv'
  BY DEF TypeOK, MutexInv
<1>3. SlotsInv' /\ LiveInv' /\ StopInv'
  BY DEF SlotsInv, LiveInv, StopInv
<1>4. PlaceInv'
  BY DEF TypeOK, PlaceInv, Placed, InQueue
<1> QED
  BY <1>1, <1>2, <1>3, <1>4

(* Admit.                                                                  *)
LEMMA AdmitIInv ==
    ASSUME IInv, NEW j \in Jobs, Admit(j)
    PROVE  IInv'
<1> USE DEF IInv, Admit
<1>1. TypeOK'
  BY SizeAssumption DEF TypeOK, Capacity
<1>2. MutexInv'
  BY JobsAssumption DEF TypeOK, MutexInv
<1>3. SlotsInv'
  BY JobsAssumption DEF SlotsInv, TypeOK
<1>4. LiveInv' /\ StopInv'
  BY DEF LiveInv, StopInv
<1>5. PlaceInv'
  BY DEF TypeOK, PlaceInv, Placed, InQueue
<1> QED
  BY <1>1, <1>2, <1>3, <1>4, <1>5

(* Send.                                                                   *)
LEMMA SendIInv ==
    ASSUME IInv, NEW j \in Jobs, Send(j)
    PROVE  IInv'
<1> USE DEF IInv
<1>0. mu = j /\ mu # NoJob /\ ~closed /\ live = Workers /\ j \notin running
      /\ starts[j] = 0 /\ ~InQueue(j)
  BY JobsAssumption DEF Send, MutexInv, LiveInv, PlaceInv, Placed, TypeOK
<1>1. MutexInv'
  BY <1>0, JobsAssumption DEF Send, TypeOK, MutexInv
<1>2. StopInv'
  BY DEF Send, StopInv
<1>3. CASE /\ Len(queue) < QueueSize
           /\ queue' = Append(queue, j)
           /\ UNCHANGED <<running, starts>>
  <2>1. TypeOK'
    BY <1>3, SizeAssumption DEF Send, TypeOK, Capacity
  <2>2. SlotsInv'
    BY <1>0, <1>3 DEF Send, SlotsInv, TypeOK
  <2>3. LiveInv'
    BY <1>0, <1>3 DEF Send, LiveInv
  <2>4. /\ Len(queue') = Len(queue) + 1
        /\ \A i \in 1 .. Len(queue) : queue'[i] = queue[i]
        /\ queue'[Len(queue) + 1] = j
    BY <1>3 DEF TypeOK
  <2>5. PlaceInv'
    <3>0. Len(queue) \in Nat
      BY DEF TypeOK
    <3>1. \A i, k \in 1 .. Len(queue') : queue'[i] = queue'[k] => i = k
      <4>1. \A i \in 1 .. Len(queue) : queue'[i] # j
        BY <1>0, <2>4 DEF InQueue
      <4>2. \A i \in 1 .. Len(queue') : i \in 1 .. Len(queue) \/ i = Len(queue) + 1
        BY <2>4, <3>0
      <4>3. \A i, k \in 1 .. Len(queue) : queue'[i] = queue'[k] => i = k
        BY <2>4 DEF PlaceInv
      <4> QED
        BY <2>4, <4>1, <4>2, <4>3
    <3>2. \A k \in Jobs : InQueue(k)' <=> InQueue(k) \/ k = j
      <4>1. 1 .. Len(queue') = (1 .. Len(queue)) \cup {Len(queue) + 1}
        BY <2>4, <3>0
      <4>2. \A k : InQueue(k)' <=> \E i \in 1 .. Len(queue') : queue'[i] = k
        BY DEF InQueue
      <4> QED
        BY <2>4, <4>1, <4>2 DEF InQueue
    <3>3. \A k \in Jobs : Placed(k)'
      BY <1>0, <1>3, <3>2 DEF PlaceInv, Placed, Send, TypeOK
    <3> QED
      BY <3>1, <3>3 DEF PlaceInv
  <2> QED
    BY <1>1, <1>2, <2>1, <2>2, <2>3, <2>5
<1>4. CASE /\ queue = <<>> /\ Free > 0
           /\ running' = running \cup {j}
           /\ starts' = [starts EXCEPT ![j] = @ + 1]
           /\ UNCHANGED queue
  <2>0. /\ IsFiniteSet(running')
        /\ Cardinality(running') = Cardinality(running) + 1
        /\ Cardinality(running') <= live
    BY <1>0, <1>4, Begins
  <2>1. TypeOK'
    BY <1>4 DEF Send, TypeOK, Capacity
  <2>2. SlotsInv'
    BY <1>0, <1>4, <2>0 DEF Send, SlotsInv, TypeOK
  <2>3. LiveInv'
    BY <1>0, <1>4, <2>0 DEF Send, LiveInv
  <2>4. PlaceInv'
    BY <1>0, <1>4 DEF PlaceInv, Placed, InQueue, Send, TypeOK
  <2> QED
    BY <1>1, <1>2, <2>1, <2>2, <2>3, <2>4
<1> QED
  BY <1>3, <1>4 DEF Send

(* Receive.                                                                *)
LEMMA ReceiveIInv ==
    ASSUME IInv, Receive
    PROVE  IInv'
<1> USE DEF IInv
<1> DEFINE h == Head(queue)
<1>0. /\ h \in Jobs /\ h = queue[1] /\ Len(queue) > 0 /\ Len(queue) \in Nat
      /\ Len(queue') = Len(queue) - 1
      /\ \A i \in 1 .. Len(queue') : queue'[i] = queue[i + 1]
      /\ queue' \in Seq(Jobs)
  BY DEF Receive, TypeOK
<1>1. InQueue(h) /\ starts[h] = 0 /\ h \notin running /\ call[h] = "accepted"
  BY <1>0 DEF InQueue, PlaceInv, Placed, TypeOK
<1>2. /\ IsFiniteSet(running')
      /\ Cardinality(running') = Cardinality(running) + 1
      /\ Cardinality(running') <= live
  BY <1>0, <1>1, Begins DEF Receive
<1>3. TypeOK'
  <2>1. Len(queue') <= QueueSize
    BY <1>0, SizeAssumption DEF TypeOK
  <2>2. starts' \in [Jobs -> Nat] /\ running' \subseteq Jobs
    BY <1>0 DEF Receive, TypeOK
  <2> QED
    BY <1>0, <2>1, <2>2 DEF Receive, TypeOK, Capacity
<1>4. MutexInv' /\ StopInv'
  BY DEF Receive, MutexInv, StopInv
<1>5. SlotsInv'
  BY <1>0, <1>2 DEF Receive, SlotsInv, TypeOK
<1>6. LiveInv'
  BY <1>0, <1>2 DEF Receive, LiveInv
<1>7. PlaceInv'
  <2>0. \A i \in 1 .. Len(queue') : i + 1 \in 1 .. Len(queue) /\ i + 1 # 1
    BY <1>0
  <2>1. \A i, k \in 1 .. Len(queue') : queue'[i] = queue'[k] => i = k
    <3> SUFFICES ASSUME NEW i \in 1 .. Len(queue'), NEW k \in 1 .. Len(queue'),
                        queue'[i] = queue'[k]
                 PROVE  i = k
      OBVIOUS
    <3>1. i + 1 = k + 1
      BY <1>0, <2>0 DEF PlaceInv
    <3> QED
      BY <3>1, <1>0
  <2>2. \A k \in Jobs : InQueue(k)' <=> InQueue(k) /\ k # h
    <3>1. ASSUME NEW k \in Jobs, InQueue(k)'
          PROVE  InQueue(k) /\ k # h
      <4>1. PICK i \in 1 .. Len(queue') : queue'[i] = k
        BY <3>1 DEF InQueue
      <4>2. queue[i + 1] = k /\ i + 1 \in 1 .. Len(queue) /\ i + 1 # 1
        BY <1>0, <2>0, <4>1
      <4>3. 1 \in 1 .. Len(queue)
        BY <1>0
      <4> QED
        BY <1>0, <4>2, <4>3 DEF InQueue, PlaceInv
    <3>2. ASSUME NEW k \in Jobs, InQueue(k), k # h
          PROVE  InQueue(k)'
      <4>1. PICK i \in 1 .. Len(queue) : queue[i] = k
        BY <3>2 DEF InQueue
      <4>2. i - 1 \in 1 .. Len(queue') /\ queue'[i - 1] = k
        BY <1>0, <3>2, <4>1 DEF TypeOK
      <4> QED
        BY <4>2 DEF InQueue
    <3> QED
      BY <3>1, <3>2
  <2>3. \A k \in Jobs : Placed(k)'
    BY <1>0, <1>1, <2>2 DEF PlaceInv, Placed, Receive, TypeOK
  <2> QED
    BY <2>1, <2>3 DEF PlaceInv
<1> QED
  BY <1>3, <1>4, <1>5, <1>6, <1>7

(* Finish.                                                                 *)
LEMMA FinishIInv ==
    ASSUME IInv, NEW j \in Jobs, Finish(j)
    PROVE  IInv'
<1> USE DEF IInv, Finish
<1>0. /\ IsFiniteSet(running')
      /\ Cardinality(running') = Cardinality(running) - 1
      /\ Cardinality(running') \in Nat
  BY FS_RemoveElement, FS_CardinalityType DEF SlotsInv
<1>1. TypeOK'
  <2>1. slots' \in 0 .. Capacity
    BY <1>0, SizeAssumption DEF SlotsInv, TypeOK, Capacity
  <2> QED
    BY <2>1 DEF TypeOK, Capacity
<1>2. MutexInv' /\ StopInv'
  BY DEF MutexInv, StopInv
<1>3. SlotsInv'
  BY <1>0 DEF SlotsInv, TypeOK
<1>4. LiveInv'
  BY <1>0 DEF SlotsInv, LiveInv, TypeOK
<1>5. PlaceInv'
  BY DEF PlaceInv, Placed, InQueue
<1> QED
  BY <1>1, <1>2, <1>3, <1>4, <1>5

(* WorkerReturns.                                                          *)
LEMMA WorkerReturnsIInv ==
    ASSUME IInv, WorkerReturns
    PROVE  IInv'
<1> USE DEF IInv, WorkerReturns, Drained, Free
<1>1. TypeOK'
  BY SizeAssumption DEF TypeOK, SlotsInv, Capacity
<1>2. MutexInv' /\ SlotsInv'
  BY DEF MutexInv, SlotsInv
<1>3. LiveInv'
  BY DEF LiveInv, SlotsInv, TypeOK
<1>4. StopInv'
  BY DEF StopInv, SlotsInv, TypeOK
<1>5. PlaceInv'
  BY DEF PlaceInv, Placed, InQueue
<1> QED
  BY <1>1, <1>2, <1>3, <1>4, <1>5

(* CallShutdown, Close and ShutdownReturns.                                *)
LEMMA ShutdownIInv ==
    ASSUME IInv, NEW s \in Stoppers,
           CallShutdown(s) \/ Close(s) \/ ShutdownReturns(s)
    PROVE  IInv'
<1> USE DEF IInv, CallShutdown, Close, ShutdownReturns
<1>1. TypeOK'
  BY DEF TypeOK, Capacity
<1>2. MutexInv' /\ SlotsInv'
  BY DEF MutexInv, SlotsInv
<1>3. LiveInv'
  BY DEF LiveInv
<1>4. StopInv'
  BY DEF StopInv, TypeOK
<1>5. PlaceInv'
  BY DEF PlaceInv, Placed, InQueue
<1> QED
  BY <1>1, <1>2, <1>3, <1>4, <1>5

-----------------------------------------------------------------------------
(* Every step preserves the invariant.                                     *)
LEMMA NextIInv == IInv /\ [Next]_vars => IInv'
<1> SUFFICES ASSUME IInv, [Next]_vars PROVE IInv'
  OBVIOUS
<1>1. CASE UNCHANGED vars
  BY <1>1 DEF vars, IInv, TypeOK, Capacity, MutexInv, SlotsInv, LiveInv, StopInv,
              PlaceInv, Placed, InQueue
<1>2. CASE \E j \in Jobs : Call(j) \/ Submit(j) \/ Finish(j)
  BY <1>2, CallIInv, RefuseIInv, AdmitIInv, SendIInv, FinishIInv DEF Submit
<1>3. CASE Receive \/ WorkerReturns
  BY <1>3, ReceiveIInv, WorkerReturnsIInv
<1>4. CASE \E s \in Stoppers : CallShutdown(s) \/ Close(s) \/ ShutdownReturns(s)
  BY <1>4, ShutdownIInv
<1> QED
  BY <1>1, <1>2, <1>3, <1>4 DEF Next, Terminating

(* The invariant holds in every reachable state.                           *)
LEMMA Invariance == Spec => []IInv
  BY InitIInv, NextIInv, PTL DEF Spec

(* The variables of the pool keep their types: in particular neither       *)
(* channel holds more than its capacity.                                   *)
THEOREM TypeCorrect == Spec => []TypeOK
<1>1. IInv => TypeOK
  BY DEF IInv
<1> QED
  BY <1>1, Invariance, PTL

(* Submit never blocks for good under the mutex: whenever it is in its     *)
(* send, the buffer has room or a worker is free to take the job.          *)
THEOREM SendAlwaysTaken == Spec => []BlockedSendHasTaker
<1>1. IInv => BlockedSendHasTaker
  <2> SUFFICES ASSUME IInv, NEW j \in Jobs, call[j] = "send",
                      ~(Len(queue) < QueueSize)
               PROVE  Free > 0
    BY DEF BlockedSendHasTaker
  <2>1. mu # NoJob /\ live = Workers
    BY JobsAssumption DEF IInv, MutexInv, LiveInv
  <2> QED
    BY <2>1, SizeAssumption DEF IInv, SlotsInv, TypeOK, Capacity, Free
<1> QED
  BY <1>1, Invariance, PTL

(* Shutdown never closes the channel a Submit is sending on.               *)
THEOREM NeverSendsOnClosed == Spec => []NoSendOnClosed
<1>1. IInv => NoSendOnClosed
  BY JobsAssumption DEF IInv, MutexInv, LiveInv, NoSendOnClosed
<1> QED
  BY <1>1, Invariance, PTL

(* No accepted job is lost or run twice, and Shutdown returns only after   *)
(* all of them have run.                                                   *)
THEOREM NoJobLost == Spec => []AcceptedRunOnce
<1>1. IInv => AcceptedRunOnce
  <2> SUFFICES ASSUME IInv, NEW j \in Jobs
               PROVE  /\ starts[j] <= 1
                      /\ starts[j] = 1 => call[j] = "accepted"
                      /\ call[j] = "accepted" /\ (\E s \in Stoppers : stop[s] = "returned")
                           => starts[j] = 1 /\ j \notin running
    BY DEF AcceptedRunOnce
  <2>1. Placed(j)
    BY DEF IInv, PlaceInv
  <2>2. ASSUME NEW s \in Stoppers, stop[s] = "returned"
        PROVE  ~InQueue(j) /\ j \notin running
    <3>1. live = 0 /\ queue = <<>> /\ Cardinality(running) = 0
      BY <2>2, SizeAssumption DEF IInv, StopInv, LiveInv, SlotsInv, TypeOK
    <3>2. running = {}
      BY <3>1, FS_EmptySet DEF IInv, SlotsInv
    <3> QED
      BY <3>1, <3>2 DEF InQueue
  <2> QED
    BY <2>1, <2>2 DEF Placed
<1> QED
  BY <1>1, Invariance, PTL
=============================================================================
