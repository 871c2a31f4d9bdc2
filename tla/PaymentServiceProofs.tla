------------------------ MODULE PaymentServiceProofs ------------------------
(***************************************************************************)
(* Proofs that the payment service keeps its safety properties for every   *)
(* set of merchants, requests and inputs, every retry policy and every     *)
(* combination of faults.  Everything rests on one inductive invariant,    *)
(* IInv.  Most of it is local to a create handler c and the row it owns    *)
(* (Local(c)); the rest relates handlers and rows of different requests.   *)
(***************************************************************************)
EXTENDS PaymentService, SequenceTheorems, FiniteSetTheorems, WellFoundedInduction,
        NaturalsInduction, TLAPS

USE DEF WithStatus

BeforeRow == {"check", "validate", "persist"}

(* The handler owns a row that is not credited yet.                        *)
InFlight == {"setStatus", "audit", "emit", "undo", "bank", "complete"}

Credited(c) == status[c] \in {"COMPLETED", "REFUNDED"}

(* The handler's memory agrees with the step it is at.                     *)
Memory(c) ==
    /\ pc[c] \in Ended \cup BeforeRow \cup InFlight
    /\ pc[c] \in {"persist"} \cup InFlight => input[c].amount > 0
    /\ pc[c] \in BeforeRow \cup {"bank", "complete"} => target[c] = "PROCESSING"
    /\ pc[c] \in BeforeRow => mem[c] = "PENDING"
    /\ pc[c] \in {"bank", "complete", "emit"} => mem[c] = "PROCESSING"
    /\ pc[c] = "emit" => target[c] = "FAILED"
    /\ pc[c] \in {"setStatus", "audit", "undo"} =>
          mem[c] = IF target[c] = "PROCESSING" THEN "PENDING" ELSE "PROCESSING"
    /\ pc[c] # "replied" => answer[c] = c

(* The bank is called at most MaxAttempts times.                           *)
Attempts(c) ==
    /\ charges[c] <= attempts[c]
    /\ pc[c] = "bank" => attempts[c] < MaxAttempts
    /\ pc[c] \in BeforeRow => attempts[c] = 0
    /\ pc[c] \in {"setStatus", "audit", "undo"} /\ target[c] = "PROCESSING"
          => attempts[c] = 0

(* The row follows the handler that created it until it is credited.       *)
Row(c) ==
    /\ pc[c] \in BeforeRow => status[c] = "NONE"
    /\ pc[c] \in InFlight => status[c] \in {"PENDING", "PROCESSING", "FAILED"}
    /\ pc[c] = "audit" => status[c] = target[c]
    /\ pc[c] \in {"bank", "complete"} => status[c] = "PROCESSING"
    /\ charges[c] > 0 => status[c] \notin {"NONE", "PENDING"}
    /\ pc[c] = "complete" => charges[c] > 0
    /\ Credited(c) => pc[c] \in Ended /\ charges[c] > 0

(* The outbox agrees with the row.                                         *)
Announced(c) ==
    /\ outbox[c]["completed"] = IF Credited(c) THEN 1 ELSE 0
    /\ ~Credited(c) => outbox[c]["refunded"] = 0
    /\ outbox[c]["failed"] > 0 =>
          pc[c] \in {"undo", "error", "crashed"} /\ ~Credited(c)

Created   == <<"NONE", "PENDING">>
Started   == <<"PENDING", "PROCESSING">>
Completed == <<"PROCESSING", "COMPLETED">>
Refunded  == <<"COMPLETED", "REFUNDED">>

(* The audit trail up to the handler's step, or since the credit.          *)
Trail(c) ==
    /\ pc[c] \in BeforeRow => Len(events[c]) = 0
    /\ pc[c] \in {"setStatus", "audit"} /\ target[c] = "PROCESSING"
          => Len(events[c]) = 1 /\ events[c][1] = Created
    /\ pc[c] \in {"bank", "complete"} =>
          Len(events[c]) = 2 /\ events[c][1] = Created /\ events[c][2] = Started
    /\ Credited(c) =>
          /\ Len(events[c]) = 3 + outbox[c]["refunded"]
          /\ events[c][1] = Created
          /\ events[c][2] = Started
          /\ events[c][3] = Completed
          /\ \A i \in 4 .. Len(events[c]) : events[c][i] = Refunded

Local(c) == Memory(c) /\ Attempts(c) /\ Row(c) /\ Announced(c) /\ Trail(c)

(* A successful answer is the handler's own row or that of its key.        *)
Answered(c) ==
    pc[c] = "replied" =>
        /\ status[answer[c]] # "NONE"
        /\ answer[c] # c => /\ input[answer[c]].key = input[c].key
                            /\ MatchesIdempotentRequest(answer[c], c)

(* A refund that passed its check is about a credited transaction.         *)
Refunding(r) ==
    /\ pc[r] \in Ended \cup RefundSteps
    /\ pc[r] = "refund" => Credited(refund[r].tx)

(* The unique index.                                                       *)
KeyInv ==
    \A t, u \in Creates :
        /\ status[t] # "NONE" /\ status[u] # "NONE"
        /\ input[t].key = input[u].key /\ input[t].key # NoKey
        => t = u

IInv ==
    /\ TypeOK
    /\ \A c \in Creates : Local(c)
    /\ \A c \in Creates : Answered(c)
    /\ \A r \in Refunds : Refunding(r)
    /\ KeyInv

-----------------------------------------------------------------------------
(* The initial states satisfy the invariant: no handler has started and    *)
(* the database holds merchants only.                                      *)
LEMMA InitIInv == Init => IInv
<1> SUFFICES ASSUME Init PROVE IInv
  OBVIOUS
<1>1. TypeOK
  BY MerchantsAssumption, LimitsAssumption
  DEF Init, TypeOK, Handlers, Ended, CreateSteps, RefundSteps, Status, OutboxKinds
<1>2. ASSUME NEW c \in Creates PROVE Local(c)
  <2>1. /\ pc[c] = "check" /\ mem[c] = "PENDING" /\ target[c] = "PROCESSING"
        /\ attempts[c] = 0 /\ charges[c] = 0 /\ answer[c] = c
        /\ status[c] = "NONE" /\ events[c] = << >>
        /\ outbox[c]["completed"] = 0 /\ outbox[c]["failed"] = 0
        /\ outbox[c]["refunded"] = 0
    BY DEF Init, Handlers, OutboxKinds
  <2> QED
    BY <2>1, LimitsAssumption
    DEF Local, Memory, Attempts, Row, Announced, Trail, Credited, Ended,
        BeforeRow, InFlight
<1>3. ASSUME NEW c \in Creates PROVE Answered(c)
  BY DEF Init, Handlers, Answered
<1>4. ASSUME NEW r \in Refunds PROVE Refunding(r)
  BY HandlersAssumption DEF Init, Handlers, Refunding, RefundSteps
<1>5. KeyInv
  BY DEF Init, KeyInv
<1> QED
  BY <1>1, <1>2, <1>3, <1>4, <1>5 DEF IInv

-----------------------------------------------------------------------------
(* What a step leaves alone.                                               *)

(* A step that touches at most the handler c and its row.                  *)
OnlyAt(c) ==
    /\ input' = input /\ refund' = refund
    /\ \A d \in Creates \ {c} :
          /\ pc'[d] = pc[d] /\ mem'[d] = mem[d] /\ target'[d] = target[d]
          /\ attempts'[d] = attempts[d] /\ answer'[d] = answer[d]
          /\ status'[d] = status[d] /\ events'[d] = events[d]
          /\ outbox'[d] = outbox[d] /\ charges'[d] = charges[d]

(* Rows are never deleted, and a credit is never taken back.               *)
Grows(c) ==
    /\ status[c] # "NONE" => status'[c] # "NONE"
    /\ Credited(c) => Credited(c)'
    /\ status[c] = "NONE" /\ status'[c] # "NONE" => KeyFree(c)

(* The local invariant of a handler survives the steps of the others.      *)
LEMMA LocalFrame ==
    ASSUME NEW c, OnlyAt(c), NEW d \in Creates, d # c, Local(d)
    PROVE  Local(d)'
<1>1. /\ pc'[d] = pc[d] /\ mem'[d] = mem[d] /\ target'[d] = target[d]
      /\ attempts'[d] = attempts[d] /\ answer'[d] = answer[d]
      /\ status'[d] = status[d] /\ events'[d] = events[d]
      /\ outbox'[d] = outbox[d] /\ charges'[d] = charges[d]
      /\ input' = input
  BY DEF OnlyAt
<1>2. Memory(d)'
  BY <1>1 DEF Local, Memory
<1>3. Attempts(d)'
  BY <1>1 DEF Local, Attempts
<1>4. Row(d)' /\ Announced(d)' /\ Trail(d)'
  BY <1>1 DEF Local, Row, Announced, Trail, Credited
<1> QED
  BY <1>2, <1>3, <1>4 DEF Local

(* So a step at one create handler that keeps the handler's own part of    *)
(* the invariant keeps all of it.                                          *)
LEMMA StepAt ==
    ASSUME IInv, NEW c \in Creates, OnlyAt(c), Grows(c), TypeOK',
           Local(c)', Answered(c)', \A r \in Refunds : Refunding(r)'
    PROVE  IInv'
<1>1. \A t \in Creates : status[t] # "NONE" => status'[t] # "NONE"
  BY DEF OnlyAt, Grows
<1>2. ASSUME NEW d \in Creates PROVE Local(d)'
  BY LocalFrame DEF IInv
<1>3. ASSUME NEW d \in Creates PROVE Answered(d)'
  <2>1. CASE d = c
    BY <2>1
  <2>2. CASE d # c
    <3>1. pc'[d] = pc[d] /\ answer'[d] = answer[d] /\ input' = input
      BY <2>2 DEF OnlyAt
    <3>2. answer[d] \in Creates /\ Answered(d)
      BY DEF IInv, TypeOK
    <3> QED
      BY <1>1, <3>1, <3>2 DEF Answered, MatchesIdempotentRequest
  <2> QED
    BY <2>1, <2>2
<1>4. KeyInv'
  <2> SUFFICES ASSUME NEW t \in Creates, NEW u \in Creates,
                      status'[t] # "NONE", status'[u] # "NONE",
                      input[t].key = input[u].key, input[t].key # NoKey
               PROVE  t = u
    BY DEF OnlyAt, KeyInv
  <2>1. CASE status[c] = "NONE" /\ status'[c] # "NONE"
    BY <2>1 DEF Grows, KeyFree, ByIdempotencyKey, Rows, OnlyAt, IInv, KeyInv
  <2>2. CASE ~(status[c] = "NONE" /\ status'[c] # "NONE")
    BY <2>2 DEF OnlyAt, IInv, KeyInv
  <2> QED
    BY <2>1, <2>2
<1> QED
  BY <1>2, <1>3, <1>4 DEF IInv

(* A refund handler's part survives a step of a create handler.            *)
LEMMA RefundFrame ==
    ASSUME IInv, NEW c \in Creates, OnlyAt(c), Grows(c),
           \A r \in Refunds : pc'[r] = pc[r]
    PROVE  \A r \in Refunds : Refunding(r)'
<1> SUFFICES ASSUME NEW r \in Refunds PROVE Refunding(r)'
  OBVIOUS
<1>1. /\ pc'[r] = pc[r] /\ refund' = refund
      /\ refund[r].tx \in Creates /\ Refunding(r)
  BY DEF OnlyAt, IInv, TypeOK
<1>2. \A t \in Creates : Credited(t) => Credited(t)'
  BY DEF OnlyAt, Grows, Credited
<1> QED
  BY <1>1, <1>2 DEF Refunding

(* The two lemmas above, put together for the steps of a create handler.   *)
LEMMA CreateStep ==
    ASSUME IInv, NEW c \in Creates, OnlyAt(c), Grows(c), TypeOK',
           \A r \in Refunds : pc'[r] = pc[r], Local(c)', Answered(c)'
    PROVE  IInv'
BY StepAt, RefundFrame

(* A new outbox row counts once, for its transaction and its kind.         *)
LEMMA OutboxUpdate ==
    ASSUME TypeOK, NEW c \in Creates, NEW k \in OutboxKinds
    PROVE  /\ WithOutbox(c, k) \in [Creates -> [OutboxKinds -> Nat]]
           /\ WithOutbox(c, k)[c][k] = outbox[c][k] + 1
           /\ \A j \in OutboxKinds \ {k} : WithOutbox(c, k)[c][j] = outbox[c][j]
           /\ \A d \in Creates \ {c} : WithOutbox(c, k)[d] = outbox[d]
<1> DEFINE row == [outbox[c] EXCEPT ![k] = @ + 1]
<1>1. outbox \in [Creates -> [OutboxKinds -> Nat]]
  BY DEF TypeOK
<1>2. WithOutbox(c, k) = [outbox EXCEPT ![c] = row]
  BY <1>1 DEF WithOutbox
<1>3. row \in [OutboxKinds -> Nat] /\ row[k] = outbox[c][k] + 1
  BY <1>1
<1>4. \A j \in OutboxKinds \ {k} : row[j] = outbox[c][j]
  BY <1>1
<1> HIDE DEF row
<1> QED
  BY <1>1, <1>2, <1>3, <1>4

(* What a sequence looks like after an Append.                             *)
Appended(new, old, e) ==
    /\ Len(old) \in Nat
    /\ Len(new) = Len(old) + 1
    /\ \A i \in 1 .. Len(old) : new[i] = old[i]
    /\ new[Len(old) + 1] = e

(* A new audit event is the last of its transaction's trail.               *)
LEMMA EventUpdate ==
    ASSUME TypeOK, NEW c \in Creates, NEW from \in Status \cup {"NONE"},
           NEW to \in Status
    PROVE  /\ WithEvent(c, from, to) \in
                 [Creates -> Seq((Status \cup {"NONE"}) \X Status)]
           /\ Appended(WithEvent(c, from, to)[c], events[c], <<from, to>>)
           /\ \A d \in Creates \ {c} : WithEvent(c, from, to)[d] = events[d]
<1> DEFINE trail == Append(events[c], <<from, to>>)
<1>1. events[c] \in Seq((Status \cup {"NONE"}) \X Status)
  BY DEF TypeOK
<1>2. <<from, to>> \in (Status \cup {"NONE"}) \X Status
  OBVIOUS
<1>3. /\ trail \in Seq((Status \cup {"NONE"}) \X Status)
      /\ Appended(trail, events[c], <<from, to>>)
  BY <1>1, <1>2, AppendProperties DEF Appended
<1>4. WithEvent(c, from, to) = [events EXCEPT ![c] = trail]
  BY DEF TypeOK, WithEvent
<1> HIDE DEF trail
<1> QED
  BY <1>3, <1>4 DEF TypeOK

-----------------------------------------------------------------------------
(* Every step of a create handler preserves the invariant.                 *)

(* A lookup that replays, refuses or lets the request go on.               *)
LEMMA IdempotencyCheckStep ==
    ASSUME IInv, NEW c \in Creates, IdempotencyCheck(c) PROVE IInv'
<1> USE HandlersAssumption
<1>1. PICK s \in {"error", "validate", "replied"}, t \in Creates :
        /\ pc[c] = "check" /\ pc' = [pc EXCEPT ![c] = s]
        /\ answer' = [answer EXCEPT ![c] = t]
        /\ t # c => s = "replied"
        /\ s = "replied" => t \in ByIdempotencyKey(c) /\ MatchesIdempotentRequest(t, c)
        /\ UNCHANGED <<input, refund, status, balance, events, outbox, charges,
                       mem, target, attempts, canceled>>
  <2>1. pc[c] = "check" /\ answer = [answer EXCEPT ![c] = c]
    BY DEF IInv, TypeOK, IdempotencyCheck, Local, Memory
  <2> QED
    BY <2>1 DEF IdempotencyCheck, Goto, requestVars, dbVars, ByIdempotencyKey, Rows
<1>2. TypeOK /\ Local(c) /\ Answered(c)
  BY DEF IInv
<1>4. TypeOK'
  BY <1>1, <1>2
  DEF TypeOK, Handlers, Ended, CreateSteps
<1>5. OnlyAt(c) /\ \A r \in Refunds : pc'[r] = pc[r]
  BY <1>1, <1>2 DEF OnlyAt, TypeOK, Handlers
<1>6. /\ pc'[c] = s /\ answer'[c] = t
      /\ UNCHANGED <<input, mem, target, attempts, status, events, outbox, charges>>
  BY <1>1, <1>2 DEF TypeOK, Handlers
<1>7. Local(c)'
  BY <1>1, <1>2, <1>6, LimitsAssumption
  DEF Local, Memory, Attempts, Row, Announced, Trail, Credited,
        Ended, BeforeRow, InFlight
<1>8. Grows(c) /\ Answered(c)'
  BY <1>1, <1>2, <1>6, <1>5 DEF Grows, Answered, Local, Memory, Row, Credited, OnlyAt,
        MatchesIdempotentRequest, ByIdempotencyKey, Rows, BeforeRow, Ended, InFlight
<1> QED
  BY <1>4, <1>5, <1>7, <1>8, CreateStep

(* The checks on the merchant and the request.                             *)
LEMMA ValidateStep ==
    ASSUME IInv, NEW c \in Creates, Validate(c) PROVE IInv'
<1> USE HandlersAssumption
<1>1. PICK s \in {"error", "persist"} :
        /\ pc[c] = "validate" /\ pc' = [pc EXCEPT ![c] = s]
        /\ s = "persist" => input[c].amount > 0
        /\ UNCHANGED <<input, refund, status, balance, events, outbox, charges,
                       mem, target, attempts, answer, canceled>>
  BY DEF Validate, Goto, ValidRequest, requestVars, dbVars, taskVars
<1>2. TypeOK /\ Local(c) /\ Answered(c)
  BY DEF IInv
<1>4. TypeOK'
  BY <1>1, <1>2
  DEF TypeOK, Handlers, Ended, CreateSteps
<1>5. OnlyAt(c) /\ \A r \in Refunds : pc'[r] = pc[r]
  BY <1>1, <1>2 DEF OnlyAt, TypeOK, Handlers
<1>6. /\ pc'[c] = s
      /\ UNCHANGED <<input, mem, target, attempts, answer, status, events, outbox, charges>>
  BY <1>1, <1>2 DEF TypeOK, Handlers
<1>7. Local(c)'
  BY <1>1, <1>2, <1>6, LimitsAssumption
  DEF Local, Memory, Attempts, Row, Announced, Trail, Credited,
        Ended, BeforeRow, InFlight
<1>8. Grows(c) /\ Answered(c)'
  BY <1>1, <1>2, <1>6, <1>5 DEF Grows, Answered, Local, Memory, Row, Credited, OnlyAt,
        MatchesIdempotentRequest, ByIdempotencyKey, Rows, BeforeRow, Ended, InFlight
<1> QED
  BY <1>4, <1>5, <1>7, <1>8, CreateStep

(* The row, its event and its outbox row, unless the key is taken.         *)
LEMMA PersistStep ==
    ASSUME IInv, NEW c \in Creates, Persist(c) PROVE IInv'
<1> USE HandlersAssumption
<1>1. PICK o \in {"ok", "lost", "failed"} :
        /\ pc[c] = "persist"
        /\ pc' = [pc EXCEPT ![c] = IF o = "ok" THEN "setStatus" ELSE "error"]
        /\ o # "failed" =>
              /\ KeyFree(c)
              /\ status' = [status EXCEPT ![c] = "PENDING"]
              /\ events' = WithEvent(c, "NONE", "PENDING")
              /\ outbox' = WithOutbox(c, "created")
        /\ o = "failed" => UNCHANGED <<status, events, outbox>>
        /\ UNCHANGED <<input, refund, balance, charges, mem, target, attempts,
                       answer, canceled>>
  BY DEF Persist, Goto, Outcomes, Applied, AfterPersist, requestVars, taskVars
<1>2. TypeOK /\ Local(c) /\ Answered(c)
  BY DEF IInv
<1>3. /\ WithEvent(c, "NONE", "PENDING") \in
            [Creates -> Seq((Status \cup {"NONE"}) \X Status)]
      /\ Appended(WithEvent(c, "NONE", "PENDING")[c], events[c], <<"NONE", "PENDING">>)
      /\ \A d \in Creates \ {c} : WithEvent(c, "NONE", "PENDING")[d] = events[d]
  <2>1. "NONE" \in Status \cup {"NONE"} /\ "PENDING" \in Status
    BY <1>2 DEF Status, TypeOK
  <2> QED
    BY <1>2, <2>1, EventUpdate
<1>4. /\ WithOutbox(c, "created") \in [Creates -> [OutboxKinds -> Nat]]
      /\ WithOutbox(c, "created")[c]["created"] = outbox[c]["created"] + 1
      /\ \A j \in OutboxKinds \ {"created"} :
            WithOutbox(c, "created")[c][j] = outbox[c][j]
      /\ \A d \in Creates \ {c} : WithOutbox(c, "created")[d] = outbox[d]
  <2>1. "created" \in OutboxKinds
    BY DEF OutboxKinds
  <2> QED
    BY <1>2, <2>1, OutboxUpdate
<1>5. TypeOK'
  BY <1>1, <1>2, <1>3, <1>4 DEF TypeOK, Handlers, Ended, CreateSteps, Status
<1>6. OnlyAt(c) /\ \A r \in Refunds : pc'[r] = pc[r]
  BY <1>1, <1>2, <1>3, <1>4 DEF OnlyAt, TypeOK, Handlers
<1>7. /\ pc'[c] = IF o = "ok" THEN "setStatus" ELSE "error"
      /\ status'[c] = IF o = "failed" THEN status[c] ELSE "PENDING"
      /\ IF o = "failed" THEN events'[c] = events[c]
         ELSE Appended(events'[c], events[c], Created)
      /\ \A k \in OutboxKinds \ {"created"} : outbox'[c][k] = outbox[c][k]
      /\ UNCHANGED <<input, mem, target, attempts, answer, charges>>
  <2>1. charges[c] \in 0 .. MaxAttempts
    BY <1>2 DEF TypeOK
  <2>2. /\ pc'[c] = IF o = "ok" THEN "setStatus" ELSE "error"
        /\ status'[c] = IF o = "failed" THEN status[c] ELSE "PENDING"
    BY <1>1, <1>2 DEF TypeOK, Handlers
  <2>3. CASE o = "failed"
    BY <1>1, <2>2, <2>3
  <2>4. CASE o # "failed"
    BY <1>1, <1>3, <1>4, <2>2, <2>4 DEF Created
  <2> QED
    BY <2>3, <2>4
<1>8. Local(c)'
  <2>1. Memory(c)'
    BY <1>1, <1>2, <1>7 DEF Local, Memory, Ended, BeforeRow, InFlight
  <2>2. Attempts(c)'
    BY <1>1, <1>2, <1>7 DEF Local, Attempts, Memory, BeforeRow
  <2>3. Row(c)'
    BY <1>1, <1>2, <1>7 DEF Local, Row, Credited, Ended, BeforeRow, InFlight
  <2>4. Announced(c)'
    BY <1>1, <1>2, <1>7
    DEF Local, Announced, Row, Credited, OutboxKinds, InFlight, BeforeRow
  <2>5. Trail(c)'
    <3>1. Len(events[c]) = 0 /\ ~Credited(c)' /\ pc'[c] \in {"setStatus", "error"}
      BY <1>1, <1>2, <1>7 DEF Local, Trail, Row, Credited, BeforeRow
    <3>2. pc'[c] = "setStatus" => Len(events'[c]) = 1 /\ events'[c][1] = Created
      BY <1>7, <3>1 DEF Appended
    <3> QED
      BY <3>1, <3>2 DEF Trail, BeforeRow
  <2> QED
    BY <2>1, <2>2, <2>3, <2>4, <2>5 DEF Local
<1>9. Grows(c) /\ Answered(c)'
  BY <1>1, <1>2, <1>7 DEF Grows, Answered, Local, Memory, Row, Credited,
     BeforeRow, Ended, InFlight
<1> QED
  BY <1>5, <1>6, <1>8, <1>9, CreateStep

(* The status of the row is overwritten, before anything is recorded.      *)
LEMMA SetStatusStep ==
    ASSUME IInv, NEW c \in Creates, SetStatus(c) PROVE IInv'
<1> USE HandlersAssumption
<1>1. PICK o \in {"ok", "lost", "failed"} :
        /\ pc[c] = "setStatus"
        /\ pc' = [pc EXCEPT ![c] = IF o = "ok" THEN "audit" ELSE "error"]
        /\ status' = IF o = "failed" THEN status ELSE [status EXCEPT ![c] = target[c]]
        /\ UNCHANGED <<input, refund, balance, events, outbox, charges, mem, target,
                       attempts, answer, canceled>>
  BY DEF SetStatus, Goto, Outcomes, Applied, requestVars, taskVars
<1>2. TypeOK /\ Local(c) /\ Answered(c)
  BY DEF IInv
<1>4. TypeOK'
  BY <1>1, <1>2
  DEF TypeOK, Handlers, Ended, CreateSteps, Status
<1>5. OnlyAt(c) /\ \A r \in Refunds : pc'[r] = pc[r]
  BY <1>1, <1>2 DEF OnlyAt, TypeOK, Handlers
<1>6. /\ pc'[c] = IF o = "ok" THEN "audit" ELSE "error"
      /\ status'[c] = IF o = "failed" THEN status[c] ELSE target[c]
      /\ target[c] \in {"PROCESSING", "FAILED"}
      /\ UNCHANGED <<input, mem, target, attempts, answer, events, outbox, charges>>
  BY <1>1, <1>2 DEF TypeOK, Handlers
<1>7. Local(c)'
  BY <1>1, <1>2, <1>6, LimitsAssumption
  DEF Local, Memory, Attempts, Row, Announced, Trail, Credited,
        Ended, BeforeRow, InFlight
<1>8. Grows(c) /\ Answered(c)'
  BY <1>1, <1>2, <1>6, <1>5 DEF Grows, Answered, Local, Memory, Row, Credited, OnlyAt,
        MatchesIdempotentRequest, ByIdempotencyKey, Rows, BeforeRow, Ended, InFlight
<1> QED
  BY <1>4, <1>5, <1>7, <1>8, CreateStep

(* The audit event of the transition.                                      *)
LEMMA RecordEventStep ==
    ASSUME IInv, NEW c \in Creates, RecordEvent(c) PROVE IInv'
<1> USE HandlersAssumption
<1>1. PICK o \in {"ok", "lost", "failed"} :
        /\ pc[c] = "audit"
        /\ pc' = [pc EXCEPT ![c] = IF o # "ok" THEN "undo"
                     ELSE IF target[c] = "FAILED" THEN "emit" ELSE "bank"]
        /\ events' = IF o = "failed" THEN events
                     ELSE WithEvent(c, mem[c], target[c])
        /\ mem' = IF o = "ok" /\ target[c] = "PROCESSING"
                  THEN [mem EXCEPT ![c] = target[c]] ELSE mem
        /\ UNCHANGED <<input, refund, status, balance, outbox, charges, target,
                       attempts, answer, canceled>>
  BY DEF RecordEvent, Goto, Outcomes, Applied, EventRecorded, requestVars
<1>2. TypeOK /\ Local(c) /\ Answered(c)
  BY DEF IInv
<1>3. /\ WithEvent(c, mem[c], target[c]) \in
            [Creates -> Seq((Status \cup {"NONE"}) \X Status)]
      /\ Appended(WithEvent(c, mem[c], target[c])[c], events[c], <<mem[c], target[c]>>)
      /\ \A d \in Creates \ {c} : WithEvent(c, mem[c], target[c])[d] = events[d]
  <2>1. mem[c] \in Status \cup {"NONE"} /\ target[c] \in Status
    BY <1>2 DEF Status, TypeOK
  <2> QED
    BY <1>2, <2>1, EventUpdate
<1>5. TypeOK'
  BY <1>1, <1>2, <1>3 DEF TypeOK, Handlers, Ended, CreateSteps, Status
<1>6. OnlyAt(c) /\ \A r \in Refunds : pc'[r] = pc[r]
  BY <1>1, <1>2, <1>3 DEF OnlyAt, TypeOK, Handlers
<1>7. /\ pc'[c] = IF o # "ok" THEN "undo"
                   ELSE IF target[c] = "FAILED" THEN "emit" ELSE "bank"
      /\ mem'[c] = IF o = "ok" /\ target[c] = "PROCESSING" THEN target[c] ELSE mem[c]
      /\ IF o = "failed" THEN events'[c] = events[c]
         ELSE Appended(events'[c], events[c], <<mem[c], target[c]>>)
      /\ target[c] \in {"PROCESSING", "FAILED"}
      /\ UNCHANGED <<input, status, outbox, target, attempts, answer, charges>>
  BY <1>1, <1>2, <1>3 DEF TypeOK, Handlers
<1>8. Local(c)'
  <2>1. Memory(c)'
    BY <1>1, <1>2, <1>7 DEF Local, Memory, Ended, BeforeRow, InFlight
  <2>2. Attempts(c)'
    BY <1>1, <1>2, <1>7, LimitsAssumption DEF Local, Attempts, Memory, BeforeRow
  <2>3. Row(c)'
    BY <1>1, <1>2, <1>7 DEF Local, Row, Credited, Ended, BeforeRow, InFlight
  <2>4. Announced(c)'
    BY <1>1, <1>2, <1>7
    DEF Local, Announced, Row, Credited, OutboxKinds, InFlight, BeforeRow
  <2>5. Trail(c)'
    <3>1. ~Credited(c)' /\ pc'[c] \in {"undo", "emit", "bank"}
      BY <1>1, <1>2, <1>7 DEF Local, Row, Credited, InFlight
    <3>2. ASSUME pc'[c] = "bank"
          PROVE  Len(events'[c]) = 2 /\ events'[c][1] = Created /\ events'[c][2] = Started
      <4>1. target[c] = "PROCESSING" /\ mem[c] = "PENDING" /\ o = "ok"
        BY <1>1, <1>2, <1>7, <3>2 DEF Local, Memory
      <4>2. Len(events[c]) = 1 /\ events[c][1] = Created
        BY <1>1, <1>2, <4>1 DEF Local, Trail
      <4> QED
        BY <1>7, <4>1, <4>2 DEF Appended, Started
    <3> QED
      BY <3>1, <3>2 DEF Trail, BeforeRow
  <2> QED
    BY <2>1, <2>2, <2>3, <2>4, <2>5 DEF Local
<1>9. Grows(c) /\ Answered(c)'
  BY <1>1, <1>2, <1>7 DEF Grows, Answered, Local, Memory, Row, Credited,
     BeforeRow, Ended, InFlight
<1> QED
  BY <1>5, <1>6, <1>8, <1>9, CreateStep

(* The outbox row that announces the failure.                              *)
LEMMA EmitOutboxStep ==
    ASSUME IInv, NEW c \in Creates, EmitOutbox(c) PROVE IInv'
<1> USE HandlersAssumption
<1>1. PICK o \in {"ok", "lost", "failed"} :
        /\ pc[c] = "emit"
        /\ pc' = [pc EXCEPT ![c] = IF o = "ok" THEN "error" ELSE "undo"]
        /\ outbox' = IF o = "failed" THEN outbox
                     ELSE WithOutbox(c, "failed")
        /\ mem' = IF o = "ok" THEN [mem EXCEPT ![c] = target[c]] ELSE mem
        /\ UNCHANGED <<input, refund, status, balance, events, charges, target,
                       attempts, answer, canceled>>
  BY DEF EmitOutbox, Goto, Outcomes, Applied, requestVars
<1>2. TypeOK /\ Local(c) /\ Answered(c)
  BY DEF IInv
<1>3. /\ WithOutbox(c, "failed") \in [Creates -> [OutboxKinds -> Nat]]
      /\ WithOutbox(c, "failed")[c]["failed"] = outbox[c]["failed"] + 1
      /\ \A j \in OutboxKinds \ {"failed"} :
            WithOutbox(c, "failed")[c][j] = outbox[c][j]
      /\ \A d \in Creates \ {c} : WithOutbox(c, "failed")[d] = outbox[d]
  BY <1>2, OutboxUpdate DEF TypeOK, Status, OutboxKinds
<1>4. TypeOK'
  BY <1>1, <1>2, <1>3
  DEF TypeOK, Handlers, Ended, CreateSteps, Status, OutboxKinds
<1>5. OnlyAt(c) /\ \A r \in Refunds : pc'[r] = pc[r]
  BY <1>1, <1>2, <1>3 DEF OnlyAt, TypeOK, Handlers
<1>6. /\ pc'[c] = IF o = "ok" THEN "error" ELSE "undo"
      /\ mem'[c] = IF o = "ok" THEN target[c] ELSE mem[c]
      /\ \A k \in OutboxKinds \ {"failed"} : outbox'[c][k] = outbox[c][k]
      /\ UNCHANGED <<input, target, attempts, answer, status, events, charges>>
  BY <1>1, <1>2, <1>3 DEF TypeOK, Handlers, OutboxKinds
<1>7. Local(c)'
  BY <1>1, <1>2, <1>6, LimitsAssumption
  DEF Local, Memory, Attempts, Row, Announced, Trail, Credited,
        Ended, BeforeRow, InFlight, OutboxKinds
<1>8. Grows(c) /\ Answered(c)'
  BY <1>1, <1>2, <1>6, <1>5 DEF Grows, Answered, Local, Memory, Row, Credited, OnlyAt,
        MatchesIdempotentRequest, ByIdempotencyKey, Rows, BeforeRow, Ended, InFlight
<1> QED
  BY <1>4, <1>5, <1>7, <1>8, CreateStep

(* The previous status is written back.                                    *)
LEMMA RollbackTransitionStep ==
    ASSUME IInv, NEW c \in Creates, RollbackTransition(c) PROVE IInv'
<1> USE HandlersAssumption
<1>1. PICK o \in {"ok", "lost", "failed"} :
        /\ pc[c] = "undo"
        /\ pc' = [pc EXCEPT ![c] = "error"]
        /\ status' = IF o = "failed" THEN status ELSE [status EXCEPT ![c] = mem[c]]
        /\ UNCHANGED <<input, refund, balance, events, outbox, charges, mem, target,
                       attempts, answer, canceled>>
  BY DEF RollbackTransition, Goto, Outcomes, Applied, requestVars, taskVars
<1>2. TypeOK /\ Local(c) /\ Answered(c)
  BY DEF IInv
<1>4. TypeOK'
  BY <1>1, <1>2
  DEF TypeOK, Handlers, Ended, CreateSteps, Status
<1>5. OnlyAt(c) /\ \A r \in Refunds : pc'[r] = pc[r]
  BY <1>1, <1>2 DEF OnlyAt, TypeOK, Handlers
<1>6. /\ pc'[c] = "error"
      /\ status'[c] = IF o = "failed" THEN status[c] ELSE mem[c]
      /\ UNCHANGED <<input, mem, target, attempts, answer, events, outbox, charges>>
  BY <1>1, <1>2 DEF TypeOK, Handlers
<1>7. Local(c)'
  <2>1. Memory(c)'
    BY <1>1, <1>2, <1>6 DEF Local, Memory, Ended, BeforeRow, InFlight
  <2>2. Attempts(c)'
    BY <1>1, <1>2, <1>6 DEF Local, Attempts, BeforeRow
  <2>3. charges[c] \in Nat /\ attempts[c] \in Nat
    BY <1>2 DEF TypeOK
  <2>4. charges[c] > 0 => mem[c] = "PROCESSING"
    BY <1>1, <1>2, <2>3 DEF Local, Memory, Attempts
  <2>5. mem[c] \in {"PENDING", "PROCESSING"} /\ ~Credited(c)
    BY <1>1, <1>2 DEF Local, Memory, Row, Ended
  <2>6. Row(c)'
    BY <1>1, <1>2, <1>6, <2>4, <2>5
    DEF Local, Row, Credited, Ended, BeforeRow, InFlight
  <2>7. ~Credited(c)'
    BY <1>6, <2>5 DEF Credited
  <2>8. Announced(c)'
    BY <1>1, <1>2, <1>6, <2>5, <2>7 DEF Local, Announced
  <2>9. Trail(c)'
    BY <1>6, <2>7 DEF Trail, BeforeRow
  <2> QED
    BY <2>1, <2>2, <2>6, <2>8, <2>9 DEF Local
<1>8. Grows(c) /\ Answered(c)'
  BY <1>1, <1>2, <1>6, <1>5 DEF Grows, Answered, Local, Memory, Row, Credited, OnlyAt,
        MatchesIdempotentRequest, ByIdempotencyKey, Rows, BeforeRow, Ended, InFlight
<1> QED
  BY <1>4, <1>5, <1>7, <1>8, CreateStep

(* One call of the bank.                                                   *)
LEMMA ChargeStep ==
    ASSUME IInv, NEW c \in Creates, Charge(c) PROVE IInv'
<1> USE HandlersAssumption
<1>1. PICK n \in {0, 1}, s \in {"complete", "bank", "setStatus"} :
        /\ pc[c] = "bank"
        /\ pc' = [pc EXCEPT ![c] = s]
        /\ charges' = [charges EXCEPT ![c] = @ + n]
        /\ attempts' = [attempts EXCEPT ![c] = @ + 1]
        /\ s = "complete" => n = 1
        /\ s = "bank" => attempts[c] + 1 < MaxAttempts
        /\ target' = IF s = "setStatus" THEN [target EXCEPT ![c] = "FAILED"] ELSE target
        /\ UNCHANGED <<input, refund, status, balance, events, outbox, mem, answer,
                       canceled>>
  <2>1. PICK q \in ChargeResults :
          /\ pc[c] = "bank"
          /\ charges' = [charges EXCEPT ![c] = @ + q[2]]
          /\ attempts' = [attempts EXCEPT ![c] = @ + 1]
          /\ pc' = [pc EXCEPT ![c] = AfterCharge(q[1], attempts[c] + 1)]
          /\ target' = IF AfterCharge(q[1], attempts[c] + 1) = "setStatus"
                       THEN [target EXCEPT ![c] = "FAILED"] ELSE target
          /\ UNCHANGED <<input, refund, status, balance, events, outbox, mem,
                         answer, canceled>>
    BY DEF Charge, Goto, Fails, requestVars, dbVars
  <2>2. q[2] \in {0, 1} /\ (q[1] = "approved" => q[2] = 1)
    BY DEF ChargeResults
  <2>3. LET s == AfterCharge(q[1], attempts[c] + 1)
        IN  /\ s \in {"complete", "bank", "setStatus"}
            /\ s = "complete" => q[1] = "approved"
            /\ s = "bank" => attempts[c] + 1 < MaxAttempts
    BY DEF AfterCharge
  <2> QED
    BY <2>1, <2>2, <2>3
<1>2. TypeOK /\ Local(c) /\ Answered(c)
  BY DEF IInv
<1>4. TypeOK'
  BY <1>1, <1>2, LimitsAssumption
  DEF TypeOK, Handlers, Ended, CreateSteps, Local, Attempts
<1>5. OnlyAt(c) /\ \A r \in Refunds : pc'[r] = pc[r]
  BY <1>1, <1>2 DEF OnlyAt, TypeOK, Handlers
<1>6. /\ pc'[c] = s
      /\ charges[c] \in Nat /\ attempts[c] \in Nat
      /\ charges'[c] = charges[c] + n
      /\ attempts'[c] = attempts[c] + 1
      /\ target'[c] = IF s = "setStatus" THEN "FAILED" ELSE target[c]
      /\ UNCHANGED <<input, mem, answer, status, events, outbox>>
  BY <1>1, <1>2 DEF TypeOK, Handlers
<1>7. Local(c)'
  <2>1. Memory(c)'
    BY <1>1, <1>2, <1>6 DEF Local, Memory, Ended, BeforeRow, InFlight
  <2>2. Attempts(c)'
    BY <1>1, <1>2, <1>6 DEF Local, Attempts, BeforeRow
  <2>3. Row(c)'
    BY <1>1, <1>2, <1>6 DEF Local, Row, Credited, Ended, BeforeRow, InFlight
  <2>4. Announced(c)'
    BY <1>1, <1>2, <1>6 DEF Local, Announced, Row, Credited, InFlight
  <2>5. Trail(c)'
    BY <1>1, <1>2, <1>6 DEF Local, Trail, Row, Credited, BeforeRow, InFlight, Ended
  <2> QED
    BY <2>1, <2>2, <2>3, <2>4, <2>5 DEF Local
<1>8. Grows(c) /\ Answered(c)'
  BY <1>1, <1>2, <1>6, <1>5 DEF Grows, Answered, Local, Memory, Row, Credited, OnlyAt,
        MatchesIdempotentRequest, ByIdempotencyKey, Rows, BeforeRow, Ended, InFlight
<1> QED
  BY <1>4, <1>5, <1>7, <1>8, CreateStep

(* The bank is not called, or not called again.                            *)
LEMMA GiveUpBankStep ==
    ASSUME IInv, NEW c \in Creates, GiveUpBank(c) PROVE IInv'
<1> USE HandlersAssumption
<1>1. /\ pc[c] = "bank"
      /\ pc' = [pc EXCEPT ![c] = "setStatus"]
      /\ target' = [target EXCEPT ![c] = "FAILED"]
      /\ UNCHANGED <<input, refund, status, balance, events, outbox, charges, mem,
                     attempts, answer, canceled>>
  BY DEF GiveUpBank, Goto, Fails, requestVars, dbVars
<1>2. TypeOK /\ Local(c) /\ Answered(c)
  BY DEF IInv
<1>4. TypeOK'
  BY <1>1, <1>2
  DEF TypeOK, Handlers, Ended, CreateSteps
<1>5. OnlyAt(c) /\ \A r \in Refunds : pc'[r] = pc[r]
  BY <1>1, <1>2 DEF OnlyAt, TypeOK, Handlers
<1>6. /\ pc'[c] = "setStatus" /\ target'[c] = "FAILED"
      /\ UNCHANGED <<input, mem, attempts, answer, status, events, outbox, charges>>
  BY <1>1, <1>2 DEF TypeOK, Handlers
<1>7. Local(c)'
  BY <1>1, <1>2, <1>6, LimitsAssumption
  DEF Local, Memory, Attempts, Row, Announced, Trail, Credited,
        Ended, BeforeRow, InFlight
<1>8. Grows(c) /\ Answered(c)'
  BY <1>1, <1>2, <1>6, <1>5 DEF Grows, Answered, Local, Memory, Row, Credited, OnlyAt,
        MatchesIdempotentRequest, ByIdempotencyKey, Rows, BeforeRow, Ended, InFlight
<1> QED
  BY <1>4, <1>5, <1>7, <1>8, CreateStep

(* The credit, committed with the status, the event and the outbox row.    *)
LEMMA CompletePaymentStep ==
    ASSUME IInv, NEW c \in Creates, CompletePayment(c) PROVE IInv'
<1> USE HandlersAssumption
<1>1. PICK o \in {"ok", "lost", "failed"} :
        /\ pc[c] = "complete"
        /\ pc' = [pc EXCEPT ![c] = IF o = "ok" THEN "replied" ELSE "error"]
        /\ o # "failed" =>
              /\ status' = [status EXCEPT ![c] = "COMPLETED"]
              /\ balance' = WithBalance(input[c].merchant, input[c].amount)
              /\ events' = WithEvent(c, mem[c], "COMPLETED")
              /\ outbox' = WithOutbox(c, "completed")
        /\ o = "failed" => UNCHANGED <<status, balance, events, outbox>>
        /\ mem' = IF o = "ok" THEN [mem EXCEPT ![c] = "COMPLETED"] ELSE mem
        /\ UNCHANGED <<input, refund, charges, target, attempts, answer, canceled>>
  BY DEF CompletePayment, Goto, Outcomes, Applied, AfterCompletion, requestVars, dbVars
<1>2. TypeOK /\ Local(c) /\ Answered(c)
  BY DEF IInv
<1>3. /\ WithEvent(c, mem[c], "COMPLETED") \in
            [Creates -> Seq((Status \cup {"NONE"}) \X Status)]
      /\ Appended(WithEvent(c, mem[c], "COMPLETED")[c], events[c], <<mem[c], "COMPLETED">>)
      /\ \A d \in Creates \ {c} : WithEvent(c, mem[c], "COMPLETED")[d] = events[d]
  <2>1. mem[c] \in Status \cup {"NONE"} /\ "COMPLETED" \in Status
    BY <1>2 DEF Status, TypeOK
  <2> QED
    BY <1>2, <2>1, EventUpdate
<1>4. /\ WithOutbox(c, "completed") \in [Creates -> [OutboxKinds -> Nat]]
      /\ WithOutbox(c, "completed")[c]["completed"] = outbox[c]["completed"] + 1
      /\ \A j \in OutboxKinds \ {"completed"} :
            WithOutbox(c, "completed")[c][j] = outbox[c][j]
      /\ \A d \in Creates \ {c} : WithOutbox(c, "completed")[d] = outbox[d]
  <2>1. "completed" \in OutboxKinds
    BY DEF OutboxKinds
  <2> QED
    BY <1>2, <2>1, OutboxUpdate
<1>5. TypeOK'
  <2>1. WithBalance(input[c].merchant, input[c].amount) \in [Merchants -> Nat]
    <3>1. input[c].merchant \in Merchants /\ input[c].amount \in Int
      BY <1>2, InputsAssumption DEF TypeOK
    <3>2. input[c].amount > 0
      BY <1>1, <1>2 DEF Local, Memory, InFlight
    <3> QED
      BY <1>2, <3>1, <3>2 DEF TypeOK, WithBalance
  <2> QED
    BY <1>1, <1>2, <1>3, <1>4, <2>1
    DEF TypeOK, Handlers, Ended, CreateSteps, Status
<1>6. OnlyAt(c) /\ \A r \in Refunds : pc'[r] = pc[r]
  BY <1>1, <1>2, <1>3, <1>4 DEF OnlyAt, TypeOK, Handlers
<1>7. /\ pc'[c] = IF o = "ok" THEN "replied" ELSE "error"
      /\ mem'[c] = IF o = "ok" THEN "COMPLETED" ELSE mem[c]
      /\ status'[c] = IF o = "failed" THEN status[c] ELSE "COMPLETED"
      /\ IF o = "failed" THEN events'[c] = events[c]
         ELSE Appended(events'[c], events[c], <<mem[c], "COMPLETED">>)
      /\ outbox'[c]["completed"] = IF o = "failed" THEN outbox[c]["completed"]
                                   ELSE outbox[c]["completed"] + 1
      /\ \A k \in OutboxKinds \ {"completed"} : outbox'[c][k] = outbox[c][k]
      /\ UNCHANGED <<input, charges, target, attempts, answer>>
  BY <1>1, <1>2, <1>3, <1>4 DEF TypeOK, Handlers
<1>8. Local(c)'
  <2>1. Memory(c)'
    BY <1>1, <1>2, <1>7 DEF Local, Memory, Ended, BeforeRow, InFlight
  <2>2. Attempts(c)'
    BY <1>1, <1>2, <1>7 DEF Local, Attempts, Memory, BeforeRow
  <2>3. Row(c)'
    BY <1>1, <1>2, <1>7 DEF Local, Row, Credited, Ended, BeforeRow, InFlight
  <2>4. Announced(c)'
    BY <1>1, <1>2, <1>7
    DEF Local, Announced, Row, Credited, OutboxKinds, InFlight, BeforeRow
  <2>5. Trail(c)'
    <3>1. /\ ~Credited(c) /\ pc'[c] \in {"replied", "error"}
          /\ Len(events[c]) = 2 /\ mem[c] = "PROCESSING"
          /\ events[c][1] = Created /\ events[c][2] = Started
          /\ outbox'[c]["refunded"] = 0
      BY <1>1, <1>2, <1>7
      DEF Local, Row, Trail, Memory, Announced, Credited, InFlight, OutboxKinds
    <3>2. CASE o = "failed"
      BY <1>7, <3>1, <3>2 DEF Trail, Credited, BeforeRow
    <3>3. CASE o # "failed"
      <4>1. /\ Len(events'[c]) = 3 /\ events'[c][1] = Created
            /\ events'[c][2] = Started /\ events'[c][3] = Completed
        BY <1>7, <3>1, <3>3 DEF Appended, Completed
      <4> QED
        BY <3>1, <4>1 DEF Trail, BeforeRow
    <3> QED
      BY <3>2, <3>3
  <2> QED
    BY <2>1, <2>2, <2>3, <2>4, <2>5 DEF Local
<1>9. Grows(c) /\ Answered(c)'
  BY <1>1, <1>2, <1>7 DEF Grows, Answered, Local, Memory, Row, Credited,
     BeforeRow, Ended, InFlight
<1> QED
  BY <1>5, <1>6, <1>8, <1>9, CreateStep

-----------------------------------------------------------------------------
(* The steps of a refund handler preserve the invariant.                   *)

(* The check of a refund changes no row, and is passed only for a          *)
(* COMPLETED transaction.                                                  *)
LEMMA LoadOwnedStep ==
    ASSUME IInv, NEW r \in Refunds, LoadOwned(r) PROVE IInv'
<1> USE HandlersAssumption
<1>0. PICK t \in Creates : t = refund[r].tx
  BY DEF IInv, TypeOK
<1>1. PICK s \in {"error", "refund"} :
        /\ pc[r] = "load" /\ pc' = [pc EXCEPT ![r] = s]
        /\ s = "refund" => status[t] = "COMPLETED"
        /\ UNCHANGED <<input, refund, status, balance, events, outbox, charges,
                       mem, target, attempts, answer, canceled>>
  BY <1>0 DEF LoadOwned, Goto, CanTransition, ValidTransitions, requestVars, dbVars, taskVars
<1>2. TypeOK /\ Local(t) /\ Answered(t)
  BY DEF IInv
<1>3. TypeOK'
  BY <1>1, <1>2 DEF TypeOK, Handlers, Ended, RefundSteps
<1>4. OnlyAt(t) /\ OnlyAt(r) /\ pc'[t] = pc[t]
  BY <1>1, <1>2 DEF OnlyAt, TypeOK, Handlers
<1>5. Local(t)'
  BY <1>2, <1>4, LocalFrame
<1>6. Grows(t) /\ Answered(t)'
  BY <1>1, <1>2, <1>4 DEF Grows, Answered, Credited, MatchesIdempotentRequest
<1>7. ASSUME NEW q \in Refunds PROVE Refunding(q)'
  <2>1. Refunding(q)
    BY DEF IInv
  <2>2. pc'[q] = IF q = r THEN s ELSE pc[q]
    BY <1>1, <1>2 DEF TypeOK, Handlers
  <2> QED
    BY <1>0, <1>1, <2>1, <2>2 DEF Refunding, Credited, Ended, RefundSteps
<1> QED
  BY <1>3, <1>4, <1>5, <1>6, <1>7, StepAt

(* The refund itself works on a credited row, whatever happened to the row *)
(* since it was checked.                                                   *)
LEMMA RefundInDBTransactionStep ==
    ASSUME IInv, NEW r \in Refunds, RefundInDBTransaction(r) PROVE IInv'
<1> USE HandlersAssumption
<1>0. PICK t \in Creates : t = refund[r].tx
  BY DEF IInv, TypeOK
<1> DEFINE m == input[t].merchant
           a == input[t].amount
<1>1. PICK o \in {"ok", "lost", "failed"} :
        /\ pc[r] = "refund"
        /\ pc' = [pc EXCEPT ![r] = IF o = "ok" THEN "replied" ELSE "error"]
        /\ o # "failed" =>
              /\ balance[m] + (-a) >= 0
              /\ status' = [status EXCEPT ![t] = "REFUNDED"]
              /\ balance' = WithBalance(m, -a)
              /\ events' = WithEvent(t, "COMPLETED", "REFUNDED")
              /\ outbox' = WithOutbox(t, "refunded")
        /\ o = "failed" => UNCHANGED <<status, balance, events, outbox>>
        /\ UNCHANGED <<input, refund, charges, mem, target, attempts, answer, canceled>>
  BY <1>0 DEF RefundInDBTransaction, Goto, Outcomes, Applied, SufficientFunds,
     requestVars, dbVars, taskVars
<1>2. TypeOK /\ Local(t) /\ Answered(t)
  BY DEF IInv
<1>3. Credited(t) /\ pc[t] \in Ended
  BY <1>0, <1>1, <1>2 DEF IInv, Refunding, Local, Row
<1>4. /\ WithEvent(t, "COMPLETED", "REFUNDED") \in
            [Creates -> Seq((Status \cup {"NONE"}) \X Status)]
      /\ Appended(WithEvent(t, "COMPLETED", "REFUNDED")[t], events[t], Refunded)
      /\ \A d \in Creates \ {t} : WithEvent(t, "COMPLETED", "REFUNDED")[d] = events[d]
  <2>1. "COMPLETED" \in Status \cup {"NONE"} /\ "REFUNDED" \in Status
    BY DEF Status
  <2> QED
    BY <1>2, <2>1, EventUpdate DEF Refunded
<1>5. /\ WithOutbox(t, "refunded") \in [Creates -> [OutboxKinds -> Nat]]
      /\ WithOutbox(t, "refunded")[t]["refunded"] = outbox[t]["refunded"] + 1
      /\ \A j \in OutboxKinds \ {"refunded"} :
            WithOutbox(t, "refunded")[t][j] = outbox[t][j]
      /\ \A d \in Creates \ {t} : WithOutbox(t, "refunded")[d] = outbox[d]
  <2>1. "refunded" \in OutboxKinds
    BY DEF OutboxKinds
  <2> QED
    BY <1>2, <2>1, OutboxUpdate
<1>6. TypeOK'
  <2>1. o # "failed" => WithBalance(m, -a) \in [Merchants -> Nat]
    <3>1. m \in Merchants /\ a \in Int
      BY <1>2, InputsAssumption DEF TypeOK
    <3> QED
      BY <1>1, <1>2, <3>1 DEF TypeOK, WithBalance
  <2> QED
    BY <1>1, <1>2, <1>4, <1>5, <2>1 DEF TypeOK, Handlers, Ended, Status
<1>7. OnlyAt(t)
  <2>1. \A d \in Creates : pc'[d] = pc[d]
    BY <1>1, <1>2 DEF TypeOK, Handlers
  <2>2. CASE o = "failed"
    BY <1>1, <2>1, <2>2 DEF OnlyAt
  <2>3. CASE o # "failed"
    BY <1>1, <1>2, <1>4, <1>5, <2>1, <2>3 DEF OnlyAt, TypeOK
  <2> QED
    BY <2>2, <2>3
<1>8. /\ pc'[t] = pc[t]
      /\ status'[t] = IF o = "failed" THEN status[t] ELSE "REFUNDED"
      /\ IF o = "failed" THEN events'[t] = events[t]
         ELSE Appended(events'[t], events[t], Refunded)
      /\ outbox[t]["refunded"] \in Nat
      /\ outbox'[t]["refunded"] = IF o = "failed" THEN outbox[t]["refunded"]
                                  ELSE outbox[t]["refunded"] + 1
      /\ \A k \in OutboxKinds \ {"refunded"} : outbox'[t][k] = outbox[t][k]
      /\ UNCHANGED <<input, charges, mem, target, attempts, answer>>
  <2>1. pc'[t] = pc[t] /\ outbox[t]["refunded"] \in Nat
    BY <1>1, <1>2 DEF TypeOK, Handlers, OutboxKinds
  <2>2. CASE o = "failed"
    BY <1>1, <2>1, <2>2
  <2>3. CASE o # "failed"
    BY <1>1, <1>2, <1>4, <1>5, <2>1, <2>3 DEF TypeOK
  <2> QED
    BY <2>2, <2>3
<1>9. Local(t)'
  <2>1. Memory(t)' /\ Attempts(t)'
    BY <1>2, <1>8 DEF Local, Memory, Attempts
  <2>2. Row(t)'
    BY <1>2, <1>3, <1>8 DEF Local, Row, Credited, Ended, BeforeRow, InFlight
  <2>3. Announced(t)'
    BY <1>2, <1>3, <1>8 DEF Local, Announced, Credited, OutboxKinds
  <2>4. Trail(t)'
    <3>1. CASE o = "failed"
      BY <1>2, <1>8, <3>1 DEF Local, Trail, Credited
    <3>2. CASE o # "failed"
      <4>1. /\ pc'[t] \notin BeforeRow \cup {"setStatus", "audit", "bank", "complete"}
            /\ Appended(events'[t], events[t], Refunded)
            /\ outbox[t]["refunded"] \in Nat
            /\ outbox'[t]["refunded"] = outbox[t]["refunded"] + 1
        BY <1>3, <1>8, <3>2 DEF Ended, BeforeRow
      <4>2. /\ Len(events[t]) = 3 + outbox[t]["refunded"]
            /\ events[t][1] = Created /\ events[t][2] = Started
            /\ events[t][3] = Completed
            /\ \A i \in 4 .. Len(events[t]) : events[t][i] = Refunded
        BY <1>2, <1>3 DEF Local, Trail
      <4>3. /\ Len(events[t]) \in Nat /\ Len(events'[t]) = Len(events[t]) + 1
            /\ \A i \in 1 .. Len(events[t]) : events'[t][i] = events[t][i]
        BY <4>1 DEF Appended
      <4>4. 1 \in 1 .. Len(events[t]) /\ 2 \in 1 .. Len(events[t]) /\ 3 \in 1 .. Len(events[t])
        BY <4>1, <4>2, <4>3
      <4>5. /\ Len(events'[t]) = 3 + outbox'[t]["refunded"]
            /\ events'[t][1] = Created /\ events'[t][2] = Started
            /\ events'[t][3] = Completed
        <5>1. Len(events'[t]) = 3 + outbox'[t]["refunded"]
          BY <4>1, <4>2, <4>3
        <5> QED
          BY <4>2, <4>3, <4>4, <5>1
      <4>6. ASSUME NEW i \in 4 .. Len(events'[t]) PROVE events'[t][i] = Refunded
        <5>1. CASE i \in 4 .. Len(events[t])
          <6>1. i \in 1 .. Len(events[t])
            BY <4>3, <5>1
          <6>2. events'[t][i] = events[t][i]
            BY <4>3, <6>1
          <6>3. events[t][i] = Refunded
            BY <4>2, <5>1
          <6> QED
            BY <6>2, <6>3
        <5>2. CASE i = Len(events[t]) + 1
          BY <4>1, <5>2 DEF Appended
        <5> QED
          BY <4>1, <5>1, <5>2 DEF Appended
      <4> QED
        BY <4>1, <4>5, <4>6 DEF Trail
    <3> QED
      BY <3>1, <3>2
  <2> QED
    BY <2>1, <2>2, <2>3, <2>4 DEF Local
<1>10. Grows(t)
  BY <1>3, <1>8 DEF Grows, Credited
<1>11. Answered(t)'
  <2>1. \A d \in Creates : status[d] # "NONE" => status'[d] # "NONE"
    BY <1>7, <1>10 DEF OnlyAt, Grows
  <2>2. answer[t] \in Creates
    BY <1>2 DEF TypeOK
  <2> QED
    BY <1>2, <1>8, <2>1, <2>2 DEF Answered, MatchesIdempotentRequest
<1>12. ASSUME NEW q \in Refunds PROVE Refunding(q)'
  <2>1. Refunding(q) /\ refund[q].tx \in Creates /\ refund' = refund
    BY <1>1, <1>2 DEF IInv, TypeOK
  <2>2. pc'[q] = IF q = r THEN IF o = "ok" THEN "replied" ELSE "error" ELSE pc[q]
    BY <1>1, <1>2 DEF TypeOK, Handlers
  <2>3. \A d \in Creates : Credited(d) => Credited(d)'
    BY <1>7, <1>10 DEF OnlyAt, Grows, Credited
  <2> QED
    BY <2>1, <2>2, <2>3 DEF Refunding, Ended
<1> QED
  BY <1>6, <1>7, <1>9, <1>10, <1>11, <1>12, StepAt

-----------------------------------------------------------------------------
(* The steps of the environment preserve the invariant.                    *)

(* A handler that dies leaves its row behind as it is.                     *)
LEMMA CrashStep ==
    ASSUME IInv, NEW h \in Handlers, Crash(h) PROVE IInv'
<1> USE HandlersAssumption
<1>1. /\ pc[h] \notin Ended /\ pc' = [pc EXCEPT ![h] = "crashed"]
      /\ UNCHANGED <<input, refund, status, balance, events, outbox, charges,
                     mem, target, attempts, answer, canceled>>
  BY DEF Crash, Goto, requestVars, dbVars, taskVars
<1>2. TypeOK' /\ TypeOK
  BY <1>1 DEF IInv, TypeOK, Handlers, Ended
<1>3. CASE h \in Creates
  <2>1. Local(h) /\ pc'[h] = "crashed"
    BY <1>1, <1>2, <1>3 DEF IInv, TypeOK
  <2>2. OnlyAt(h) /\ \A r \in Refunds : pc'[r] = pc[r]
    BY <1>1, <1>2, <1>3 DEF OnlyAt, TypeOK, Handlers
  <2>3. ~Credited(h) /\ answer[h] = h
    BY <1>1, <2>1 DEF Local, Row, Memory, Ended
  <2>4. Local(h)'
    BY <1>1, <2>1, <2>3
    DEF Local, Memory, Attempts, Row, Announced, Trail, Credited, Ended,
        BeforeRow, InFlight
  <2>5. Grows(h) /\ Answered(h)'
    BY <1>1, <2>1 DEF Grows, Credited, Answered
  <2> QED
    BY <1>2, <1>3, <2>2, <2>4, <2>5, CreateStep
<1>4. CASE h \in Refunds
  <2>0. PICK t \in Creates : t = refund[h].tx
    BY <1>4 DEF IInv, TypeOK
  <2>1. OnlyAt(t) /\ OnlyAt(h) /\ pc'[t] = pc[t]
    BY <1>1, <1>2, <1>4 DEF OnlyAt, TypeOK, Handlers
  <2>2. Local(t)'
    BY <1>4, <2>1, LocalFrame DEF IInv
  <2>3. Grows(t) /\ Answered(t)'
    BY <1>1, <2>1 DEF IInv, Grows, Answered, Credited, MatchesIdempotentRequest
  <2>4. ASSUME NEW q \in Refunds PROVE Refunding(q)'
    <3>1. Refunding(q) /\ pc'[q] \in {pc[q], "crashed"}
      BY <1>1, <1>2 DEF IInv, TypeOK, Handlers
    <3> QED
      BY <1>1, <3>1 DEF Refunding, Credited, Ended
  <2> QED
    BY <1>2, <2>1, <2>2, <2>3, <2>4, StepAt
<1> QED
  BY <1>3, <1>4 DEF Handlers

(* A step that changes nothing but the canceled requests.                  *)
LEMMA QuietStep ==
    ASSUME IInv, canceled' \subseteq Handlers,
           UNCHANGED <<requestVars, dbVars, charges, pc, taskVars>>
    PROVE  IInv'
<1>1. UNCHANGED <<input, refund, status, balance, events, outbox, charges, pc,
                 mem, target, attempts, answer>>
  BY DEF requestVars, dbVars, taskVars
<1>2. TypeOK'
  BY <1>1 DEF IInv, TypeOK
<1>3. ASSUME NEW c \in Creates PROVE Local(c)' /\ Answered(c)'
  <2>1. OnlyAt(c) /\ Local(c) /\ Answered(c)
    BY <1>1 DEF OnlyAt, IInv
  <2>2. Local(c)'
    BY <1>1, <2>1 DEF Local, Memory, Attempts, Row, Announced, Trail, Credited
  <2> QED
    BY <1>1, <2>1, <2>2 DEF Answered, MatchesIdempotentRequest
<1>4. ASSUME NEW r \in Refunds PROVE Refunding(r)'
  BY <1>1 DEF IInv, Refunding, Credited
<1>5. KeyInv'
  BY <1>1 DEF IInv, KeyInv
<1> QED
  BY <1>2, <1>3, <1>4, <1>5 DEF IInv

-----------------------------------------------------------------------------
(* The invariant is inductive: one case per action of the specification.   *)
LEMMA NextIInv == IInv /\ [Next]_vars => IInv'
<1> SUFFICES ASSUME IInv, [Next]_vars PROVE IInv'
  OBVIOUS
<1>1. ASSUME NEW c \in Creates, CreateTransaction(c) PROVE IInv'
  BY <1>1, IdempotencyCheckStep, ValidateStep, PersistStep, SetStatusStep,
     RecordEventStep, EmitOutboxStep, RollbackTransitionStep, ChargeStep,
     GiveUpBankStep, CompletePaymentStep
  DEF CreateTransaction
<1>2. ASSUME NEW r \in Refunds, RefundTransaction(r) PROVE IInv'
  BY <1>2, LoadOwnedStep, RefundInDBTransactionStep DEF RefundTransaction
<1>3. ASSUME NEW h \in Handlers, Crash(h) PROVE IInv'
  BY <1>3, CrashStep
<1>4. ASSUME NEW h \in Handlers, Cancel(h) PROVE IInv'
  <2>1. canceled' \subseteq Handlers
    BY <1>4 DEF Cancel, IInv, TypeOK
  <2> QED
    BY <1>4, <2>1, QuietStep DEF Cancel
<1>5. CASE UNCHANGED vars
  <2>1. canceled' \subseteq Handlers
    BY <1>5 DEF vars, IInv, TypeOK
  <2> QED
    BY <1>5, <2>1, QuietStep DEF vars
<1>6. CASE Terminating
  BY <1>5, <1>6 DEF Terminating
<1> QED
  BY <1>1, <1>2, <1>3, <1>4, <1>5, <1>6 DEF Next

(* So it holds in every reachable state, for any handlers, merchants,      *)
(* inputs, limits and faults.                                              *)
THEOREM Invariance == Spec => []IInv
<1>1. Init => IInv
  BY InitIInv
<1>2. IInv /\ [Next]_vars => IInv'
  BY NextIInv
<1> QED
  BY <1>1, <1>2, PTL DEF Spec

-----------------------------------------------------------------------------
(* What the invariant establishes.                                         *)

(* Every variable keeps its type: in particular no balance is negative and *)
(* the bank is called at most MaxAttempts times for a transaction.         *)
THEOREM TypeCorrect == Spec => []TypeOK
<1>1. IInv => TypeOK
  BY DEF IInv
<1> QED
  BY <1>1, Invariance, PTL

(* One idempotency key never makes the bank take money for two             *)
(* transactions, however many requests carry it.                           *)
THEOREM ChargedOncePerKey == Spec => []OneChargePerKey
<1>1. IInv => OneChargePerKey
  BY DEF IInv, OneChargePerKey, Local, Row, KeyInv
<1> QED
  BY <1>1, Invariance, PTL

(* A merchant is credited at most once for a transaction, and only after   *)
(* the bank took the money.                                                *)
THEOREM CreditSafety == Spec => []CreditedOnceAfterCharge
<1>1. IInv => CreditedOnceAfterCharge
  BY DEF IInv, CreditedOnceAfterCharge, Local, Row, Announced, Credited, Settled
<1> QED
  BY <1>1, Invariance, PTL

(* The bank has not taken money for a transaction that is missing or says  *)
(* PENDING, wherever a handler stopped.                                    *)
THEOREM MoneyIsTraced == Spec => []ChargedIsOnRecord
<1>1. IInv => ChargedIsOnRecord
  BY DEF IInv, ChargedIsOnRecord, Local, Row
<1> QED
  BY <1>1, Invariance, PTL

(* No transaction is announced both as completed and as failed.            *)
THEOREM AnnouncementsAgree == Spec => []NoContradictoryEvents
<1>1. IInv => NoContradictoryEvents
  BY DEF IInv, NoContradictoryEvents, Local, Announced
<1> QED
  BY <1>1, Invariance, PTL

(* The audit trail of a credited transaction is whole and in order.        *)
THEOREM AuditSafety == Spec => []AuditTrailWhole
<1>1. IInv => AuditTrailWhole
  <2> SUFFICES ASSUME IInv, NEW t \in Settled
               PROVE  /\ Len(events[t]) = 3 + outbox[t]["refunded"]
                      /\ events[t][1] = Created
                      /\ events[t][2] = Started
                      /\ events[t][3] = Completed
                      /\ \A i \in 4 .. Len(events[t]) : events[t][i] = Refunded
    BY DEF AuditTrailWhole, Created, Started, Completed, Refunded
  <2> QED
    BY DEF IInv, Local, Trail, Settled, Credited
<1> QED
  BY <1>1, Invariance, PTL

(* Successful answers to requests with one key agree.                      *)
THEOREM ReplaySafety == Spec => []ReplaysAgree
<1>1. IInv => ReplaysAgree
  <2> SUFFICES ASSUME IInv, NEW c \in Creates, NEW d \in Creates,
                      pc[c] = "replied", pc[d] = "replied",
                      input[c].key = input[d].key, input[c].key # NoKey
               PROVE  answer[c] = answer[d] /\ input[c] = input[d]
    BY DEF ReplaysAgree
  <2> DEFINE t == answer[c]
  <2>1. t \in Creates /\ answer[d] \in Creates
    BY DEF IInv, TypeOK
  <2>2. /\ status[t] # "NONE" /\ input[t].key = input[c].key
        /\ t # c => MatchesIdempotentRequest(t, c)
    BY DEF IInv, Answered
  <2>3. /\ status[answer[d]] # "NONE" /\ input[answer[d]].key = input[d].key
        /\ answer[d] # d => MatchesIdempotentRequest(answer[d], d)
    BY DEF IInv, Answered
  <2>4. answer[d] = t
    BY <2>1, <2>2, <2>3 DEF IInv, KeyInv
  <2>5. /\ input[c].merchant = input[d].merchant
        /\ input[c].amount = input[d].amount
        /\ input[c].currency = input[d].currency
        /\ input[c].description = input[d].description
    BY <2>2, <2>3, <2>4 DEF MatchesIdempotentRequest
  <2>6. input[c] \in Inputs /\ input[d] \in Inputs
    BY DEF IInv, TypeOK
  <2>7. input[c] = input[d]
    BY <2>5, <2>6, InputsAssumption
  <2> QED
    BY <2>4, <2>7
<1> QED
  BY <1>1, Invariance, PTL

(* Only the refund of a credited transaction follows its credit.           *)
LEMMA CreditStep ==
    ASSUME IInv, [Next]_vars, NEW t \in Creates
    PROVE  /\ status[t] = "COMPLETED" => status'[t] \in {"COMPLETED", "REFUNDED"}
           /\ status[t] = "REFUNDED" => status'[t] = "REFUNDED"
           /\ status'[t] = "REFUNDED" => Credited(t)
<1> DEFINE Goal == /\ status[t] = "COMPLETED" => status'[t] \in {"COMPLETED", "REFUNDED"}
                   /\ status[t] = "REFUNDED" => status'[t] = "REFUNDED"
                   /\ status'[t] = "REFUNDED" => Credited(t)
<1> USE DEF Credited
<1>1. ASSUME NEW c \in Creates,
             Persist(c) \/ SetStatus(c) \/ RollbackTransition(c) \/ CompletePayment(c)
      PROVE  Goal
  <2>1. Memory(c) /\ Row(c) /\ TypeOK
    BY DEF IInv, Local
  <2>2. pc[c] \in {"persist", "setStatus", "undo", "complete"}
    BY <1>1 DEF Persist, SetStatus, RollbackTransition, CompletePayment
  <2>3. ~Credited(c)
    BY <2>1, <2>2 DEF Row, Ended
  <2>4. PICK x \in {"PENDING", "PROCESSING", "FAILED", "COMPLETED"} :
           status' = status \/ status' = [status EXCEPT ![c] = x]
    <3>1. target[c] \in {"PROCESSING", "FAILED"}
      BY <2>1 DEF TypeOK
    <3>2. pc[c] = "undo" => mem[c] \in {"PENDING", "PROCESSING"}
      BY <2>1 DEF Memory
    <3>3. CASE Persist(c)
      BY <3>3 DEF Persist
    <3>4. CASE SetStatus(c)
      BY <3>1, <3>4 DEF SetStatus
    <3>5. CASE RollbackTransition(c)
      BY <3>2, <3>5 DEF RollbackTransition
    <3>6. CASE CompletePayment(c)
      BY <3>6 DEF CompletePayment, dbVars
    <3> QED
      BY <1>1, <3>3, <3>4, <3>5, <3>6
  <2> QED
    BY <2>1, <2>3, <2>4 DEF TypeOK
<1>2. ASSUME NEW r \in Refunds, RefundInDBTransaction(r) PROVE Goal
  <2>1. Credited(refund[r].tx) /\ refund[r].tx \in Creates
    BY <1>2 DEF IInv, TypeOK, Refunding, RefundInDBTransaction
  <2>2. status' = status \/ status' = [status EXCEPT ![refund[r].tx] = "REFUNDED"]
    BY <1>2 DEF RefundInDBTransaction, dbVars
  <2> QED
    BY <2>1, <2>2 DEF IInv, TypeOK
<1>3. ASSUME UNCHANGED status PROVE Goal
  BY <1>3
<1>4. ASSUME NEW c \in Creates, CreateTransaction(c) PROVE Goal
  BY <1>1, <1>3, <1>4
  DEF CreateTransaction, IdempotencyCheck, Validate, RecordEvent, EmitOutbox,
      Charge, GiveUpBank, dbVars
<1>5. ASSUME NEW r \in Refunds, RefundTransaction(r) PROVE Goal
  BY <1>2, <1>3, <1>5 DEF RefundTransaction, LoadOwned, dbVars
<1>6. ASSUME NEW h \in Handlers, Crash(h) \/ Cancel(h) PROVE Goal
  BY <1>3, <1>6 DEF Crash, Cancel, dbVars
<1>7. CASE UNCHANGED vars
  BY <1>3, <1>7 DEF vars, dbVars
<1> QED
  BY <1>4, <1>5, <1>6, <1>7 DEF Next, Terminating

(* A credited transaction is only ever refunded, and only a credited       *)
(* transaction is refunded: no rollback and no late failure touches it.    *)
THEOREM SettlementFinality == Spec => SettlementIsFinal
<1> DEFINE Final == \A t \in Creates :
                       /\ status[t] = "COMPLETED" => status'[t] \in {"COMPLETED", "REFUNDED"}
                       /\ status[t] = "REFUNDED" => status'[t] = "REFUNDED"
                       /\ status'[t] = "REFUNDED" => status[t] \in {"COMPLETED", "REFUNDED"}
<1>1. IInv /\ [Next]_vars => [Final]_vars
  BY CreditStep DEF Credited
<1> QED
  BY <1>1, Invariance, PTL DEF Spec, SettlementIsFinal

(* The handler has received the approval, or it has ended and the row is   *)
(* not FAILED.                                                             *)
Approved(t) == pc[t] = "complete" \/ (pc[t] \in Ended /\ status[t] # "FAILED")

(* What a step of one handler does to another's position and row.          *)
LEMMA ApprovedStep ==
    ASSUME IInv, [Next]_vars, NEW t \in Creates, Approved(t)
    PROVE  Approved(t)'
<1>0. /\ TypeOK /\ Row(t)
      /\ pc[t] = "complete" => status[t] = "PROCESSING"
      /\ status[t] # "FAILED"
      /\ Creates \cap Refunds = {}
  BY HandlersAssumption DEF IInv, Local, Row, Approved
<1>1. ASSUME NEW c \in Creates, CreateTransaction(c), c # t PROVE Approved(t)'
  <2>1. pc'[t] = pc[t]
    BY <1>0, <1>1
    DEF CreateTransaction, IdempotencyCheck, Validate, Persist, SetStatus, RecordEvent,
        EmitOutbox, RollbackTransition, Charge, GiveUpBank, CompletePayment, AfterCompletion,
        Goto, TypeOK, Handlers
  <2>2. status'[t] = status[t]
    BY <1>0, <1>1
    DEF CreateTransaction, IdempotencyCheck, Validate, Persist, SetStatus, RecordEvent,
        EmitOutbox, RollbackTransition, Charge, GiveUpBank, CompletePayment, dbVars,
        WithStatus, TypeOK
  <2> QED
    BY <2>1, <2>2 DEF Approved
<1>2. CASE CreateTransaction(t)
  <2>1. pc[t] = "complete" /\ CompletePayment(t)
    BY <1>2
    DEF Approved, Ended, CreateTransaction, IdempotencyCheck, Validate, Persist, SetStatus,
        RecordEvent, EmitOutbox, RollbackTransition, Charge, GiveUpBank, CompletePayment
  <2>2. pc'[t] \in {"replied", "error"}
    BY <1>0, <2>1 DEF CompletePayment, AfterCompletion, Goto, TypeOK, Handlers
  <2>3. status'[t] \in {status[t], "COMPLETED"}
    BY <1>0, <2>1 DEF CompletePayment, WithStatus, dbVars, TypeOK
  <2> QED
    BY <1>0, <2>2, <2>3 DEF Approved, Ended
<1>3. ASSUME NEW r \in Refunds, RefundTransaction(r) PROVE Approved(t)'
  <2>1. pc'[t] = pc[t]
    BY <1>0, <1>3 DEF RefundTransaction, LoadOwned, RefundInDBTransaction, Goto, TypeOK, Handlers
  <2>2. status'[t] \in {status[t], "REFUNDED"}
    BY <1>0, <1>3 DEF RefundTransaction, LoadOwned, RefundInDBTransaction, WithStatus, dbVars, TypeOK
  <2>3. pc[t] = "complete" \/ (pc[t] \in Ended /\ status'[t] # "FAILED")
    BY <1>0, <2>2 DEF Approved
  <2> QED
    BY <2>1, <2>3 DEF Approved
<1>4. ASSUME NEW h \in Handlers, Crash(h) \/ Cancel(h) PROVE Approved(t)'
  <2>1. status' = status
    BY <1>4 DEF Crash, Cancel, dbVars
  <2>2. pc'[t] \in {pc[t], "crashed"}
    BY <1>0, <1>4 DEF Crash, Cancel, Goto, TypeOK, Handlers
  <2> QED
    BY <1>0, <2>1, <2>2 DEF Approved, Ended
<1>5. CASE UNCHANGED vars
  BY <1>5 DEF vars, dbVars, taskVars, Approved
<1> QED
  BY <1>1, <1>2, <1>3, <1>4, <1>5 DEF Next, Terminating

(* An approval the handler has received is never contradicted by a FAILED  *)
(* row and never followed by another charge.                               *)
THEOREM ApprovalSafety == Spec => ApprovalStands
<1> SUFFICES ASSUME NEW t \in Creates
             PROVE  Spec => [](pc[t] = "complete" => [](status[t] # "FAILED" /\ pc[t] # "bank"))
  BY DEF ApprovalStands
<1>1. IInv /\ Approved(t) /\ [Next]_vars => Approved(t)'
  BY ApprovedStep
<1>2. IInv /\ Approved(t) => status[t] # "FAILED" /\ pc[t] # "bank"
  BY DEF IInv, Local, Row, Approved, Ended
<1>3. pc[t] = "complete" => Approved(t)
  BY DEF Approved
<1> QED
  BY <1>1, <1>2, <1>3, Invariance, PTL DEF Spec

-----------------------------------------------------------------------------
(* Induction over the natural numbers with the property as a set, and sums *)
(* over finite sets by induction over their size.                          *)

LEMMA NatSetInduction ==
    ASSUME NEW T, 0 \in T, \A n \in Nat : n \in T => n + 1 \in T
    PROVE  Nat \subseteq T
<1> DEFINE B == Nat \ T
<1> SUFFICES ASSUME B # {} PROVE FALSE
    OBVIOUS
<1>1. PICK x \in B : \A y \in B : ~(<<y, x>> \in OpToRel(<, Nat))
    <2>1. IsWellFoundedOn(OpToRel(<, Nat), Nat)
        BY NatLessThanWellFounded, Zenon
    <2>2. B \subseteq Nat /\ B # {}
        OBVIOUS
    <2> HIDE DEF B
    <2> QED
        BY <2>1, <2>2, WFMin, Zenon
<1>2. x \in Nat /\ x # 0 /\ x - 1 \in Nat /\ x - 1 < x
    OBVIOUS
<1>3. x - 1 \in B
    BY <1>2
<1>4. <<x - 1, x>> \in OpToRel(<, Nat)
    BY <1>2 DEF OpToRel
<1> QED
    BY <1>1, <1>3, <1>4

(* g adds up f over each subset of S, taking elements off as the fold does. *)
Adds(g, f, S) ==
    g = [s \in SUBSET S |-> IF s = {} THEN 0
                            ELSE LET x == CHOOSE x \in s : TRUE IN f[x] + g[s \ {x}]]

(* Where the fold takes an element off a subset of a finite set.           *)
LEMMA TakeOne ==
    ASSUME NEW S, IsFiniteSet(S), NEW s \in SUBSET S, NEW a \in s
    PROVE  /\ (CHOOSE x \in s : TRUE) \in s
           /\ s \ {a} \in SUBSET S
           /\ Cardinality(s) \in Nat /\ Cardinality(s \ {a}) \in Nat
           /\ Cardinality(s) = Cardinality(s \ {a}) + 1
<1>1. (CHOOSE x \in s : TRUE) \in s
    OBVIOUS
<1>2. IsFiniteSet(s)
    BY FS_Subset
<1>3. IsFiniteSet(s \ {a}) /\ Cardinality(s \ {a}) = Cardinality(s) - 1
    BY <1>2, FS_RemoveElement
<1>4. Cardinality(s) \in Nat /\ Cardinality(s \ {a}) \in Nat
    BY <1>2, <1>3, FS_CardinalityType
<1> QED
    BY <1>1, <1>3, <1>4

(* The recursive definition of the fold has a solution: for every n there   *)
(* is one on the subsets of n elements at most.                            *)
LEMMA AddsExists ==
    ASSUME NEW f, NEW S, IsFiniteSet(S)
    PROVE  \E g : Adds(g, f, S)
<1> DEFINE Below(n) == {s \in SUBSET S : Cardinality(s) <= n}
           Step(g, s) == IF s = {} THEN 0 ELSE f[CHOOSE x \in s : TRUE] + g[s \ {CHOOSE x \in s : TRUE}]
           T == {n \in Nat : \E g : /\ g = [s \in SUBSET S |-> g[s]]
                                    /\ \A s \in Below(n) : g[s] = Step(g, s)}
<1>1. 0 \in T
    <2> DEFINE g == [s \in SUBSET S |-> 0]
    <2>1. \A s \in Below(0) : s = {}
        <3> SUFFICES ASSUME NEW s \in Below(0), s # {} PROVE FALSE
            OBVIOUS
        <3>1. PICK a \in s : TRUE
            OBVIOUS
        <3>2. Cardinality(s \ {a}) \in Nat /\ Cardinality(s) = Cardinality(s \ {a}) + 1
            BY TakeOne
        <3> QED
            BY <3>2
    <2>2. g = [s \in SUBSET S |-> g[s]] /\ \A s \in Below(0) : g[s] = Step(g, s)
        BY <2>1
    <2> HIDE DEF g
    <2> QED
        BY <2>2
<1>2. ASSUME NEW n \in Nat, n \in T PROVE n + 1 \in T
    <2>1. PICK h : h = [s \in SUBSET S |-> h[s]] /\ \A s \in Below(n) : h[s] = Step(h, s)
        BY <1>2
    <2> DEFINE g == [s \in SUBSET S |-> IF s \in Below(n) THEN h[s] ELSE Step(h, s)]
    <2>2. ASSUME NEW s \in Below(n + 1) PROVE g[s] = Step(g, s)
        <3>1. CASE s = {}
            BY <2>1, <3>1
        <3>2. CASE s # {}
            <4> DEFINE x == CHOOSE x \in s : TRUE
            <4>1. /\ x \in s /\ s \ {x} \in SUBSET S
                  /\ Cardinality(s) \in Nat /\ Cardinality(s \ {x}) \in Nat
                  /\ Cardinality(s) = Cardinality(s \ {x}) + 1
                <5>1. x \in s
                    BY <3>2
                <5> HIDE DEF x
                <5> QED
                    BY <5>1, TakeOne
            <4>2. s \ {x} \in Below(n)
                BY <4>1
            <4>3. Step(g, s) = f[x] + g[s \ {x}] /\ Step(h, s) = f[x] + h[s \ {x}]
                BY <3>2
            <4>4. g[s \ {x}] = h[s \ {x}]
                <5> HIDE DEF x
                <5> QED
                    BY <4>1, <4>2
            <4>5. g[s] = Step(h, s)
                BY <2>1
            <4> QED
                BY <4>3, <4>4, <4>5
        <3> QED
            BY <3>1, <3>2
    <2>3. g = [s \in SUBSET S |-> g[s]]
        OBVIOUS
    <2> HIDE DEF g, Step, Below
    <2>4. \E k : k = [s \in SUBSET S |-> k[s]] /\ \A s \in Below(n + 1) : k[s] = Step(k, s)
        BY <2>2, <2>3
    <2>5. n + 1 \in Nat
        OBVIOUS
    <2> QED
        BY <2>4, <2>5, Zenon
<1>3. Nat \subseteq T
    <2> HIDE DEF T
    <2> QED
        BY <1>1, <1>2, NatSetInduction
<1>4. Cardinality(S) \in Nat /\ SUBSET S = Below(Cardinality(S))
    BY FS_CardinalityType, FS_Subset
<1>5. PICK g : g = [s \in SUBSET S |-> g[s]] /\ \A s \in SUBSET S : g[s] = Step(g, s)
    <2>1. Cardinality(S) \in T
        BY <1>3, <1>4
    <2> HIDE DEF Step, Below
    <2> QED
        BY <1>4, <2>1
<1>6. g = [s \in SUBSET S |-> Step(g, s)]
    <2> HIDE DEF Step
    <2> QED
        BY <1>5
<1> QED
    BY <1>6 DEF Adds

(* The sum is an integer.                                                  *)
LEMMA AddsInt ==
    ASSUME NEW f, NEW S, IsFiniteSet(S), \A x \in S : f[x] \in Int, NEW g, Adds(g, f, S)
    PROVE  \A s \in SUBSET S : g[s] \in Int
<1> DEFINE T == {n \in Nat : \A s \in SUBSET S : Cardinality(s) = n => g[s] \in Int}
<1>1. ASSUME NEW s \in SUBSET S, s = {} PROVE g[s] \in Int
    BY <1>1 DEF Adds
<1>2. ASSUME NEW s \in SUBSET S, s # {}
      PROVE  \E x \in s : g[s] = f[x] + g[s \ {x}]
    BY <1>2 DEF Adds
<1>3. 0 \in T
    <2> SUFFICES ASSUME NEW s \in SUBSET S, Cardinality(s) = 0 PROVE g[s] \in Int
        OBVIOUS
    <2>1. IsFiniteSet(s)
        BY FS_Subset
    <2> QED
        BY <1>1, <2>1, FS_EmptySet
<1>4. ASSUME NEW n \in Nat, n \in T PROVE n + 1 \in T
    <2> SUFFICES ASSUME NEW s \in SUBSET S, Cardinality(s) = n + 1 PROVE g[s] \in Int
        OBVIOUS
    <2>1. CASE s # {}
        <3>1. PICK x \in s : g[s] = f[x] + g[s \ {x}]
            BY <1>2, <2>1
        <3>2. s \ {x} \in SUBSET S /\ Cardinality(s \ {x}) \in Nat /\ Cardinality(s) = Cardinality(s \ {x}) + 1
            BY TakeOne
        <3>3. Cardinality(s \ {x}) = n
            BY <3>2
        <3>4. g[s \ {x}] \in Int
            BY <1>4, <3>2, <3>3
        <3> QED
            BY <3>1, <3>4
    <2> QED
        BY <1>1, <2>1
<1> HIDE DEF T
<1>5. Nat \subseteq T
    BY <1>3, <1>4, NatSetInduction
<1>6. ASSUME NEW s \in SUBSET S PROVE g[s] \in Int
    <2>1. Cardinality(s) \in Nat
        BY FS_Subset, FS_CardinalityType
    <2> QED
        BY <1>5, <2>1 DEF T
<1> QED
    BY <1>6

(* The sum may take off any element first.                                 *)
LEMMA AddsAny ==
    ASSUME NEW f, NEW S, IsFiniteSet(S), \A x \in S : f[x] \in Int, NEW g, Adds(g, f, S)
    PROVE  \A s \in SUBSET S : \A a \in s : g[s] = f[a] + g[s \ {a}]
<1> DEFINE Good(s) == \A a \in s : g[s] = f[a] + g[s \ {a}]
           T == {n \in Nat : \A s \in SUBSET S : Cardinality(s) = n => Good(s)}
<1>1. \A s \in SUBSET S : g[s] \in Int
    BY AddsInt
<1>2. ASSUME NEW s \in SUBSET S, s # {}
      PROVE  \E x \in s : g[s] = f[x] + g[s \ {x}]
    BY <1>2 DEF Adds
<1>3. 0 \in T
    <2> SUFFICES ASSUME NEW s \in SUBSET S, Cardinality(s) = 0 PROVE s = {}
        OBVIOUS
    <2>1. IsFiniteSet(s)
        BY FS_Subset
    <2> QED
        BY <2>1, FS_EmptySet
<1>4. ASSUME NEW n \in Nat, n \in T PROVE n + 1 \in T
    <2> SUFFICES ASSUME NEW s \in SUBSET S, Cardinality(s) = n + 1, NEW a \in s
                 PROVE  g[s] = f[a] + g[s \ {a}]
        OBVIOUS
    <2>1. PICK x \in s : g[s] = f[x] + g[s \ {x}]
        BY <1>2
    <2>2. ASSUME NEW b \in s PROVE s \ {b} \in SUBSET S /\ Good(s \ {b})
        <3>1. s \ {b} \in SUBSET S /\ Cardinality(s \ {b}) \in Nat /\ Cardinality(s) = Cardinality(s \ {b}) + 1
            BY TakeOne
        <3>2. Cardinality(s \ {b}) = n
            BY <3>1
        <3> QED
            BY <1>4, <3>1, <3>2
    <2>3. CASE a = x
        BY <2>1, <2>3
    <2>4. CASE a # x
        <3> DEFINE r == (s \ {a}) \ {x}
        <3>1. g[s \ {x}] = f[a] + g[r]
            <4>1. (s \ {x}) \ {a} = r
                OBVIOUS
            <4>2. a \in s \ {x} /\ Good(s \ {x})
                BY <2>2, <2>4
            <4> QED
                BY <4>1, <4>2
        <3>2. g[s \ {a}] = f[x] + g[r]
            BY <2>2, <2>4
        <3>3. f[a] \in Int /\ f[x] \in Int /\ g[r] \in Int
            BY <1>1
        <3> HIDE DEF r
        <3> QED
            BY <2>1, <3>1, <3>2, <3>3
    <2> QED
        BY <2>3, <2>4
<1>5. Nat \subseteq T
    <2> HIDE DEF T
    <2> QED
        BY <1>3, <1>4, NatSetInduction
<1>6. ASSUME NEW s \in SUBSET S PROVE Good(s)
    <2>1. Cardinality(s) \in Nat
        BY FS_Subset, FS_CardinalityType
    <2> QED
        BY <1>5, <2>1
<1> QED
    BY <1>6

(* Two sums agree on the sets where their functions agree.                 *)
LEMMA AddsAgree ==
    ASSUME NEW f, NEW h, NEW S, IsFiniteSet(S), NEW g, Adds(g, f, S), NEW k, Adds(k, h, S),
           NEW R \in SUBSET S, \A x \in R : f[x] = h[x]
    PROVE  g[R] = k[R]
<1> DEFINE T == {n \in Nat : \A s \in SUBSET R : Cardinality(s) = n => g[s] = k[s]}
<1>1. ASSUME NEW s \in SUBSET S, s # {}
      PROVE  \E x \in s : g[s] = f[x] + g[s \ {x}] /\ k[s] = h[x] + k[s \ {x}]
    <2> DEFINE x == CHOOSE x \in s : TRUE
    <2>1. x \in s
        BY <1>1
    <2>2. g[s] = f[x] + g[s \ {x}] /\ k[s] = h[x] + k[s \ {x}]
        BY <1>1 DEF Adds
    <2> HIDE DEF x
    <2> QED
        BY <2>1, <2>2
<1>2. g[{}] = k[{}]
    BY DEF Adds
<1>3. 0 \in T
    <2> SUFFICES ASSUME NEW s \in SUBSET R, Cardinality(s) = 0 PROVE s = {}
        BY <1>2
    <2>1. IsFiniteSet(s)
        BY FS_Subset
    <2> QED
        BY <2>1, FS_EmptySet
<1>4. ASSUME NEW n \in Nat, n \in T PROVE n + 1 \in T
    <2> SUFFICES ASSUME NEW s \in SUBSET R, Cardinality(s) = n + 1 PROVE g[s] = k[s]
        OBVIOUS
    <2>1. CASE s # {}
        <3>1. PICK x \in s : g[s] = f[x] + g[s \ {x}] /\ k[s] = h[x] + k[s \ {x}]
            BY <1>1, <2>1
        <3>2. s \in SUBSET S /\ s \ {x} \in SUBSET R
            OBVIOUS
        <3>3. Cardinality(s \ {x}) \in Nat /\ Cardinality(s) = Cardinality(s \ {x}) + 1
            BY <3>2, TakeOne
        <3>4. Cardinality(s \ {x}) = n
            BY <3>3
        <3>5. g[s \ {x}] = k[s \ {x}] /\ f[x] = h[x]
            BY <1>4, <3>2, <3>4
        <3> QED
            BY <3>1, <3>5
    <2> QED
        BY <1>2, <2>1
<1>5. Nat \subseteq T
    <2> HIDE DEF T
    <2> QED
        BY <1>3, <1>4, NatSetInduction
<1>6. Cardinality(R) \in Nat
    BY FS_Subset, FS_CardinalityType
<1> QED
    BY <1>5, <1>6

(* A sum of the community modules over a finite set.                       *)
LEMMA SumAdds ==
    ASSUME NEW f, NEW S, IsFiniteSet(S)
    PROVE  \E g : Adds(g, f, S) /\ SumFunctionOnSet(f, S) = g[S]
<1> DEFINE g == CHOOSE g : Adds(g, f, S)
<1>1. Adds(g, f, S)
    BY AddsExists
<1>2. SumFunctionOnSet(f, S) = g[S]
    BY DEF SumFunctionOnSet, FoldFunctionOnSet, MapThenFoldSet, Adds
<1> HIDE DEF g
<1> QED
    BY <1>1, <1>2

(* It does not depend on the function elsewhere, and follows a change at   *)
(* one element.                                                            *)
LEMMA SumSame ==
    ASSUME NEW f, NEW h, NEW S, IsFiniteSet(S), \A x \in S : f[x] = h[x]
    PROVE  SumFunctionOnSet(f, S) = SumFunctionOnSet(h, S)
<1>1. PICK g : Adds(g, f, S) /\ SumFunctionOnSet(f, S) = g[S]
    BY SumAdds
<1>2. PICK k : Adds(k, h, S) /\ SumFunctionOnSet(h, S) = k[S]
    BY SumAdds
<1>3. g[S] = k[S]
    BY <1>1, <1>2, AddsAgree
<1> QED
    BY <1>1, <1>2, <1>3

LEMMA SumInt ==
    ASSUME NEW f, NEW S, IsFiniteSet(S), \A x \in S : f[x] \in Int
    PROVE  SumFunctionOnSet(f, S) \in Int
<1>1. PICK g : Adds(g, f, S) /\ SumFunctionOnSet(f, S) = g[S]
    BY SumAdds
<1> QED
    BY <1>1, AddsInt

LEMMA SumUpdate ==
    ASSUME NEW f, NEW h, NEW S, IsFiniteSet(S), \A x \in S : f[x] \in Int /\ h[x] \in Int,
           NEW a \in S, \A x \in S \ {a} : f[x] = h[x]
    PROVE  SumFunctionOnSet(h, S) = SumFunctionOnSet(f, S) + (h[a] - f[a])
<1>1. PICK g : Adds(g, f, S) /\ SumFunctionOnSet(f, S) = g[S]
    BY SumAdds
<1>2. PICK k : Adds(k, h, S) /\ SumFunctionOnSet(h, S) = k[S]
    BY SumAdds
<1>3. g[S] = f[a] + g[S \ {a}]
    BY <1>1, AddsAny
<1>4. k[S] = h[a] + k[S \ {a}]
    BY <1>2, AddsAny
<1>5. g[S \ {a}] = k[S \ {a}]
    BY <1>1, <1>2, AddsAgree
<1>6. g[S \ {a}] \in Int
    BY <1>1, AddsInt
<1> QED
    BY <1>1, <1>2, <1>3, <1>4, <1>5, <1>6

LEMMA SumZero ==
    ASSUME NEW f, NEW S, IsFiniteSet(S), \A x \in S : f[x] = 0
    PROVE  SumFunctionOnSet(f, S) = 0
<1>1. PICK g : Adds(g, f, S) /\ SumFunctionOnSet(f, S) = g[S]
    BY SumAdds
<1> DEFINE z == [s \in SUBSET S |-> 0]
<1>2. Adds(z, f, S)
    BY DEF Adds
<1>3. g[S] = z[S]
    BY <1>1, <1>2, AddsAgree
<1> QED
    BY <1>1, <1>3
-----------------------------------------------------------------------------
(* The balances.                                                           *)

MerchantRows(m) == {t \in Creates : input[t].merchant = m}

LEMMA NetType ==
    ASSUME TypeOK
    PROVE  \A t \in Creates :
              /\ input[t].amount \in Int /\ input[t].merchant \in Merchants
              /\ outbox[t]["completed"] \in Nat /\ outbox[t]["refunded"] \in Nat
              /\ Net[t] \in Int
              /\ Net[t] = input[t].amount * (outbox[t]["completed"] - outbox[t]["refunded"])
<1> SUFFICES ASSUME NEW t \in Creates
             PROVE  /\ input[t].amount \in Int /\ input[t].merchant \in Merchants
                    /\ outbox[t]["completed"] \in Nat /\ outbox[t]["refunded"] \in Nat
                    /\ Net[t] \in Int
                    /\ Net[t] = input[t].amount * (outbox[t]["completed"] - outbox[t]["refunded"])
    OBVIOUS
<1>1. input[t].amount \in Int /\ input[t].merchant \in Merchants
    BY InputsAssumption DEF TypeOK
<1>2. outbox[t]["completed"] \in Nat /\ outbox[t]["refunded"] \in Nat
    BY DEF TypeOK, OutboxKinds
<1>3. Net[t] = input[t].amount * (outbox[t]["completed"] - outbox[t]["refunded"])
    BY DEF Net
<1> QED
    BY <1>1, <1>2, <1>3

(* A step that announces no completion and no refund moves no money.       *)
LEMMA BalanceFrame ==
    ASSUME TypeOK, BalanceMatchesOutbox, input' = input, balance' = balance,
           \A t \in Creates : /\ outbox'[t]["completed"] = outbox[t]["completed"]
                              /\ outbox'[t]["refunded"] = outbox[t]["refunded"]
    PROVE  BalanceMatchesOutbox'
<1> SUFFICES ASSUME NEW m \in Merchants
             PROVE  balance'[m] = InitialBalance[m] + SumFunctionOnSet(Net', MerchantRows(m)')
    BY DEF BalanceMatchesOutbox, MerchantRows
<1>1. MerchantRows(m)' = MerchantRows(m) /\ IsFiniteSet(MerchantRows(m))
    BY FiniteAssumption, FS_Subset DEF MerchantRows
<1>2. \A t \in MerchantRows(m) : Net[t] = Net'[t]
    BY DEF Net, MerchantRows
<1>3. SumFunctionOnSet(Net, MerchantRows(m)) = SumFunctionOnSet(Net', MerchantRows(m))
    BY <1>1, <1>2, SumSame
<1> QED
    BY <1>1, <1>3 DEF BalanceMatchesOutbox, MerchantRows

(* A step that announces one of them moves the amount of its transaction.  *)
LEMMA BalanceMoves ==
    ASSUME TypeOK, TypeOK', BalanceMatchesOutbox, input' = input,
           NEW c \in Creates, NEW k \in {"completed", "refunded"}, NEW delta \in Int,
           delta = IF k = "completed" THEN input[c].amount ELSE -input[c].amount,
           outbox' = WithOutbox(c, k), balance' = WithBalance(input[c].merchant, delta)
    PROVE  BalanceMatchesOutbox'
<1> SUFFICES ASSUME NEW m \in Merchants
             PROVE  balance'[m] = InitialBalance[m] + SumFunctionOnSet(Net', MerchantRows(m)')
    BY DEF BalanceMatchesOutbox, MerchantRows
<1>1. MerchantRows(m)' = MerchantRows(m) /\ IsFiniteSet(MerchantRows(m)) /\ MerchantRows(m) \subseteq Creates
    BY FiniteAssumption, FS_Subset DEF MerchantRows
<1>2. /\ outbox'[c][k] = outbox[c][k] + 1
      /\ \A j \in OutboxKinds \ {k} : outbox'[c][j] = outbox[c][j]
      /\ \A d \in Creates \ {c} : outbox'[d] = outbox[d]
    <2>1. k \in OutboxKinds
        BY DEF OutboxKinds
    <2>2. /\ WithOutbox(c, k)[c][k] = outbox[c][k] + 1
          /\ \A j \in OutboxKinds \ {k} : WithOutbox(c, k)[c][j] = outbox[c][j]
          /\ \A d \in Creates \ {c} : WithOutbox(c, k)[d] = outbox[d]
        BY <2>1, OutboxUpdate
    <2> QED
        BY <2>2
<1>3. \A t \in Creates \ {c} : Net[t] = Net'[t]
    BY <1>2 DEF Net
<1>4. Net'[c] - Net[c] = delta
    <2>1. /\ Net[c] = input[c].amount * (outbox[c]["completed"] - outbox[c]["refunded"])
          /\ Net'[c] = input[c].amount * (outbox'[c]["completed"] - outbox'[c]["refunded"])
          /\ input[c].amount \in Int
          /\ outbox[c]["completed"] \in Nat /\ outbox[c]["refunded"] \in Nat
        BY NetType DEF Net
    <2>2. CASE k = "completed"
        <3>1. /\ outbox'[c]["completed"] = outbox[c]["completed"] + 1
              /\ outbox'[c]["refunded"] = outbox[c]["refunded"]
            BY <1>2, <2>2 DEF OutboxKinds
        <3> QED
            BY <2>1, <2>2, <3>1
    <2>3. CASE k = "refunded"
        <3>1. /\ outbox'[c]["completed"] = outbox[c]["completed"]
              /\ outbox'[c]["refunded"] = outbox[c]["refunded"] + 1
            BY <1>2, <2>3 DEF OutboxKinds
        <3>2. delta = -input[c].amount
            BY <2>3
        <3> DEFINE a == input[c].amount
                   x == outbox[c]["completed"]
                   y == outbox[c]["refunded"]
        <3>3. /\ Net[c] = a * (x - y) /\ Net'[c] = a * (x - (y + 1)) /\ delta = -a
              /\ a \in Int /\ x \in Nat /\ y \in Nat
            BY <2>1, <3>1, <3>2
        <3> HIDE DEF a, x, y
        <3> QED
            BY <3>3
    <2> QED
        BY <2>2, <2>3
<1>5. \A t \in Creates : Net[t] \in Int /\ Net'[t] \in Int
    <2>1. \A t \in Creates : Net[t] \in Int
        BY NetType
    <2>2. Net'[c] \in Int
        <3>1. /\ Net'[c] = input[c].amount * (outbox'[c]["completed"] - outbox'[c]["refunded"])
              /\ input[c].amount \in Int
            BY NetType DEF Net
        <3>2. outbox'[c]["completed"] \in Nat /\ outbox'[c]["refunded"] \in Nat
            BY DEF TypeOK, OutboxKinds
        <3> QED
            BY <3>1, <3>2
    <2> QED
        BY <1>3, <2>1, <2>2
<1>6. balance[m] = InitialBalance[m] + SumFunctionOnSet(Net, MerchantRows(m))
    BY DEF BalanceMatchesOutbox, MerchantRows
<1>7. /\ SumFunctionOnSet(Net, MerchantRows(m)) \in Int
      /\ balance \in [Merchants -> Nat] /\ InitialBalance[m] \in Nat
    BY <1>1, <1>5, SumInt, MerchantsAssumption DEF TypeOK
<1>8. CASE c \in MerchantRows(m)
    <2>1. SumFunctionOnSet(Net', MerchantRows(m))
              = SumFunctionOnSet(Net, MerchantRows(m)) + (Net'[c] - Net[c])
        BY <1>1, <1>3, <1>5, <1>8, SumUpdate
    <2>2. balance'[m] = balance[m] + delta
        BY <1>7, <1>8 DEF WithBalance, MerchantRows
    <2> QED
        BY <1>1, <1>4, <1>6, <1>7, <2>1, <2>2
<1>9. CASE c \notin MerchantRows(m)
    <2>1. SumFunctionOnSet(Net, MerchantRows(m)) = SumFunctionOnSet(Net', MerchantRows(m))
        BY <1>1, <1>3, <1>9, SumSame
    <2>2. balance'[m] = balance[m]
        BY <1>7, <1>9 DEF WithBalance, MerchantRows
    <2> QED
        BY <1>1, <1>6, <2>1, <2>2
<1> QED
    BY <1>8, <1>9

LEMMA InitBalance == Init => BalanceMatchesOutbox
<1> SUFFICES ASSUME Init, NEW m \in Merchants
             PROVE  balance[m] = InitialBalance[m] + SumFunctionOnSet(Net, MerchantRows(m))
    BY DEF BalanceMatchesOutbox, MerchantRows
<1>1. IsFiniteSet(MerchantRows(m))
    BY FiniteAssumption, FS_Subset DEF MerchantRows
<1>2. \A t \in MerchantRows(m) : Net[t] = 0
    <2> SUFFICES ASSUME NEW t \in Creates PROVE Net[t] = 0
        BY DEF MerchantRows
    <2>1. input[t].amount \in Int /\ outbox[t]["completed"] = 0 /\ outbox[t]["refunded"] = 0
        BY InputsAssumption DEF Init, OutboxKinds
    <2> QED
        BY <2>1 DEF Net
<1>3. SumFunctionOnSet(Net, MerchantRows(m)) = 0
    BY <1>1, <1>2, SumZero
<1> QED
    BY <1>3, MerchantsAssumption DEF Init

LEMMA NextBalance == IInv /\ IInv' /\ BalanceMatchesOutbox /\ [Next]_vars => BalanceMatchesOutbox'
<1> SUFFICES ASSUME IInv, IInv', BalanceMatchesOutbox, [Next]_vars PROVE BalanceMatchesOutbox'
    OBVIOUS
<1>1. TypeOK /\ TypeOK'
    BY DEF IInv
<1>2. CASE input' = input /\ balance' = balance /\ outbox' = outbox
    BY <1>1, <1>2, BalanceFrame
<1>3. ASSUME NEW c \in Creates, NEW k \in {"created", "failed"},
             input' = input, balance' = balance, outbox' = WithOutbox(c, k)
      PROVE  BalanceMatchesOutbox'
    <2>1. \A t \in Creates : /\ outbox'[t]["completed"] = outbox[t]["completed"]
                             /\ outbox'[t]["refunded"] = outbox[t]["refunded"]
        <3>1. /\ \A j \in OutboxKinds \ {k} : WithOutbox(c, k)[c][j] = outbox[c][j]
              /\ \A d \in Creates \ {c} : WithOutbox(c, k)[d] = outbox[d]
            BY <1>1, OutboxUpdate DEF OutboxKinds
        <3> QED
            BY <1>3, <3>1 DEF OutboxKinds
    <2> QED
        BY <1>1, <1>3, <2>1, BalanceFrame
<1>4. ASSUME NEW c \in Creates, CreateTransaction(c) PROVE BalanceMatchesOutbox'
    <2>1. CASE Persist(c)
        BY <1>2, <1>3, <2>1 DEF Persist, requestVars
    <2>2. CASE EmitOutbox(c)
        BY <1>2, <1>3, <2>2 DEF EmitOutbox, requestVars
    <2>3. CASE CompletePayment(c)
        <3>1. input' = input
            BY <2>3 DEF CompletePayment, requestVars
        <3>2. CASE balance' = balance /\ outbox' = outbox
            BY <1>2, <3>1, <3>2
        <3>3. CASE /\ balance' = WithBalance(input[c].merchant, input[c].amount)
                   /\ outbox' = WithOutbox(c, "completed")
            <4>1. input[c].amount \in Int
                BY <1>1, NetType
            <4> QED
                BY <1>1, <3>1, <3>3, <4>1, BalanceMoves
        <3> QED
            BY <2>3, <3>2, <3>3 DEF CompletePayment, dbVars
    <2>4. CASE \/ IdempotencyCheck(c) \/ Validate(c) \/ SetStatus(c) \/ RecordEvent(c)
               \/ RollbackTransition(c) \/ Charge(c) \/ GiveUpBank(c)
        BY <1>2, <2>4 DEF IdempotencyCheck, Validate, SetStatus, RecordEvent, RollbackTransition,
                          Charge, GiveUpBank, requestVars, dbVars
    <2> QED
        BY <1>4, <2>1, <2>2, <2>3, <2>4 DEF CreateTransaction
<1>5. ASSUME NEW r \in Refunds, RefundTransaction(r) PROVE BalanceMatchesOutbox'
    <2>1. CASE LoadOwned(r)
        BY <1>2, <2>1 DEF LoadOwned, requestVars, dbVars
    <2>2. CASE RefundInDBTransaction(r)
        <3> DEFINE t == refund[r].tx
        <3>1. t \in Creates /\ input' = input
            BY <1>1, <2>2 DEF TypeOK, RefundInDBTransaction, requestVars
        <3>2. CASE balance' = balance /\ outbox' = outbox
            BY <1>2, <3>1, <3>2
        <3>3. CASE /\ balance' = WithBalance(input[t].merchant, -input[t].amount)
                   /\ outbox' = WithOutbox(t, "refunded")
            <4> HIDE DEF t
            <4>1. input[t].amount \in Int /\ -input[t].amount \in Int
                BY <1>1, <3>1, NetType
            <4> QED
                BY <1>1, <3>1, <3>3, <4>1, BalanceMoves
        <3> QED
            BY <2>2, <3>2, <3>3 DEF RefundInDBTransaction, dbVars
    <2> QED
        BY <1>5, <2>1, <2>2 DEF RefundTransaction
<1>6. CASE (\E h \in Handlers : Crash(h) \/ Cancel(h)) \/ Terminating \/ UNCHANGED vars
    BY <1>2, <1>6 DEF Crash, Cancel, Terminating, vars, requestVars, dbVars
<1> QED
    BY <1>4, <1>5, <1>6 DEF Next

(* For every finite set of requests and whatever fails, the balances are   *)
(* the initial ones plus what the announced completions and refunds amount *)
(* to: no credit and no debit is lost, doubled or left unannounced.        *)
THEOREM BalanceSafety == Spec => []BalanceMatchesOutbox
<1>1. Spec => []IInv
    BY Invariance
<1>2. Init => BalanceMatchesOutbox
    BY InitBalance
<1>3. IInv /\ IInv' /\ BalanceMatchesOutbox /\ [Next]_vars => BalanceMatchesOutbox'
    BY NextBalance
<1> QED
    BY <1>1, <1>2, <1>3, PTL DEF Spec

-----------------------------------------------------------------------------
(* The ledger.                                                             *)

(* A step that changes none of these is a stutter of the ledger.           *)
LEMMA LedgerFrame ==
    ASSUME input' = input, balance' = balance, charges' = charges, Settled' = Settled,
           \A t \in Creates : outbox'[t]["refunded"] = outbox[t]["refunded"]
    PROVE  UNCHANGED Books!vars
BY DEF Books!vars

(* A row that is not settled and does not become so.                       *)
LEMMA SettledFrame ==
    ASSUME TypeOK, NEW c \in Creates, ~Credited(c),
           NEW x \in Status \ {"COMPLETED", "REFUNDED"}, status' = WithStatus(c, x)
    PROVE  Settled' = Settled
<1>1. \A t \in Creates : status'[t] \in {"COMPLETED", "REFUNDED"} <=> status[t] \in {"COMPLETED", "REFUNDED"}
    BY DEF TypeOK, Credited
<1> QED
    BY <1>1 DEF Settled

(* The steps of a create handler that move no money.                       *)
LEMMA LedgerStutters ==
    ASSUME IInv, NEW c \in Creates,
           \/ IdempotencyCheck(c) \/ Validate(c) \/ Persist(c) \/ SetStatus(c)
           \/ RecordEvent(c) \/ EmitOutbox(c) \/ RollbackTransition(c) \/ GiveUpBank(c)
    PROVE  UNCHANGED Books!vars
<1>1. TypeOK /\ Memory(c) /\ Row(c)
    BY DEF IInv, Local
<1>2. input' = input /\ balance' = balance /\ charges' = charges
    BY DEF IdempotencyCheck, Validate, Persist, SetStatus, RecordEvent, EmitOutbox,
           RollbackTransition, GiveUpBank, requestVars, dbVars
<1>3. \A t \in Creates : outbox'[t]["refunded"] = outbox[t]["refunded"]
    <2>1. outbox' \in {outbox, WithOutbox(c, "created"), WithOutbox(c, "failed")}
        BY DEF IdempotencyCheck, Validate, Persist, SetStatus, RecordEvent, EmitOutbox,
               RollbackTransition, GiveUpBank, dbVars
    <2>2. ASSUME NEW k \in {"created", "failed"}, NEW t \in Creates
          PROVE  WithOutbox(c, k)[t]["refunded"] = outbox[t]["refunded"]
        <3>1. k \in OutboxKinds /\ "refunded" \in OutboxKinds \ {k}
            BY DEF OutboxKinds
        <3>2. /\ \A j \in OutboxKinds \ {k} : WithOutbox(c, k)[c][j] = outbox[c][j]
              /\ \A d \in Creates \ {c} : WithOutbox(c, k)[d] = outbox[d]
            BY <1>1, <3>1, OutboxUpdate
        <3> QED
            BY <3>1, <3>2
    <2> QED
        BY <2>1, <2>2
<1>4. Settled' = Settled
    <2>1. CASE status' = status
        BY <2>1 DEF Settled
    <2>2. CASE Persist(c) \/ SetStatus(c) \/ RollbackTransition(c)
        <3>1. ~Credited(c)
            BY <1>1, <2>2 DEF Row, Credited, Ended, Persist, SetStatus, RollbackTransition
        <3>2. /\ target[c] \in {"PROCESSING", "FAILED"}
              /\ pc[c] = "undo" => mem[c] \in {"PENDING", "PROCESSING"}
            BY <1>1 DEF TypeOK, Memory
        <3>3. PICK x \in {"PENDING", "PROCESSING", "FAILED"} :
                  status' = status \/ status' = WithStatus(c, x)
            <4>1. CASE Persist(c)
                BY <4>1 DEF Persist
            <4>2. CASE SetStatus(c)
                BY <3>2, <4>2 DEF SetStatus
            <4>3. CASE RollbackTransition(c)
                BY <3>2, <4>3 DEF RollbackTransition
            <4> QED
                BY <2>2, <4>1, <4>2, <4>3
        <3>4. x \in Status \ {"COMPLETED", "REFUNDED"}
            BY DEF Status
        <3> QED
            BY <1>1, <2>1, <3>1, <3>3, <3>4, SettledFrame
    <2> QED
        BY <2>1, <2>2 DEF IdempotencyCheck, Validate, RecordEvent, EmitOutbox, GiveUpBank, dbVars
<1> QED
    BY <1>2, <1>3, <1>4, LedgerFrame

(* A charge the bank carried out takes the money.                          *)
LEMMA ChargeTakes ==
    ASSUME IInv, NEW c \in Creates, Charge(c)
    PROVE  Books!Take(c) \/ UNCHANGED Books!vars
<1>1. PICK n \in {0, 1} : charges' = [charges EXCEPT ![c] = @ + n]
    <2>1. PICK r \in ChargeResults : charges' = [charges EXCEPT ![c] = @ + r[2]]
        BY DEF Charge
    <2>2. r[2] \in {0, 1}
        BY DEF ChargeResults
    <2> QED
        BY <2>1, <2>2
<1>2. charges \in [Creates -> Nat]
    BY LimitsAssumption DEF IInv, TypeOK
<1>3. UNCHANGED <<input, status, balance, outbox>>
    BY DEF Charge, requestVars, dbVars
<1>4. Settled' = Settled
    BY <1>3 DEF Settled
<1>5. CASE n = 0
    <2>1. charges' = charges
        BY <1>1, <1>2, <1>5
    <2> QED
        BY <1>3, <1>4, <2>1, LedgerFrame
<1>6. CASE n = 1
    <2>1. \A t \in Creates : charges'[t] > 0 <=> (t = c \/ charges[t] > 0)
        BY <1>1, <1>2, <1>6
    <2> QED
        BY <1>3, <1>4, <2>1 DEF Books!Take
<1> QED
    BY <1>5, <1>6

(* The completion credits the payment, after the charge and only then.     *)
LEMMA CompletionCredits ==
    ASSUME IInv, NEW c \in Creates, CompletePayment(c)
    PROVE  Books!Credit(c) \/ UNCHANGED Books!vars
<1>1. TypeOK /\ Row(c) /\ pc[c] = "complete" /\ input' = input /\ charges' = charges
    BY DEF IInv, Local, CompletePayment, requestVars
<1>2. charges[c] > 0 /\ status[c] = "PROCESSING"
    BY <1>1 DEF Row
<1>3. CASE UNCHANGED dbVars
    <2>1. Settled' = Settled
        BY <1>3 DEF dbVars, Settled
    <2> QED
        BY <1>1, <1>3, <2>1, LedgerFrame DEF dbVars
<1>4. CASE /\ status' = WithStatus(c, "COMPLETED")
           /\ balance' = WithBalance(input[c].merchant, input[c].amount)
           /\ outbox' = WithOutbox(c, "completed")
    <2>1. Settled' = Settled \cup {c} /\ c \notin Settled
        BY <1>1, <1>2, <1>4 DEF TypeOK, Settled
    <2>2. \A t \in Creates : outbox'[t]["refunded"] = outbox[t]["refunded"]
        <3>1. "completed" \in OutboxKinds /\ "refunded" \in OutboxKinds \ {"completed"}
            BY DEF OutboxKinds
        <3>2. /\ \A j \in OutboxKinds \ {"completed"} : WithOutbox(c, "completed")[c][j] = outbox[c][j]
              /\ \A d \in Creates \ {c} : WithOutbox(c, "completed")[d] = outbox[d]
            BY <1>1, <3>1, OutboxUpdate
        <3> QED
            BY <1>4, <3>1, <3>2
    <2> QED
        BY <1>1, <1>2, <1>4, <2>1, <2>2 DEF Books!Credit, WithBalance
<1> QED
    BY <1>3, <1>4 DEF CompletePayment

(* The refund's transaction refunds the payment, if the balance covers it. *)
LEMMA RefundRefunds ==
    ASSUME IInv, NEW r \in Refunds, RefundInDBTransaction(r)
    PROVE  (\E t \in Creates : Books!Refund(t)) \/ UNCHANGED Books!vars
<1>0. PICK t \in Creates : t = refund[r].tx
    BY DEF IInv, TypeOK
<1>1. /\ TypeOK /\ Credited(t)
      /\ input' = input /\ charges' = charges
    BY <1>0 DEF IInv, TypeOK, Refunding, RefundInDBTransaction, requestVars
<1>2. CASE UNCHANGED dbVars
    <2>1. Settled' = Settled
        BY <1>2 DEF dbVars, Settled
    <2> QED
        BY <1>1, <1>2, <2>1, LedgerFrame DEF dbVars
<1>3. CASE /\ SufficientFunds(input[t].merchant, -input[t].amount)
           /\ status' = WithStatus(t, "REFUNDED")
           /\ balance' = WithBalance(input[t].merchant, -input[t].amount)
           /\ outbox' = WithOutbox(t, "refunded")
    <2>1. input[t].amount \in Int /\ input[t].merchant \in Merchants /\ balance \in [Merchants -> Nat]
        BY <1>1, NetType DEF TypeOK
    <2>2. /\ balance[input[t].merchant] >= input[t].amount
          /\ balance' = [balance EXCEPT ![input[t].merchant] = @ - input[t].amount]
        <3> DEFINE m == input[t].merchant
                   a == input[t].amount
        <3>1. balance[m] + (-a) >= 0 /\ balance' = [balance EXCEPT ![m] = @ + (-a)]
            BY <1>3 DEF SufficientFunds, WithBalance
        <3>2. a \in Int /\ balance[m] \in Int
            BY <2>1
        <3> HIDE DEF m, a
        <3>3. balance[m] >= a /\ balance[m] + (-a) = balance[m] - a
            BY <3>1, <3>2
        <3>4. balance[m] >= a /\ balance' = [balance EXCEPT ![m] = @ - a]
            BY <3>1, <3>3
        <3> QED
            BY <3>4 DEF m, a
    <2>3. Settled' = Settled /\ t \in Settled
        BY <1>1, <1>3 DEF TypeOK, Settled, Credited
    <2>4. [u \in Creates |-> outbox'[u]["refunded"]]
              = [[u \in Creates |-> outbox[u]["refunded"]] EXCEPT ![t] = @ + 1]
        <3>1. "refunded" \in OutboxKinds
            BY DEF OutboxKinds
        <3>2. /\ outbox'[t]["refunded"] = outbox[t]["refunded"] + 1
              /\ \A d \in Creates \ {t} : outbox'[d] = outbox[d]
            BY <1>1, <1>3, <3>1, OutboxUpdate
        <3> QED
            BY <1>1, <3>2
    <2>5. Books!Refund(t)
        BY <1>1, <2>2, <2>3, <2>4 DEF Books!Refund
    <2> QED
        BY <2>5
<1> QED
    BY <1>0, <1>2, <1>3 DEF RefundInDBTransaction, Applied

(* A step of the handlers is a step of the ledger or a stutter.            *)
LEMMA LedgerSimulation == IInv /\ [Next]_vars => [Books!Next]_(Books!vars)
<1> SUFFICES ASSUME IInv, [Next]_vars PROVE [Books!Next]_(Books!vars)
    OBVIOUS
<1>1. ASSUME NEW c \in Creates, CreateTransaction(c) PROVE [Books!Next]_(Books!vars)
    BY <1>1, LedgerStutters, ChargeTakes, CompletionCredits DEF CreateTransaction, Books!Next
<1>2. ASSUME NEW r \in Refunds, RefundInDBTransaction(r) PROVE [Books!Next]_(Books!vars)
    BY <1>2, RefundRefunds DEF Books!Next
<1>3. CASE UNCHANGED <<input, charges, dbVars>>
    <2>1. Settled' = Settled
        BY <1>3 DEF dbVars, Settled
    <2> QED
        BY <1>3, <2>1, LedgerFrame DEF dbVars
<1>4. ASSUME NEW r \in Refunds, LoadOwned(r) PROVE [Books!Next]_(Books!vars)
    BY <1>3, <1>4 DEF LoadOwned, requestVars
<1>5. ASSUME NEW h \in Handlers, Crash(h) \/ Cancel(h) PROVE [Books!Next]_(Books!vars)
    BY <1>3, <1>5 DEF Crash, Cancel, requestVars
<1>6. CASE UNCHANGED vars
    BY <1>3, <1>6 DEF vars, requestVars
<1> QED
    BY <1>1, <1>2, <1>4, <1>5, <1>6 DEF Next, RefundTransaction, Terminating

(* The payment service implements the ledger, for every set of requests,   *)
(* every retry policy and every combination of faults.                     *)
THEOREM ImplementsLedger == Spec => LedgerSafe
<1>1. Init => Books!Init
    <2> SUFFICES ASSUME Init PROVE Books!Init
        OBVIOUS
    <2>1. {t \in Creates : charges[t] > 0} = {} /\ Settled = {}
        BY DEF Init, Settled
    <2>2. [t \in Creates |-> outbox[t]["refunded"]] = [t \in Creates |-> 0]
        BY DEF Init, OutboxKinds
    <2> QED
        BY <2>1, <2>2 DEF Init, Books!Init
<1> QED
    BY <1>1, LedgerSimulation, Invariance, PTL DEF Spec, LedgerSafe, Books!Spec
-----------------------------------------------------------------------------
(* Requests come to an end: a rank that every step of a handler lowers.    *)

(* The round trips a create handler may still make.                        *)
CreateLeft(step, to, made) ==
    CASE step = "check" -> MaxAttempts + 9
      [] step = "validate" -> MaxAttempts + 8
      [] step = "persist" -> MaxAttempts + 7
      [] step = "setStatus" -> IF to = "PROCESSING" THEN MaxAttempts + 6 ELSE 4
      [] step = "audit" -> IF to = "PROCESSING" THEN MaxAttempts + 5 ELSE 3
      [] step = "bank" -> 4 + (MaxAttempts - made)
      [] step = "emit" -> 2
      [] step \in {"undo", "complete"} -> 1
      [] OTHER -> 0

RefundLeft(step) == CASE step = "load" -> 2 [] step = "refund" -> 1 [] OTHER -> 0

StepsLeft(h) ==
    IF h \in Creates THEN CreateLeft(pc[h], target[h], attempts[h]) ELSE RefundLeft(pc[h])

(* A step leaves no handler more to do, and unless it is a client going    *)
(* away it is one of the steps that some handler had left.                 *)
Advance ==
    /\ \A h \in Handlers : StepsLeft(h)' <= StepsLeft(h)
    /\ canceled' = canceled => \E h \in Handlers : StepsLeft(h)' < StepsLeft(h)

(* No request ever has more than MaxAttempts + 9 steps left, and it has    *)
(* none left only when it has ended.                                       *)
StepsBounded ==
    \A h \in Handlers :
        /\ StepsLeft(h) \in 0 .. (MaxAttempts + 9)
        /\ StepsLeft(h) = 0 <=> pc[h] \in Ended

LEMMA StepsAreBounded == IInv => StepsBounded
<1> SUFFICES ASSUME IInv, NEW h \in Handlers
             PROVE  /\ StepsLeft(h) \in 0 .. (MaxAttempts + 9)
                    /\ StepsLeft(h) = 0 <=> pc[h] \in Ended
    BY DEF StepsBounded
<1>1. CASE h \in Creates
    <2>1. /\ pc[h] \in Ended \cup BeforeRow \cup InFlight
          /\ attempts[h] \in 0 .. MaxAttempts
          /\ pc[h] = "bank" => attempts[h] < MaxAttempts
        BY <1>1 DEF IInv, Local, Memory, Attempts, TypeOK
    <2> QED
        BY <1>1, <2>1, LimitsAssumption DEF StepsLeft, CreateLeft, Ended, BeforeRow, InFlight
<1>2. CASE h \in Refunds
    <2>1. pc[h] \in Ended \cup RefundSteps /\ h \notin Creates
        BY <1>2, HandlersAssumption DEF IInv, Refunding
    <2> QED
        BY <2>1, LimitsAssumption DEF StepsLeft, RefundLeft, Ended, RefundSteps
<1> QED
    BY <1>1, <1>2 DEF Handlers

(* A step of one handler that lowers its rank is an advance.               *)
LEMMA AdvanceAt ==
    ASSUME IInv, IInv', NEW h \in Handlers, StepsLeft(h)' < StepsLeft(h),
           \A g \in Handlers \ {h} : pc'[g] = pc[g],
           \A d \in Creates \ {h} : target'[d] = target[d] /\ attempts'[d] = attempts[d]
    PROVE  Advance
<1>1. ASSUME NEW g \in Handlers, g # h PROVE StepsLeft(g)' = StepsLeft(g)
    BY <1>1 DEF StepsLeft
<1>2. \A g \in Handlers : StepsLeft(g) \in Nat
    BY StepsAreBounded, LimitsAssumption DEF StepsBounded
<1>3. (IInv => StepsBounded)'
    BY StepsAreBounded, PTL
<1>4. StepsLeft(h)' \in Nat
    BY <1>3, LimitsAssumption DEF StepsBounded, Handlers
<1> QED
    BY <1>1, <1>2, <1>4 DEF Advance

(* The steps of a create handler.                                          *)
LEMMA CreateAdvances ==
    ASSUME IInv, IInv', NEW c \in Creates, CreateTransaction(c)
    PROVE  Advance
<1>1. c \in Handlers /\ pc \in [Handlers -> Ended \cup CreateSteps \cup RefundSteps]
      /\ target \in [Creates -> {"PROCESSING", "FAILED"}]
      /\ attempts \in [Creates -> 0 .. MaxAttempts]
    BY DEF Handlers, IInv, TypeOK
<1>2. /\ pc[c] = "bank" => attempts[c] < MaxAttempts
      /\ pc[c] = "emit" => target[c] = "FAILED"
    BY DEF IInv, Local, Memory, Attempts
<1>3. /\ \A g \in Handlers \ {c} : pc'[g] = pc[g]
      /\ \A d \in Creates \ {c} : target'[d] = target[d] /\ attempts'[d] = attempts[d]
    <2>1. ASSUME NEW step, Goto(c, step)
          PROVE  \A g \in Handlers \ {c} : pc'[g] = pc[g]
        BY <1>1, <2>1 DEF Goto
    <2>2. \E step : Goto(c, step)
        BY DEF CreateTransaction, IdempotencyCheck, Validate, Persist, SetStatus, RecordEvent,
               EmitOutbox, RollbackTransition, Charge, GiveUpBank, CompletePayment,
               AfterCompletion
    <2>3. /\ target' = target \/ target' = [target EXCEPT ![c] = "FAILED"]
          /\ attempts' = attempts \/ attempts' = [attempts EXCEPT ![c] = @ + 1]
        BY DEF CreateTransaction, IdempotencyCheck, Validate, Persist, SetStatus, RecordEvent,
               EmitOutbox, RollbackTransition, Charge, GiveUpBank, CompletePayment,
               AfterCompletion, Fails, taskVars
    <2> QED
        BY <1>1, <2>1, <2>2, <2>3
<1>4. SUFFICES CreateLeft(pc'[c], target'[c], attempts'[c])
                 < CreateLeft(pc[c], target[c], attempts[c])
    BY <1>1, <1>3, AdvanceAt DEF StepsLeft
<1>5. CASE IdempotencyCheck(c)
    <2>1. pc[c] = "check" /\ pc'[c] \in {"error", "validate", "replied"}
        BY <1>1, <1>5 DEF IdempotencyCheck, Goto
    <2> QED
        BY <2>1, LimitsAssumption DEF CreateLeft
<1>6. CASE Validate(c)
    <2>1. pc[c] = "validate" /\ pc'[c] \in {"error", "persist"}
        BY <1>1, <1>6 DEF Validate, Goto
    <2> QED
        BY <2>1, LimitsAssumption DEF CreateLeft
<1>7. CASE Persist(c)
    <2>1. pc[c] = "persist" /\ pc'[c] \in {"error", "setStatus"}
        BY <1>1, <1>7 DEF Persist, Goto, AfterPersist
    <2> QED
        BY <2>1, LimitsAssumption DEF CreateLeft
<1>8. CASE SetStatus(c)
    <2>1. pc[c] = "setStatus" /\ pc'[c] \in {"error", "audit"} /\ target' = target
        BY <1>1, <1>8 DEF SetStatus, Goto, taskVars
    <2> QED
        BY <2>1, LimitsAssumption DEF CreateLeft
<1>9. CASE RecordEvent(c)
    <2>1. /\ pc[c] = "audit" /\ target' = target /\ attempts' = attempts
          /\ pc'[c] \in {"undo", IF target[c] = "FAILED" THEN "emit" ELSE "bank"}
        BY <1>1, <1>9 DEF RecordEvent, Goto
    <2>2. attempts[c] \in 0 .. MaxAttempts /\ target[c] \in {"PROCESSING", "FAILED"}
        BY <1>1
    <2> QED
        BY <2>1, <2>2, LimitsAssumption DEF CreateLeft
<1>10. CASE EmitOutbox(c)
    <2>1. pc[c] = "emit" /\ pc'[c] \in {"error", "undo"}
        BY <1>1, <1>10 DEF EmitOutbox, Goto
    <2> QED
        BY <2>1 DEF CreateLeft
<1>11. CASE RollbackTransition(c)
    <2>1. pc[c] = "undo" /\ pc'[c] = "error"
        BY <1>1, <1>11 DEF RollbackTransition, Goto
    <2> QED
        BY <2>1 DEF CreateLeft
<1>12. CASE Charge(c)
    <2>1. PICK r \in ChargeResults :
              /\ attempts' = [attempts EXCEPT ![c] = @ + 1]
              /\ Goto(c, AfterCharge(r[1], attempts[c] + 1))
              /\ IF AfterCharge(r[1], attempts[c] + 1) = "setStatus"
                 THEN Fails(c) ELSE UNCHANGED target
        BY <1>12 DEF Charge
    <2>2. pc[c] = "bank" /\ attempts[c] \in 0 .. MaxAttempts /\ attempts[c] < MaxAttempts
        BY <1>1, <1>2, <1>12 DEF Charge
    <2>3. attempts'[c] = attempts[c] + 1 /\ pc'[c] = AfterCharge(r[1], attempts[c] + 1)
        BY <1>1, <2>1 DEF Goto
    <2>4. pc'[c] \in {"complete", "bank", "setStatus"}
        BY <2>3 DEF AfterCharge
    <2>5. pc'[c] = "setStatus" => target'[c] = "FAILED"
        BY <1>1, <2>1, <2>3 DEF Fails
    <2> QED
        BY <2>2, <2>3, <2>4, <2>5, LimitsAssumption DEF CreateLeft
<1>13. CASE GiveUpBank(c)
    <2>1. pc[c] = "bank" /\ pc'[c] = "setStatus" /\ target'[c] = "FAILED"
        BY <1>1, <1>13 DEF GiveUpBank, Goto, Fails
    <2>2. attempts[c] \in 0 .. MaxAttempts /\ attempts[c] < MaxAttempts
        BY <1>1, <1>2, <2>1
    <2> QED
        BY <2>1, <2>2, LimitsAssumption DEF CreateLeft
<1>14. CASE CompletePayment(c)
    <2>1. pc[c] = "complete" /\ pc'[c] \in {"error", "replied"}
        BY <1>1, <1>14 DEF CompletePayment, AfterCompletion, Goto
    <2> QED
        BY <2>1 DEF CreateLeft
<1> QED
    BY <1>5, <1>6, <1>7, <1>8, <1>9, <1>10, <1>11, <1>12, <1>13, <1>14 DEF CreateTransaction

(* The steps of a refund handler.                                          *)
LEMMA RefundAdvances ==
    ASSUME IInv, IInv', NEW r \in Refunds, RefundTransaction(r)
    PROVE  Advance
<1>1. /\ r \in Handlers /\ r \notin Creates
      /\ pc \in [Handlers -> Ended \cup CreateSteps \cup RefundSteps]
    BY HandlersAssumption DEF Handlers, IInv, TypeOK
<1>2. target' = target /\ attempts' = attempts
    BY DEF RefundTransaction, LoadOwned, RefundInDBTransaction, taskVars
<1>3. /\ \A g \in Handlers \ {r} : pc'[g] = pc[g]
      /\ \/ pc[r] = "load" /\ pc'[r] \in {"error", "refund"}
         \/ pc[r] = "refund" /\ pc'[r] \in {"error", "replied"}
    BY <1>1 DEF RefundTransaction, LoadOwned, RefundInDBTransaction, Goto
<1>4. StepsLeft(r)' < StepsLeft(r)
    BY <1>1, <1>3 DEF StepsLeft, RefundLeft
<1> QED
    BY <1>1, <1>2, <1>3, <1>4, AdvanceAt

LEMMA NextAdvances == IInv /\ [Next]_vars => [Advance]_vars
<1> SUFFICES ASSUME IInv, Next, vars' # vars PROVE Advance
    OBVIOUS
<1>0. IInv'
    BY NextIInv
<1>1. ASSUME NEW h \in Handlers, Crash(h) PROVE Advance
    <2>1. pc[h] \notin Ended /\ pc' = [pc EXCEPT ![h] = "crashed"]
          /\ target' = target /\ attempts' = attempts
        BY <1>1 DEF Crash, Goto, taskVars
    <2>2. pc'[h] = "crashed" /\ \A g \in Handlers \ {h} : pc'[g] = pc[g]
        BY <2>1 DEF IInv, TypeOK
    <2>3. StepsLeft(h)' = 0
        BY <2>2 DEF StepsLeft, CreateLeft, RefundLeft
    <2>4. StepsLeft(h) > 0
        BY <2>1, StepsAreBounded, LimitsAssumption DEF StepsBounded
    <2> QED
        BY <1>0, <2>1, <2>2, <2>3, <2>4, AdvanceAt
<1>2. ASSUME NEW h \in Handlers, Cancel(h) PROVE Advance
    <2>1. canceled' # canceled /\ pc' = pc /\ target' = target /\ attempts' = attempts
        BY <1>2 DEF Cancel, taskVars
    <2>2. \A g \in Handlers : StepsLeft(g)' = StepsLeft(g) /\ StepsLeft(g) \in Nat
        BY <2>1, StepsAreBounded, LimitsAssumption DEF StepsLeft, StepsBounded
    <2> QED
        BY <2>1, <2>2 DEF Advance
<1> QED
    BY <1>0, <1>1, <1>2, CreateAdvances, RefundAdvances DEF Next, Terminating

(* Every request ends within MaxAttempts + 9 steps of its own, whatever    *)
(* fails and whatever other requests do: no path of the handlers loops.    *)
(* This is what EveryRequestEnds needs besides fairness.                   *)
THEOREM RequestsAdvance == Spec => []StepsBounded /\ [][Advance]_vars
BY Invariance, StepsAreBounded, NextAdvances, PTL DEF Spec
=============================================================================
