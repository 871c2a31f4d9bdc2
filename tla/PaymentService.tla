--------------------------- MODULE PaymentService ---------------------------
(***************************************************************************)
(* The payment service of internal/service/payment.go over its PostgreSQL  *)
(* repositories, in the configuration the server runs (a database is       *)
(* present: db # nil).                                                     *)
(*                                                                         *)
(* Every HTTP request that reaches the service is a handler: a member of   *)
(* Creates (CreateTransaction) or of Refunds (RefundTransaction).  The     *)
(* handlers run concurrently, in one or in several server processes, and   *)
(* share only the database.  A step of a handler is one statement or one   *)
(* database transaction, or one call of the bank.  A create request mints  *)
(* a fresh random transaction ID, so the request itself names the row it   *)
(* inserts; the columns of that row that never change are its input.       *)
(*                                                                         *)
(* A client that retries is simply another member of Creates or Refunds    *)
(* with the same input.                                                    *)
(***************************************************************************)
EXTENDS Integers, Sequences, FiniteSetsExt

CONSTANTS
    Merchants,           \* merchant IDs present in the merchants table
    Active,              \* those whose status is active
    InitialBalance,      \* balance_cents of each merchant at the start
    Creates,             \* CreateTransaction requests
    Refunds,             \* RefundTransaction requests
    Keys,                \* idempotency keys
    NoKey,               \* the empty one
    Inputs,              \* the CreateTransactionInput values a request may carry
    MaxTransactionCents, \* maxTransactionCents of the service
    MaxAttempts,         \* MaxAttempts of the bank retry policy
    Faults               \* what may go wrong at each handler

ASSUME MerchantsAssumption ==
    /\ Active \subseteq Merchants
    /\ InitialBalance \in [Merchants -> Nat]

ASSUME HandlersAssumption == Creates \cap Refunds = {}

ASSUME FiniteAssumption == IsFiniteSet(Creates)

(* amount_cents is an int64: the request may carry any integer.  The       *)
(* merchant of a request is the authenticated one, so it exists.           *)
ASSUME InputsAssumption ==
    /\ NoKey \in Keys
    /\ Inputs \subseteq [merchant : Merchants, amount : Int, currency : STRING,
                         key : Keys, description : STRING]

(* NewPaymentService replaces limits that are not positive by defaults.    *)
ASSUME LimitsAssumption ==
    /\ MaxTransactionCents \in Nat \ {0}
    /\ MaxAttempts \in Nat \ {0}

(* A panic or the death of its process, a client that leaves, failing      *)
(* calls of the database.                                                  *)
ASSUME FaultsAssumption ==
    Faults \in [Creates \cup Refunds -> SUBSET {"crash", "cancel", "db"}]

VARIABLES
    \* the requests, fixed when they arrive
    input,      \* the input of each create request; also the row's columns
    refund,     \* the merchant and the transaction of each refund request
    \* the database
    status,     \* transactions.status, "NONE" where there is no row
    balance,    \* merchants.balance_cents
    events,     \* transaction_events of each transaction, as <<from, to>>
    outbox,     \* how many outbox rows of each kind each transaction has
    \* the bank
    charges,    \* how often the bank took the money of each transaction
    \* the handlers
    pc,         \* the next step of each handler
    mem,        \* tx.Status in the memory of a create handler
    target,     \* the `to` of the transition the handler is making
    attempts,   \* bank calls made so far
    answer,     \* the transaction a create handler answers with
    canceled    \* handlers whose request context is canceled

requestVars == <<input, refund>>
dbVars      == <<status, balance, events, outbox>>
taskVars    == <<mem, target, attempts, answer>>
vars        == <<requestVars, dbVars, charges, pc, taskVars, canceled>>

Handlers == Creates \cup Refunds

-----------------------------------------------------------------------------
(* The transaction life cycle.                                             *)

Status == {"PENDING", "PROCESSING", "COMPLETED", "FAILED", "REFUNDED"}

ValidTransitions ==
    {<<"PENDING", "PROCESSING">>, <<"PROCESSING", "COMPLETED">>,
     <<"PROCESSING", "FAILED">>, <<"COMPLETED", "REFUNDED">>}

CanTransition(from, to) == <<from, to>> \in ValidTransitions

OutboxKinds == {"created", "completed", "failed", "refunded"}

Rows == {t \in Creates : status[t] # "NONE"}

(* The transactions whose amount was credited to the merchant.             *)
Settled == {t \in Creates : status[t] \in {"COMPLETED", "REFUNDED"}}

Ended == {"replied", "error", "crashed"}

CreateSteps == {"check", "validate", "persist", "setStatus", "audit", "emit",
                "undo", "bank", "complete"}

RefundSteps == {"load", "refund"}

TypeOK ==
    /\ input \in [Creates -> Inputs]
    /\ refund \in [Refunds -> [merchant : Merchants, tx : Creates]]
    /\ status \in [Creates -> Status \cup {"NONE"}]
    /\ balance \in [Merchants -> Nat]
    /\ events \in [Creates -> Seq((Status \cup {"NONE"}) \X Status)]
    /\ outbox \in [Creates -> [OutboxKinds -> Nat]]
    /\ charges \in [Creates -> 0 .. MaxAttempts]
    /\ pc \in [Handlers -> Ended \cup CreateSteps \cup RefundSteps]
    /\ mem \in [Creates -> Status]
    /\ target \in [Creates -> {"PROCESSING", "FAILED"}]
    /\ attempts \in [Creates -> 0 .. MaxAttempts]
    /\ answer \in [Creates -> Creates]
    /\ canceled \subseteq Handlers

(* Requests arrive at a service that keeps no state of its own, over a     *)
(* database that holds merchants only.                                     *)
Init ==
    /\ input \in [Creates -> Inputs]
    /\ refund \in [Refunds -> [merchant : Merchants, tx : Creates]]
    /\ status = [t \in Creates |-> "NONE"]
    /\ balance = InitialBalance
    /\ events = [t \in Creates |-> << >>]
    /\ outbox = [t \in Creates |-> [k \in OutboxKinds |-> 0]]
    /\ charges = [t \in Creates |-> 0]
    /\ pc = [h \in Handlers |-> IF h \in Creates THEN "check" ELSE "load"]
    /\ mem = [t \in Creates |-> "PENDING"]
    /\ target = [t \in Creates |-> "PROCESSING"]
    /\ attempts = [t \in Creates |-> 0]
    /\ answer = [t \in Creates |-> t]
    /\ canceled = {}

-----------------------------------------------------------------------------
(* A round trip to the database (a statement, or a whole transaction with  *)
(* its COMMIT) is carried out and reported, carried out and reported as an *)
(* error (the reply is lost), or not carried out.  A step whose context is *)
(* attached to a canceled request never succeeds.                          *)

Outcomes(h, attached) ==
    LET dead == attached /\ h \in canceled
    IN  {o \in {"ok", "lost", "failed"} :
            IF o = "ok" THEN ~dead ELSE dead \/ "db" \in Faults[h]}

Applied(o) == o # "failed"

Goto(h, step) == pc' = [pc EXCEPT ![h] = step]

(* UPDATE transactions SET status = ... WHERE id = ...: whatever the stored *)
(* status is.                                                              *)
WithStatus(t, s) == [status EXCEPT ![t] = s]

(* A new row of transaction_events.                                        *)
WithEvent(t, from, to) == [events EXCEPT ![t] = Append(@, <<from, to>>)]

(* Mutant of WithOutbox: a refund writes no outbox row.                    *)
WithOutboxButRefunds(t, kind) ==
    IF kind = "refunded" THEN outbox ELSE [outbox EXCEPT ![t][kind] = @ + 1]

(* A new row of the outbox.                                                *)
WithOutbox(t, kind) == [outbox EXCEPT ![t][kind] = @ + 1]

(* UPDATE merchants ... WHERE balance_cents + delta >= 0                   *)
SufficientFunds(m, delta) == balance[m] + delta >= 0

WithBalance(m, delta) == [balance EXCEPT ![m] = @ + delta]

-----------------------------------------------------------------------------
(* CreateTransaction, up to the insertion of the row.                      *)

(* Mutant of MatchesIdempotentRequest: the amount is not compared.         *)
MatchesButAmount(t, c) ==
    /\ input[t].merchant = input[c].merchant
    /\ input[t].currency = input[c].currency
    /\ input[t].description = input[c].description

MatchesIdempotentRequest(t, c) ==
    /\ input[t].merchant = input[c].merchant
    /\ input[t].amount = input[c].amount
    /\ input[t].currency = input[c].currency
    /\ input[t].description = input[c].description

(* SELECT ... FROM transactions WHERE idempotency_key = $1.  The empty key  *)
(* is stored as NULL, which equals nothing.                                *)
ByIdempotencyKey(c) ==
    {t \in Rows : input[c].key # NoKey /\ input[t].key = input[c].key}

(* Mutant of KeyFree: the index is missing, only the lookup protects.      *)
KeyAlwaysFree(c) == TRUE

(* The unique index on transactions.idempotency_key lets the row in.       *)
KeyFree(c) == ByIdempotencyKey(c) = {}

ValidRequest(i) ==
    /\ i.merchant \in Active
    /\ i.amount > 0 /\ i.amount <= MaxTransactionCents
    /\ i.currency \in {"CAD", "USD"}

(* The context check and, if there is a key, the lookup: replay the         *)
(* transaction found, refuse the key's reuse for another request, or go on. *)
IdempotencyCheck(c) ==
    /\ pc[c] = "check"
    /\ \/ /\ c \in canceled \/ input[c].key # NoKey
          /\ "failed" \in Outcomes(c, TRUE)
          /\ Goto(c, "error")
          /\ UNCHANGED answer
       \/ /\ "ok" \in Outcomes(c, TRUE)
          /\ ByIdempotencyKey(c) = {}
          /\ Goto(c, "validate")
          /\ UNCHANGED answer
       \/ /\ "ok" \in Outcomes(c, TRUE)
          /\ \E t \in ByIdempotencyKey(c) :
                IF MatchesIdempotentRequest(t, c)
                THEN /\ Goto(c, "replied")
                     /\ answer' = [answer EXCEPT ![c] = t]
                ELSE /\ Goto(c, "error")
                     /\ UNCHANGED answer
    /\ UNCHANGED <<requestVars, dbVars, charges, mem, target, attempts, canceled>>

(* The merchant lookup and the checks on the request.                      *)
Validate(c) ==
    /\ pc[c] = "validate"
    /\ \/ /\ "failed" \in Outcomes(c, TRUE)
          /\ Goto(c, "error")
       \/ /\ "ok" \in Outcomes(c, TRUE)
          /\ Goto(c, IF ValidRequest(input[c]) THEN "persist" ELSE "error")
    /\ UNCHANGED <<requestVars, dbVars, charges, taskVars, canceled>>

(* Mutant of AfterPersist: a failed insert starts the request again.       *)
RestartAfterPersist(o) == IF o = "ok" THEN "setStatus" ELSE "check"

(* Mutant of AfterPersist: the bank is called before PROCESSING is stored. *)
BankAfterPersist(o) == IF o = "ok" THEN "bank" ELSE "error"

(* An error of the insertion ends the request.                             *)
AfterPersist(o) == IF o = "ok" THEN "setStatus" ELSE "error"

(* createInDBTransaction: the row, its first audit event and its outbox    *)
(* row commit together, unless the unique index refuses the row.           *)
Persist(c) ==
    /\ pc[c] = "persist"
    /\ \E o \in IF KeyFree(c) THEN Outcomes(c, TRUE) ELSE {"failed"} :
          /\ IF Applied(o)
             THEN /\ status' = [status EXCEPT ![c] = "PENDING"]
                  /\ events' = WithEvent(c, "NONE", "PENDING")
                  /\ outbox' = WithOutbox(c, "created")
             ELSE UNCHANGED <<status, events, outbox>>
          /\ Goto(c, AfterPersist(o))
    /\ UNCHANGED <<requestVars, balance, charges, taskVars, canceled>>

-----------------------------------------------------------------------------
(* transition: three statements that commit one by one.  The move to       *)
(* PROCESSING runs under the request's context, the move to FAILED under   *)
(* one detached from it (postBankContext).                                 *)

Attached(c) == target[c] = "PROCESSING"

(* UpdateStatus(to), guarded by CanTransition on the status in memory.     *)
SetStatus(c) ==
    /\ pc[c] = "setStatus"
    /\ \E o \in IF CanTransition(mem[c], target[c])
               THEN Outcomes(c, Attached(c)) ELSE {"failed"} :
          /\ status' = IF Applied(o) THEN WithStatus(c, target[c]) ELSE status
          /\ Goto(c, IF o = "ok" THEN "audit" ELSE "error")
    /\ UNCHANGED <<requestVars, balance, events, outbox, charges, taskVars,
                   canceled>>

(* Mutant of EventRecorded: the error of events.Create is only logged.     *)
EventErrorIgnored(o) == TRUE

(* events.Create reported no error, so the transition goes on.             *)
EventRecorded(o) == o = "ok"

(* The audit event.  Only a move to FAILED has an outbox event to follow.  *)
RecordEvent(c) ==
    /\ pc[c] = "audit"
    /\ \E o \in Outcomes(c, Attached(c)) :
          /\ events' = IF Applied(o) THEN WithEvent(c, mem[c], target[c])
                                     ELSE events
          /\ Goto(c, IF ~EventRecorded(o) THEN "undo"
                     ELSE IF target[c] = "FAILED" THEN "emit" ELSE "bank")
          /\ mem' = IF EventRecorded(o) /\ target[c] = "PROCESSING"
                    THEN [mem EXCEPT ![c] = target[c]] ELSE mem
    /\ UNCHANGED <<requestVars, status, balance, outbox, charges, target,
                   attempts, answer, canceled>>

(* emitTransitionOutboxEvent for FAILED; the handler then returns the      *)
(* bank's error.                                                           *)
EmitOutbox(c) ==
    /\ pc[c] = "emit"
    /\ \E o \in Outcomes(c, Attached(c)) :
          /\ outbox' = IF Applied(o) THEN WithOutbox(c, "failed") ELSE outbox
          /\ Goto(c, IF o = "ok" THEN "error" ELSE "undo")
          /\ mem' = IF o = "ok" THEN [mem EXCEPT ![c] = target[c]] ELSE mem
    /\ UNCHANGED <<requestVars, status, balance, events, charges, target,
                   attempts, answer, canceled>>

(* rollbackTransition: write the previous status back.                     *)
RollbackTransition(c) ==
    /\ pc[c] = "undo"
    /\ \E o \in Outcomes(c, Attached(c)) :
          status' = IF Applied(o) THEN WithStatus(c, mem[c]) ELSE status
    /\ Goto(c, "error")
    /\ UNCHANGED <<requestVars, balance, events, outbox, charges, taskVars,
                   canceled>>

-----------------------------------------------------------------------------
(* callBank: Execute(Retry(Charge)).  The circuit breaker itself is the    *)
(* subject of CircuitBreaker; here it may refuse the call.                 *)

(* What one Charge returns, and how often the bank took the money: an      *)
(* approval or a rejection, ErrBankTimeout or ErrBankUnavailable (the      *)
(* answer may have been lost), or an answer that cannot be decoded.        *)
ChargeResults ==
    {<<"approved", 1>>, <<"rejected", 0>>, <<"retryable", 0>>,
     <<"retryable", 1>>, <<"malformed", 0>>, <<"malformed", 1>>}

(* Mutant of AfterCharge: one attempt too many.                            *)
AfterChargeOneMore(result, attempt) ==
    CASE result = "approved" -> "complete"
      [] result = "retryable" /\ attempt <= MaxAttempts -> "bank"
      [] OTHER -> "setStatus"

(* Mutant of AfterCharge: a rejection comes without an error.              *)
AfterChargeUnchecked(result, attempt) ==
    CASE result \in {"approved", "rejected"} -> "complete"
      [] result = "retryable" /\ attempt < MaxAttempts -> "bank"
      [] OTHER -> "setStatus"

(* Mutant of AfterCharge: the error is returned and FAILED never recorded. *)
AfterChargeReturn(result, attempt) ==
    CASE result = "approved" -> "complete"
      [] result = "retryable" /\ attempt < MaxAttempts -> "bank"
      [] OTHER -> "error"

(* What the handler does next once the given attempt has returned.         *)
AfterCharge(result, attempt) ==
    CASE result = "approved" -> "complete"
      [] result = "retryable" /\ attempt < MaxAttempts -> "bank"
      [] OTHER -> "setStatus"

(* The error of callBank makes the handler move the transaction to FAILED. *)
Fails(c) == target' = [target EXCEPT ![c] = "FAILED"]

Charge(c) ==
    /\ pc[c] = "bank"
    /\ c \notin canceled
    /\ \E r \in ChargeResults :
          LET next == AfterCharge(r[1], attempts[c] + 1)
          IN  /\ charges' = [charges EXCEPT ![c] = @ + r[2]]
              /\ attempts' = [attempts EXCEPT ![c] = @ + 1]
              /\ Goto(c, next)
              /\ IF next = "setStatus" THEN Fails(c) ELSE UNCHANGED target
    /\ UNCHANGED <<requestVars, dbVars, mem, answer, canceled>>

(* No (further) call: the circuit is open, or the deadline or the caller   *)
(* ended the context before an attempt or during the back-off.             *)
GiveUpBank(c) ==
    /\ pc[c] = "bank"
    /\ Fails(c)
    /\ Goto(c, "setStatus")
    /\ UNCHANGED <<requestVars, dbVars, charges, mem, attempts, answer, canceled>>

(* Mutant of AfterCompletion: an error of the commit marks it FAILED.      *)
FailAfterCompletion(c, o) ==
    /\ Goto(c, IF o = "ok" THEN "replied" ELSE "setStatus")
    /\ mem' = IF o = "ok" THEN [mem EXCEPT ![c] = "COMPLETED"] ELSE mem
    /\ IF o = "ok" THEN UNCHANGED target ELSE Fails(c)

(* Mutant of AfterCompletion: an error of the commit retries the payment.  *)
ChargeAfterCompletion(c, o) ==
    /\ Goto(c, IF o = "ok" THEN "replied" ELSE "bank")
    /\ mem' = IF o = "ok" THEN [mem EXCEPT ![c] = "COMPLETED"] ELSE mem
    /\ UNCHANGED target

(* An error of the completion is returned; the status is not touched again. *)
AfterCompletion(c, o) ==
    /\ Goto(c, IF o = "ok" THEN "replied" ELSE "error")
    /\ mem' = IF o = "ok" THEN [mem EXCEPT ![c] = "COMPLETED"] ELSE mem
    /\ UNCHANGED target

(* completeInDBTransaction, under a detached context: status, credit,      *)
(* audit event and outbox row commit together.                             *)
CompletePayment(c) ==
    /\ pc[c] = "complete"
    /\ \E o \in IF CanTransition(mem[c], "COMPLETED")
               THEN Outcomes(c, FALSE) ELSE {"failed"} :
          /\ IF Applied(o)
             THEN /\ status' = WithStatus(c, "COMPLETED")
                  /\ balance' = WithBalance(input[c].merchant, input[c].amount)
                  /\ events' = WithEvent(c, mem[c], "COMPLETED")
                  /\ outbox' = WithOutbox(c, "completed")
             ELSE UNCHANGED dbVars
          /\ AfterCompletion(c, o)
    /\ UNCHANGED <<requestVars, charges, attempts, answer, canceled>>

-----------------------------------------------------------------------------
(* RefundTransaction.                                                      *)

(* ownedTransaction finds the row, and it belongs to the caller.           *)
Owned(r) ==
    LET t == refund[r].tx
    IN  t \in Rows /\ input[t].merchant = refund[r].merchant

(* The row is read and its status checked outside any transaction.         *)
LoadOwned(r) ==
    /\ pc[r] = "load"
    /\ \/ /\ "failed" \in Outcomes(r, TRUE)
          /\ Goto(r, "error")
       \/ /\ "ok" \in Outcomes(r, TRUE)
          /\ Goto(r, IF Owned(r) /\ CanTransition(status[refund[r].tx], "REFUNDED")
                     THEN "refund" ELSE "error")
    /\ UNCHANGED <<requestVars, dbVars, charges, taskVars, canceled>>

(* refundInDBTransaction: UpdateStatus is unconditional, the debit is      *)
(* refused when the balance does not cover it, and all commit together.    *)
RefundInDBTransaction(r) ==
    LET t == refund[r].tx
        m == input[t].merchant
    IN  /\ pc[r] = "refund"
        /\ \E o \in IF SufficientFunds(m, -input[t].amount)
                   THEN Outcomes(r, TRUE) ELSE {"failed"} :
              /\ IF Applied(o)
                 THEN /\ status' = WithStatus(t, "REFUNDED")
                      /\ balance' = WithBalance(m, -input[t].amount)
                      /\ events' = WithEvent(t, "COMPLETED", "REFUNDED")
                      /\ outbox' = WithOutbox(t, "refunded")
                 ELSE UNCHANGED dbVars
              /\ Goto(r, IF o = "ok" THEN "replied" ELSE "error")
        /\ UNCHANGED <<requestVars, charges, taskVars, canceled>>

-----------------------------------------------------------------------------
(* The environment.  A panic ends one handler, a crash of the process      *)
(* every handler in it; neither leaves anything but the database behind.   *)

Crash(h) ==
    /\ "crash" \in Faults[h]
    /\ pc[h] \notin Ended
    /\ Goto(h, "crashed")
    /\ UNCHANGED <<requestVars, dbVars, charges, taskVars, canceled>>

(* The client goes away, or its deadline passes.                           *)
Cancel(h) ==
    /\ "cancel" \in Faults[h]
    /\ pc[h] \notin Ended
    /\ h \notin canceled
    /\ canceled' = canceled \cup {h}
    /\ UNCHANGED <<requestVars, dbVars, charges, pc, taskVars>>

(* Every request has been answered.                                        *)
Terminating ==
    /\ \A h \in Handlers : pc[h] \in Ended
    /\ UNCHANGED vars

CreateTransaction(c) ==
    \/ IdempotencyCheck(c) \/ Validate(c) \/ Persist(c)
    \/ SetStatus(c) \/ RecordEvent(c) \/ EmitOutbox(c) \/ RollbackTransition(c)
    \/ Charge(c) \/ GiveUpBank(c) \/ CompletePayment(c)

RefundTransaction(r) == LoadOwned(r) \/ RefundInDBTransaction(r)

Next ==
    \/ \E c \in Creates : CreateTransaction(c)
    \/ \E r \in Refunds : RefundTransaction(r)
    \/ \E h \in Handlers : Crash(h) \/ Cancel(h)
    \/ Terminating

Spec == Init /\ [][Next]_vars

(* A handler that can take a step takes one: the goroutine is scheduled,   *)
(* the database and the bank answer or the call times out.                 *)
Fairness ==
    /\ \A c \in Creates : WF_vars(CreateTransaction(c))
    /\ \A r \in Refunds : WF_vars(RefundTransaction(r))

FairSpec == Spec /\ Fairness

-----------------------------------------------------------------------------
(* Safety.                                                                 *)

(* However requests with one idempotency key interleave, crash or are      *)
(* retried, the bank takes money for at most one transaction of that key:  *)
(* the lookup races with the insert, and only the unique index decides.    *)
OneChargePerKey ==
    \A t, u \in Creates :
        /\ charges[t] > 0 /\ charges[u] > 0
        /\ input[t].key = input[u].key /\ input[t].key # NoKey
        => t = u

(* The merchant is credited at most once for a transaction, exactly when   *)
(* its status says so, and only after the bank took the money, although    *)
(* the credit runs after the bank call and its COMMIT may be reported as   *)
(* failed.                                                                 *)
CreditedOnceAfterCharge ==
    \A t \in Creates :
        /\ outbox[t]["completed"] = IF t \in Settled THEN 1 ELSE 0
        /\ t \in Settled => charges[t] > 0

(* Money the bank has taken is traced by a row that says so: wherever a    *)
(* process dies between the approval and the completion, and whatever a    *)
(* failed transition writes back, the row is neither missing nor PENDING.  *)
ChargedIsOnRecord ==
    \A t \in Creates : charges[t] > 0 => status[t] \notin {"NONE", "PENDING"}

(* Subscribers never hear of one transaction both that it completed and    *)
(* that it failed.                                                         *)
NoContradictoryEvents ==
    \A t \in Creates :
        ~(outbox[t]["completed"] > 0 /\ outbox[t]["failed"] > 0)

(* What the outbox says a transaction brought its merchant.                *)
Net ==
    [t \in Creates |-> input[t].amount * (outbox[t]["completed"] - outbox[t]["refunded"])]

(* The balances can be rebuilt from the outbox: they are the initial       *)
(* balances plus what the announced completions and refunds amount to.     *)
BalanceMatchesOutbox ==
    \A m \in Merchants :
        balance[m] = InitialBalance[m] +
                        SumFunctionOnSet(Net, {t \in Creates : input[t].merchant = m})

(* The audit trail of a credited transaction is whole and in order: every  *)
(* step to COMPLETED, then one event per announced refund.                 *)
AuditTrailWhole ==
    \A t \in Settled :
        /\ Len(events[t]) = 3 + outbox[t]["refunded"]
        /\ events[t][1] = <<"NONE", "PENDING">>
        /\ events[t][2] = <<"PENDING", "PROCESSING">>
        /\ events[t][3] = <<"PROCESSING", "COMPLETED">>
        /\ \A i \in 4 .. Len(events[t]) : events[t][i] = <<"COMPLETED", "REFUNDED">>

(* Successful answers to requests with one key agree: they name the same   *)
(* transaction, and the requests asked for the same thing.                 *)
ReplaysAgree ==
    \A c, d \in Creates :
        /\ pc[c] = "replied" /\ pc[d] = "replied"
        /\ input[c].key = input[d].key /\ input[c].key # NoKey
        => answer[c] = answer[d] /\ input[c] = input[d]

(* A credited transaction is only ever refunded, a refunded one stays      *)
(* refunded, and nothing else is refunded: rollbackTransition and the      *)
(* FAILED transition never reach it.                                       *)
SettlementIsFinal ==
    [][\A t \in Creates :
          /\ status[t] = "COMPLETED" => status'[t] \in {"COMPLETED", "REFUNDED"}
          /\ status[t] = "REFUNDED" => status'[t] = "REFUNDED"
          /\ status'[t] = "REFUNDED" => status[t] \in {"COMPLETED", "REFUNDED"}]_vars

(* An approval the handler has received stands: from then on the row is    *)
(* never FAILED and the bank is not asked again, whatever becomes of the   *)
(* completion, the process, refunds or other requests with the key.        *)
ApprovalStands ==
    \A t \in Creates :
        [](pc[t] = "complete" => [](status[t] # "FAILED" /\ pc[t] # "bank"))

-----------------------------------------------------------------------------
(* The database and the bank as a ledger: a settled row is a credit, an    *)
(* announced refund a refund.                                              *)
Books == INSTANCE Ledger WITH
    Payments <- Creates,
    Orders <- Inputs,
    order <- input,
    taken <- {t \in Creates : charges[t] > 0},
    credited <- Settled,
    refunds <- [t \in Creates |-> outbox[t]["refunded"]]

(* The handlers implement the ledger: whatever crashes, is canceled, fails *)
(* or is reported as failed although it was carried out, a balance moves   *)
(* only together with its status and its announcement, by the amount of    *)
(* its payment, first after the bank took the money and once.              *)
LedgerSafe == Books!Spec

-----------------------------------------------------------------------------
(* Liveness.                                                               *)

(* Every request is answered or dies with its process, whatever fails: no  *)
(* path of the handlers waits for another handler or retries for ever.     *)
EveryRequestEnds == \A h \in Handlers : <>(pc[h] \in Ended)

(* A transaction whose own request meets no failure of its process, its    *)
(* client or the database is settled or marked FAILED, whatever the bank   *)
(* does and whatever happens to other requests, refunds of it and requests *)
(* with its key included.                                                  *)
EveryPaymentDecided ==
    \A t \in {c \in Creates : Faults[c] = {}} :
        status[t] = "PENDING" ~> status[t] \in {"COMPLETED", "FAILED", "REFUNDED"}

-----------------------------------------------------------------------------
(* Statements of the repository that the code does not keep.               *)

(* "can only refund completed transactions" (internal/domain/errors.go:18) *)
(* and TestRefund_CannotRefundTwice: no transaction is refunded twice.     *)
RefundedAtMostOnce == \A t \in Creates : outbox[t]["refunded"] <= 1

(* "Events are written to an outbox table in the same DB transaction as    *)
(* the payment" (README.md:370): a transaction left FAILED by a handler    *)
(* that has ended was announced as failed.                                 *)
FailureAnnounced ==
    \A t \in Creates :
        pc[t] \in Ended /\ status[t] = "FAILED" => outbox[t]["failed"] = 1

=============================================================================
