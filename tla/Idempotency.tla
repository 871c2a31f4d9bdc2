---------------------------- MODULE Idempotency ----------------------------
(***************************************************************************)
(* A POST /transactions on its way through the server: rate limit and      *)
(* authentication, the idempotency middleware with its entries in Redis    *)
(* (internal/middleware), the Create handler (internal/handler), and the   *)
(* payment service reduced to what these see of it: the transaction of a   *)
(* key and whether it is decided.  PaymentService is the detailed model of *)
(* that part.                                                              *)
(*                                                                         *)
(* The servers share Redis and the database.  Each Redis command is one    *)
(* step.  A transaction is named by the request that created it.           *)
(***************************************************************************)
EXTENDS Integers

CONSTANTS
    Requests,   \* HTTP requests
    Merchants,  \* authenticated merchants
    Keys,       \* idempotency keys a client may send
    NoKey,      \* no key sent
    Bodies,     \* contents of a request
    Faults      \* what may go wrong: "redis", "cancel", "crash"

ASSUME KeysAssumption == NoKey \notin Keys
ASSUME FaultsAssumption == Faults \subseteq {"redis", "cancel", "crash"}

VARIABLES
    input,      \* merchant, key and body of each request
    row,        \* the transaction a request created: none, open (not
                \* decided), completed, failed, refunded
    entry,      \* the Redis entry of each merchant and key
    pc,         \* the next step of each request
    tracked,    \* requests the middleware will store or release
    answer,     \* the HTTP answer of each request
    canceled,   \* requests whose client is gone
    disturbed   \* Redis keys whose protection was lost: the entry was gone
                \* before its request ended, or a check failed

requestVars == <<input, canceled>>
vars == <<requestVars, row, entry, pc, tracked, answer, disturbed>>

RedisKeys == Merchants \X Keys

(* Mutant of RedisKey: the merchant is not part of it.                     *)
RedisKeyShared(r) == <<CHOOSE m \in Merchants : TRUE, input[r].key>>

(* idempotencyRedisKey.                                                    *)
RedisKey(r) == <<input[r].merchant, input[r].key>>

Keyed(r) == input[r].key # NoKey

(* What is stored with a completed entry: always a success, about a        *)
(* transaction as it was when the answer was written.                      *)
Stored     == [tx : Requests, snap : {"open", "completed", "failed", "refunded"}]
Absent     == [state |-> "absent"]
InProgress == [state |-> "in_progress"]
Completed  == [state : {"completed"}, stored : Stored]

(* The middleware tells only 2xx from the other status codes.  Create      *)
(* answers 201; its own checks, mapDomainError (an unknown error too) and  *)
(* writeError all answer with a code from 400 up.                          *)
NoAnswer == [code |-> "none"]
Success  == [code : {"2xx"}, stored : Stored]
Failure  == [code |-> "error"]

Steps == {"start", "check", "serve", "work", "store", "release", "ended"}

TypeOK ==
    /\ input \in [Requests -> [merchant : Merchants, key : Keys \cup {NoKey},
                               body : Bodies]]
    /\ row \in [Requests -> {"none", "open", "completed", "failed", "refunded"}]
    /\ entry \in [RedisKeys -> {Absent, InProgress} \cup Completed]
    /\ pc \in [Requests -> Steps]
    /\ tracked \subseteq Requests
    /\ answer \in [Requests -> {NoAnswer, Failure} \cup Success]
    /\ canceled \subseteq Requests
    /\ disturbed \subseteq RedisKeys

Init ==
    /\ input \in [Requests -> [merchant : Merchants, key : Keys \cup {NoKey},
                               body : Bodies]]
    /\ row = [r \in Requests |-> "none"]
    /\ entry = [k \in RedisKeys |-> Absent]
    /\ pc = [r \in Requests |-> "start"]
    /\ tracked = {}
    /\ answer = [r \in Requests |-> NoAnswer]
    /\ canceled = {}
    /\ disturbed = {}

-----------------------------------------------------------------------------
(* A Redis command under the request's context: carried out, carried out   *)
(* and reported as an error, or not carried out.                           *)
Outcomes(r) ==
    {o \in {"ok", "lost", "failed"} :
        IF o = "ok" THEN r \notin canceled ELSE r \in canceled \/ "redis" \in Faults}

Goto(r, step) == pc' = [pc EXCEPT ![r] = step]

Answer(r, a) == answer' = [answer EXCEPT ![r] = a]

(* RateLimit and APIKeyAuth: too many requests, no merchant, an inactive   *)
(* one, or on to the middleware.                                           *)
Admit(r) ==
    /\ pc[r] = "start"
    /\ \/ /\ Goto(r, "check")
          /\ UNCHANGED answer
       \/ /\ Answer(r, Failure)
          /\ Goto(r, "ended")
    /\ UNCHANGED <<requestVars, row, entry, tracked, disturbed>>

(* idempotency_check.lua: an absent entry becomes in_progress.             *)
Claimed(e) == IF e = Absent THEN InProgress ELSE e

(* Mutant of Proceeds: IN_PROGRESS is not told from PROCEED.               *)
ProceedsAnyway(e) == e \in {Absent, InProgress}

(* The script says PROCEED.                                                *)
Proceeds(e) == e = Absent

(* The middleware up to the call of the next handler: no key, the check    *)
(* fails (fail open), PROCEED, IN_PROGRESS, or COMPLETED with a replay of  *)
(* the stored answer, whatever the body of this request.                   *)
Check(r) ==
    /\ pc[r] = "check"
    /\ \/ /\ ~Keyed(r)
          /\ Goto(r, "serve")
          /\ UNCHANGED <<entry, tracked, answer, disturbed>>
       \/ /\ Keyed(r)
          /\ \E o \in Outcomes(r) \ {"ok"} :
                entry' = IF o = "failed" THEN entry
                         ELSE [entry EXCEPT ![RedisKey(r)] = Claimed(@)]
          /\ disturbed' = disturbed \cup {RedisKey(r)}
          /\ Goto(r, "serve")
          /\ UNCHANGED <<tracked, answer>>
       \/ /\ Keyed(r) /\ "ok" \in Outcomes(r)
          /\ Proceeds(entry[RedisKey(r)])
          /\ entry' = [entry EXCEPT ![RedisKey(r)] = Claimed(@)]
          /\ tracked' = tracked \cup {r}
          /\ Goto(r, "serve")
          /\ UNCHANGED <<answer, disturbed>>
       \/ /\ Keyed(r) /\ "ok" \in Outcomes(r)
          /\ ~Proceeds(entry[RedisKey(r)])
          /\ Answer(r, IF entry[RedisKey(r)] = InProgress THEN Failure
                       ELSE [code |-> "2xx", stored |-> entry[RedisKey(r)].stored])
          /\ Goto(r, "ended")
          /\ UNCHANGED <<entry, tracked, disturbed>>
    /\ UNCHANGED <<requestVars, row>>

-----------------------------------------------------------------------------
(* The Create handler and the service.                                     *)

(* Transactions of the request's key; keys are unique over all merchants.  *)
ByIdempotencyKey(r) ==
    {t \in Requests : Keyed(r) /\ row[t] # "none" /\ input[t].key = input[r].key}

(* Mutant of KeyFree: the database has no unique index.                    *)
KeyAlwaysFree(r) == TRUE

(* The unique index accepts the row.                                       *)
KeyFree(r) == ByIdempotencyKey(r) = {}

Matches(t, r) ==
    input[t].merchant = input[r].merchant /\ input[t].body = input[r].body

(* After the handler: a tracked success is stored, another answer releases *)
(* the key.                                                                *)
Next2xx(r) == IF r \in tracked THEN "store" ELSE "ended"
NextErr(r) == IF r \in tracked THEN "release" ELSE "ended"

(* Create and CreateTransaction up to the row: the request is refused or a *)
(* lookup fails; the key's transaction is found and is that of the same    *)
(* request, or not (or only the insertion meets it); or the row is there.  *)
Serve(r) ==
    /\ pc[r] = "serve"
    /\ \/ /\ Answer(r, Failure)
          /\ Goto(r, NextErr(r))
          /\ UNCHANGED row
       \/ \E t \in ByIdempotencyKey(r) :
             /\ Matches(t, r)
             /\ Answer(r, [code |-> "2xx", stored |-> [tx |-> t, snap |-> row[t]]])
             /\ Goto(r, Next2xx(r))
             /\ UNCHANGED row
       \/ /\ KeyFree(r)
          /\ row' = [row EXCEPT ![r] = "open"]
          /\ Goto(r, "work")
          /\ UNCHANGED answer
    /\ UNCHANGED <<requestVars, entry, tracked, disturbed>>

(* processPayment: approved and settled, or an error: the row stays as it  *)
(* is, it failed, or it is settled and only the COMMIT's reply was lost.   *)
Work(r) ==
    /\ pc[r] = "work"
    /\ \/ /\ row' = [row EXCEPT ![r] = "completed"]
          /\ Answer(r, [code |-> "2xx", stored |-> [tx |-> r, snap |-> "completed"]])
          /\ Goto(r, Next2xx(r))
       \/ /\ row' \in {row, [row EXCEPT ![r] = "failed"], [row EXCEPT ![r] = "completed"]}
          /\ Answer(r, Failure)
          /\ Goto(r, NextErr(r))
    /\ UNCHANGED <<requestVars, entry, tracked, disturbed>>

(* The Refund handler, which Redis does not see.                           *)
Refund(t) ==
    /\ row[t] = "completed"
    /\ row' = [row EXCEPT ![t] = "refunded"]
    /\ UNCHANGED <<requestVars, entry, pc, tracked, answer, disturbed>>

-----------------------------------------------------------------------------
(* The entry of a success.                                                 *)
CompletedBy(r) == [state |-> "completed", stored |-> answer[r].stored]

(* StoreCompleted: whoever owns the entry by now.  An error of it releases *)
(* the key.                                                                *)
StoreCompleted(r) ==
    /\ pc[r] = "store"
    /\ \E o \in Outcomes(r) :
          /\ entry' = IF o = "failed" THEN entry
                      ELSE [entry EXCEPT ![RedisKey(r)] = CompletedBy(r)]
          /\ Goto(r, IF o = "ok" THEN "ended" ELSE "release")
    /\ UNCHANGED <<requestVars, row, tracked, answer, disturbed>>

(* Release: DEL, whoever owns the entry.                                   *)
Release(r) ==
    /\ pc[r] = "release"
    /\ \E o \in Outcomes(r) :
          entry' = IF o = "failed" THEN entry
                   ELSE [entry EXCEPT ![RedisKey(r)] = Absent]
    /\ Goto(r, "ended")
    /\ UNCHANGED <<requestVars, row, tracked, answer, disturbed>>

(* A request that the entry of its key is there for.                       *)
Live(r) == r \in tracked /\ pc[r] # "ended"

(* The reply to a command is lost after Redis has carried it out, and the  *)
(* client sends the command again (go-redis does by default): the request  *)
(* stays at its step.  After a DEL the entry is gone and yet the request   *)
(* is not done with it.                                                    *)
Resend(r) ==
    /\ "redis" \in Faults
    /\ Keyed(r) /\ r \notin canceled
    /\ \/ /\ pc[r] = "check"
          /\ entry' = [entry EXCEPT ![RedisKey(r)] = Claimed(@)]
          /\ UNCHANGED disturbed
       \/ /\ pc[r] = "store"
          /\ entry' = [entry EXCEPT ![RedisKey(r)] = CompletedBy(r)]
          /\ UNCHANGED disturbed
       \/ /\ pc[r] = "release"
          /\ entry' = [entry EXCEPT ![RedisKey(r)] = Absent]
          /\ disturbed' = disturbed \cup {RedisKey(r)}
    /\ UNCHANGED <<requestVars, row, pc, tracked, answer>>

(* The TTL of an entry passes, or Redis loses it in a restart.             *)
Expire(k) ==
    /\ entry[k] # Absent
    /\ entry' = [entry EXCEPT ![k] = Absent]
    /\ disturbed' = IF \E r \in Requests : Live(r) /\ RedisKey(r) = k
                    THEN disturbed \cup {k} ELSE disturbed
    /\ UNCHANGED <<requestVars, row, pc, tracked, answer>>

(* A panic (Recovery answers 500) or the death of the process: nothing     *)
(* that follows in the handler is done.                                    *)
Crash(r) ==
    /\ "crash" \in Faults
    /\ pc[r] \notin {"start", "ended"}
    /\ Answer(r, Failure)
    /\ Goto(r, "ended")
    /\ UNCHANGED <<requestVars, row, entry, tracked, disturbed>>

Cancel(r) ==
    /\ "cancel" \in Faults
    /\ pc[r] \notin {"start", "ended"} /\ r \notin canceled
    /\ canceled' = canceled \cup {r}
    /\ UNCHANGED <<input, row, entry, pc, tracked, answer, disturbed>>

(* Every request is answered.                                              *)
Terminating ==
    /\ \A r \in Requests : pc[r] = "ended"
    /\ UNCHANGED vars

Handle(r) == Admit(r) \/ Check(r) \/ Serve(r) \/ Work(r) \/ StoreCompleted(r) \/ Release(r)

Next ==
    \/ \E r \in Requests : Handle(r) \/ Resend(r) \/ Crash(r) \/ Cancel(r) \/ Refund(r)
    \/ \E k \in RedisKeys : Expire(k)
    \/ Terminating

Spec == Init /\ [][Next]_vars

-----------------------------------------------------------------------------
(* Whatever Redis forgets, refuses or serves late, there is one            *)
(* transaction per key: "transient Redis loss does not corrupt payment     *)
(* correctness" (README.md:118).                                           *)
OneTransactionPerKey ==
    \A r1, r2 \in Requests :
        Keyed(r1) /\ input[r1].key = input[r2].key
            /\ row[r1] # "none" /\ row[r2] # "none" => r1 = r2

(* A success, replayed from Redis, replayed from the database or new, is   *)
(* about a transaction of the requesting merchant and of the key it sent;  *)
(* with OneTransactionPerKey, all successes for a key name the same one.   *)
SuccessIsOwn ==
    \A r \in Requests :
        answer[r].code = "2xx" =>
            LET t == answer[r].stored.tx
            IN  row[t] # "none" /\ input[t].merchant = input[r].merchant
                                /\ input[t].key = input[r].key

Executing(r) == pc[r] \in {"serve", "work"}

(* "The in_progress state blocks concurrent duplicate work"                *)
(* (README.md:112): two requests with one key execute at the same time     *)
(* only if an entry was lost before its request ended (the DEL of its own  *)
(* release included, when it is sent again), or a check failed: crashes,   *)
(* cancellations, failed stores and failed releases alone never let a      *)
(* release delete the entry of another request.                            *)
ExclusiveUnlessDisturbed ==
    \A r1, r2 \in Requests :
        r1 # r2 /\ Keyed(r1) /\ RedisKey(r1) = RedisKey(r2)
            /\ Executing(r1) /\ Executing(r2)
        => RedisKey(r1) \in disturbed

(* Unless the key was disturbed, the answer that is replayed for the next  *)
(* 24 hours shows no payment as pending that is decided: a snapshot of a   *)
(* payment that still ran when another request answered is not stored.     *)
CachedAnswerDecided ==
    \A k \in RedisKeys \ disturbed :
        entry[k] \notin {Absent, InProgress} /\ entry[k].stored.snap = "open"
            => row[entry[k].stored.tx] = "open"

(* "idempotency key reused with different request" is an error             *)
(* (service/payment.go:139): a success is about a request with the same    *)
(* contents.                                                               *)
ReuseRefused ==
    \A r \in Requests :
        answer[r].code = "2xx" => input[answer[r].stored.tx].body = input[r].body
=============================================================================
