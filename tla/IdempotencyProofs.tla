------------------------- MODULE IdempotencyProofs -------------------------
(***************************************************************************)
(* The invariants of Idempotency for any number of requests, merchants and *)
(* keys and any of the faults.                                             *)
(***************************************************************************)
EXTENDS Idempotency, TLAPS

-----------------------------------------------------------------------------
(* The inductive invariant.                                                *)

(* What the position of a request in the handler says about it.            *)
FlowInv ==
    \A r \in Requests :
        /\ r \in tracked => Keyed(r) /\ pc[r] \notin {"start", "check"}
        /\ pc[r] \in {"store", "release"} => r \in tracked
        /\ pc[r] = "store" => answer[r].code = "2xx"
        /\ pc[r] = "work" => row[r] = "open"
        /\ pc[r] \in {"start", "check", "serve"} => row[r] = "none"

(* A stored answer is about a transaction of the merchant and key.         *)
EntryInv ==
    \A k \in RedisKeys :
        entry[k] \notin {Absent, InProgress} =>
            row[entry[k].stored.tx] # "none" /\ RedisKey(entry[k].stored.tx) = k

(* An undisturbed key has one live request at most, and the entry of a     *)
(* live request is there; a request that executes without being tracked    *)
(* disturbed its key.                                                      *)
OwnerInv ==
    /\ \A r1, r2 \in Requests :
          Live(r1) /\ Live(r2) /\ RedisKey(r1) = RedisKey(r2)
              /\ RedisKey(r1) \notin disturbed => r1 = r2
    /\ \A r \in Requests :
          Live(r) /\ RedisKey(r) \notin disturbed =>
              /\ entry[RedisKey(r)] # Absent
              /\ pc[r] \notin {"store", "release"} => entry[RedisKey(r)] = InProgress
    /\ \A r \in Requests :
          Executing(r) /\ Keyed(r) /\ r \notin tracked => RedisKey(r) \in disturbed

(* An answer about to be stored is as CachedAnswerDecided wants it.        *)
StoreInv ==
    \A r \in Requests :
        pc[r] = "store" /\ RedisKey(r) \notin disturbed /\ answer[r].stored.snap = "open"
            => row[answer[r].stored.tx] = "open"

IInv ==
    /\ TypeOK
    /\ FlowInv
    /\ OneTransactionPerKey
    /\ SuccessIsOwn
    /\ EntryInv
    /\ OwnerInv
    /\ StoreInv
    /\ CachedAnswerDecided

-----------------------------------------------------------------------------
(* A key that was sent has an entry in Redis.                              *)
LEMMA KeyType ==
    ASSUME TypeOK, NEW r \in Requests, Keyed(r)
    PROVE  RedisKey(r) \in RedisKeys
BY DEF TypeOK, Keyed, RedisKey, RedisKeys

(* Entries and answers with contents are told from the others.             *)
LEMMA EntryType ==
    ASSUME TypeOK, NEW k \in RedisKeys, entry[k] \notin {Absent, InProgress}
    PROVE  /\ entry[k].stored \in Stored
           /\ entry[k].stored.tx \in Requests
BY DEF TypeOK, Completed, Stored

LEMMA AnswerType ==
    ASSUME TypeOK, NEW r \in Requests, answer[r].code = "2xx"
    PROVE  /\ answer[r].stored \in Stored
           /\ answer[r].stored.tx \in Requests
BY DEF TypeOK, NoAnswer, Failure, Success, Stored

LEMMA Distinct ==
    /\ Absent # InProgress
    /\ \A s : /\ [state |-> "completed", stored |-> s] \notin {Absent, InProgress}
              /\ [state |-> "completed", stored |-> s].stored = s
              /\ [code |-> "2xx", stored |-> s].code = "2xx"
              /\ [code |-> "2xx", stored |-> s].stored = s
    /\ \A s \in Stored : /\ [state |-> "completed", stored |-> s] \in Completed
                         /\ [code |-> "2xx", stored |-> s] \in Success
    /\ Failure.code # "2xx" /\ NoAnswer.code # "2xx"
BY DEF Absent, InProgress, Failure, NoAnswer, Completed, Success

LEMMA InitIInv == Init => IInv
<1> SUFFICES ASSUME Init PROVE IInv
    OBVIOUS
<1>1. TypeOK
    BY DEF Init, TypeOK, RedisKeys, Steps
<1>2. FlowInv /\ OneTransactionPerKey /\ OwnerInv /\ StoreInv
    BY DEF Init, FlowInv, OneTransactionPerKey, OwnerInv, StoreInv, Live, Executing
<1>3. SuccessIsOwn
    BY Distinct DEF Init, SuccessIsOwn
<1>4. EntryInv /\ CachedAnswerDecided
    BY DEF Init, EntryInv, CachedAnswerDecided
<1> QED
    BY <1>1, <1>2, <1>3, <1>4 DEF IInv

LEMMA AdmitIInv ==
    ASSUME IInv, NEW r \in Requests, Admit(r)
    PROVE  IInv'
<1> USE DEF IInv, Admit, Goto, Answer, requestVars
<1>1. TypeOK'
    BY DEF TypeOK, Steps
<1>2. FlowInv'
    BY DEF TypeOK, FlowInv, Keyed
<1>3. OneTransactionPerKey'
    BY DEF OneTransactionPerKey, Keyed
<1>4. SuccessIsOwn'
    <2>1. \A q \in Requests : answer'[q] = answer[q] \/ answer'[q] = Failure
        BY DEF TypeOK
    <2> QED
        BY <2>1, Distinct DEF SuccessIsOwn
<1>5. EntryInv' /\ CachedAnswerDecided'
    BY DEF EntryInv, CachedAnswerDecided, RedisKey
<1>6. OwnerInv'
    BY DEF TypeOK, FlowInv, OwnerInv, Live, Executing, Keyed, RedisKey
<1>7. StoreInv'
    BY DEF TypeOK, StoreInv, RedisKey
<1> QED
    BY <1>1, <1>2, <1>3, <1>4, <1>5, <1>6, <1>7

LEMMA CheckIInv ==
    ASSUME IInv, NEW r \in Requests, Check(r)
    PROVE  IInv'
<1> USE DEF IInv, Goto, Answer, requestVars
<1>0. /\ pc[r] = "check" /\ pc \in [Requests -> Steps]
      /\ UNCHANGED <<input, canceled, row>>
      /\ r \notin tracked /\ tracked \subseteq Requests
    BY DEF Check, TypeOK, FlowInv
<1>1. CASE ~Keyed(r) /\ Goto(r, "serve") /\ UNCHANGED <<entry, tracked, answer, disturbed>>
    <2>1. TypeOK'
        BY <1>0, <1>1 DEF TypeOK, Steps
    <2>2. FlowInv' /\ OneTransactionPerKey' /\ SuccessIsOwn' /\ EntryInv' /\ CachedAnswerDecided'
        BY <1>0, <1>1 DEF FlowInv, OneTransactionPerKey, SuccessIsOwn, EntryInv,
            CachedAnswerDecided, Keyed, RedisKey
    <2>3. OwnerInv' /\ StoreInv'
        BY <1>0, <1>1 DEF OwnerInv, StoreInv, Live, Executing, Keyed, RedisKey
    <2> QED
        BY <2>1, <2>2, <2>3
<1>2. CASE /\ Keyed(r)
           /\ entry' \in {entry, [entry EXCEPT ![RedisKey(r)] = Claimed(@)]}
           /\ disturbed' = disturbed \cup {RedisKey(r)}
           /\ Goto(r, "serve")
           /\ UNCHANGED <<tracked, answer>>
    <2>0. RedisKey(r) \in RedisKeys
        BY <1>2, KeyType
    <2>1. TypeOK'
        BY <1>0, <1>2, <2>0 DEF TypeOK, Steps, Claimed
    <2>2. \A k \in RedisKeys :
              entry'[k] = entry[k] \/ (k = RedisKey(r) /\ entry'[k] = InProgress)
        <3>1. CASE entry' = entry
            BY <3>1
        <3>2. CASE entry' = [entry EXCEPT ![RedisKey(r)] = Claimed(@)]
            BY <3>2, <2>0 DEF TypeOK, Claimed
        <3> QED
            BY <1>2, <3>1, <3>2
    <2>3. FlowInv' /\ OneTransactionPerKey' /\ SuccessIsOwn'
        BY <1>0, <1>2 DEF FlowInv, OneTransactionPerKey, SuccessIsOwn, Keyed
    <2>4. EntryInv' /\ CachedAnswerDecided'
        BY <1>0, <1>2, <2>2 DEF EntryInv, CachedAnswerDecided, RedisKey
    <2>5. OwnerInv'
        <3>1. \A q \in Requests : Live(q)' => Live(q) /\ pc'[q] = pc[q] /\ q # r
            BY <1>0, <1>2 DEF Live
        <3>2. \A q \in Requests : RedisKey(q)' = RedisKey(q) /\ Keyed(q)' = Keyed(q)
            BY <1>0 DEF RedisKey, Keyed
        <3>3. \A q \in Requests : Live(q) => RedisKey(q) \in RedisKeys
            BY KeyType DEF FlowInv, Live
        <3>4. \A q \in Requests :
                  Executing(q)' => q = r \/ Executing(q)
            BY <1>0, <1>2 DEF Executing
        <3> QED
            BY <1>2, <2>2, <3>1, <3>2, <3>3, <3>4 DEF OwnerInv
    <2>6. StoreInv'
        BY <1>0, <1>2 DEF StoreInv, RedisKey
    <2> QED
        BY <2>1, <2>3, <2>4, <2>5, <2>6
<1>3. CASE /\ Keyed(r)
           /\ Proceeds(entry[RedisKey(r)])
           /\ entry' = [entry EXCEPT ![RedisKey(r)] = Claimed(@)]
           /\ tracked' = tracked \cup {r}
           /\ Goto(r, "serve")
           /\ UNCHANGED <<answer, disturbed>>
    <2>0. RedisKey(r) \in RedisKeys /\ entry[RedisKey(r)] = Absent
        BY <1>3, KeyType DEF Proceeds
    <2>1. TypeOK'
        BY <1>0, <1>3, <2>0 DEF TypeOK, Steps, Claimed
    <2>2. /\ entry'[RedisKey(r)] = InProgress
          /\ \A k \in RedisKeys : k # RedisKey(r) => entry'[k] = entry[k]
        BY <1>3, <2>0 DEF TypeOK, Claimed
    <2>3. FlowInv' /\ OneTransactionPerKey' /\ SuccessIsOwn'
        BY <1>0, <1>3 DEF FlowInv, OneTransactionPerKey, SuccessIsOwn, Keyed
    <2>4. EntryInv' /\ CachedAnswerDecided'
        BY <1>0, <1>3, <2>2 DEF EntryInv, CachedAnswerDecided, RedisKey
    <2>5. OwnerInv'
        <3>1. \A q \in Requests : Live(q)' => q = r \/ (Live(q) /\ pc'[q] = pc[q] /\ q # r)
            <4>1. \A q \in Requests : q # r => pc'[q] = pc[q] /\ (q \in tracked' => q \in tracked)
                BY <1>0, <1>3
            <4> QED
                BY <4>1 DEF Live
        <3>2. \A q \in Requests : RedisKey(q)' = RedisKey(q) /\ Keyed(q)' = Keyed(q)
            BY <1>0 DEF RedisKey, Keyed
        <3>3. \A q \in Requests : Live(q) => RedisKey(q) \in RedisKeys
            BY KeyType DEF FlowInv, Live
        <3>4. \A q \in Requests : Executing(q)' => q = r \/ Executing(q)
            BY <1>0, <1>3 DEF Executing
        <3>5. \A q \in Requests :
                  Live(q) /\ RedisKey(q) = RedisKey(r) => RedisKey(r) \in disturbed
            BY <2>0 DEF OwnerInv
        <3> QED
            BY <1>0, <1>3, <2>2, <3>1, <3>2, <3>3, <3>4, <3>5, Distinct DEF OwnerInv
    <2>6. StoreInv'
        BY <1>0, <1>3 DEF StoreInv, RedisKey
    <2> QED
        BY <2>1, <2>3, <2>4, <2>5, <2>6
<1>4. CASE /\ Keyed(r)
           /\ ~Proceeds(entry[RedisKey(r)])
           /\ Answer(r, IF entry[RedisKey(r)] = InProgress THEN Failure
                        ELSE [code |-> "2xx", stored |-> entry[RedisKey(r)].stored])
           /\ Goto(r, "ended")
           /\ UNCHANGED <<entry, tracked, disturbed>>
    <2>0. RedisKey(r) \in RedisKeys /\ entry[RedisKey(r)] # Absent
        BY <1>4, KeyType DEF Proceeds
    <2>1. CASE entry[RedisKey(r)] = InProgress
        <3>0. answer' = [answer EXCEPT ![r] = Failure]
            BY <1>4, <2>1
        <3>1. TypeOK'
            BY <1>0, <1>4, <3>0 DEF TypeOK, Steps
        <3>2. SuccessIsOwn'
            BY <1>0, <3>0, Distinct DEF TypeOK, SuccessIsOwn
        <3>3. FlowInv' /\ OneTransactionPerKey' /\ EntryInv' /\ CachedAnswerDecided'
            BY <1>0, <1>4, <3>0 DEF TypeOK, FlowInv, OneTransactionPerKey, EntryInv,
                CachedAnswerDecided, Keyed, RedisKey
        <3>4. OwnerInv' /\ StoreInv'
            BY <1>0, <1>4, <3>0 DEF TypeOK, OwnerInv, StoreInv, Live, Executing, Keyed, RedisKey
        <3> QED
            BY <3>1, <3>2, <3>3, <3>4
    <2>2. CASE entry[RedisKey(r)] # InProgress
        <3> DEFINE s == entry[RedisKey(r)].stored
        <3>0. /\ answer' = [answer EXCEPT ![r] = [code |-> "2xx", stored |-> s]]
              /\ s \in Stored /\ s.tx \in Requests
            BY <1>4, <2>0, <2>2, EntryType
        <3>5. row[s.tx] # "none" /\ RedisKey(s.tx) = RedisKey(r)
            BY <2>0, <2>2 DEF EntryInv
        <3> HIDE DEF s
        <3>1. TypeOK'
            <4>1. [code |-> "2xx", stored |-> s] \in Success
                BY <3>0, Distinct
            <4>2. answer' \in [Requests -> {NoAnswer, Failure} \cup Success]
                BY <3>0, <4>1 DEF TypeOK
            <4> QED
                BY <1>0, <1>4, <4>2 DEF TypeOK, Steps
        <3>2. SuccessIsOwn'
            <4> SUFFICES ASSUME NEW q \in Requests, answer'[q].code = "2xx"
                         PROVE  /\ row[answer'[q].stored.tx] # "none"
                                /\ input[answer'[q].stored.tx].merchant = input[q].merchant
                                /\ input[answer'[q].stored.tx].key = input[q].key
                BY <1>0 DEF SuccessIsOwn
            <4>1. CASE q = r
                BY <4>1, <3>0, <3>5, Distinct DEF TypeOK, RedisKey
            <4>2. CASE q # r
                BY <4>2, <3>0 DEF TypeOK, SuccessIsOwn
            <4> QED
                BY <4>1, <4>2
        <3>3. FlowInv' /\ OneTransactionPerKey' /\ EntryInv' /\ CachedAnswerDecided'
            BY <1>0, <1>4, <3>0 DEF TypeOK, FlowInv, OneTransactionPerKey, EntryInv,
                CachedAnswerDecided, Keyed, RedisKey
        <3>4. OwnerInv' /\ StoreInv'
            BY <1>0, <1>4, <3>0 DEF TypeOK, OwnerInv, StoreInv, Live, Executing, Keyed, RedisKey
        <3> QED
            BY <3>1, <3>2, <3>3, <3>4
    <2> QED
        BY <2>1, <2>2
<1> QED
    BY <1>1, <1>2, <1>3, <1>4 DEF Check

(* A row of an undisturbed key is decided only by its request, while the   *)
(* entry is in progress and no other request of the key is live: an answer *)
(* stored or about to be stored is about another transaction.              *)
LEMMA DecidesAlone ==
    ASSUME IInv, NEW r \in Requests, pc[r] = "work"
    PROVE  /\ \A k \in RedisKeys \ disturbed :
                 entry[k] \notin {Absent, InProgress} => entry[k].stored.tx # r
           /\ \A q \in Requests :
                 pc[q] = "store" /\ RedisKey(q) \notin disturbed => answer[q].stored.tx # r
<1> USE DEF IInv
<1>1. ASSUME NEW k \in RedisKeys \ disturbed,
             entry[k] \notin {Absent, InProgress}, entry[k].stored.tx = r
      PROVE  FALSE
    <2>1. RedisKey(r) = k
        BY <1>1 DEF EntryInv
    <2>2. Keyed(r)
        BY <2>1, KeysAssumption DEF RedisKey, RedisKeys, Keyed
    <2>3. Live(r)
        BY <1>1, <2>1, <2>2 DEF OwnerInv, Executing, Live
    <2> QED
        BY <1>1, <2>1, <2>3 DEF OwnerInv
<1>2. ASSUME NEW q \in Requests, pc[q] = "store", RedisKey(q) \notin disturbed,
             answer[q].stored.tx = r
      PROVE  FALSE
    <2>1. RedisKey(r) = RedisKey(q) /\ Keyed(r) /\ Live(q)
        BY <1>2 DEF FlowInv, SuccessIsOwn, RedisKey, Keyed, Live
    <2>2. Live(r)
        BY <1>2, <2>1 DEF OwnerInv, Executing, Live
    <2> QED
        BY <1>2, <2>1, <2>2 DEF OwnerInv
<1> QED
    BY <1>1, <1>2

LEMMA ServeIInv ==
    ASSUME IInv, NEW r \in Requests, Serve(r)
    PROVE  IInv'
<1> USE DEF IInv, Goto, Answer, requestVars
<1>0. /\ pc[r] = "serve" /\ pc \in [Requests -> Steps]
      /\ UNCHANGED <<input, canceled, entry, tracked, disturbed>>
      /\ row[r] = "none" /\ row \in [Requests -> {"none", "open", "completed", "failed", "refunded"}]
    BY DEF Serve, TypeOK, FlowInv
<1>1. CASE Answer(r, Failure) /\ Goto(r, NextErr(r)) /\ UNCHANGED row
    <2>0. NextErr(r) = IF r \in tracked THEN "release" ELSE "ended"
        BY DEF NextErr
    <2>1. TypeOK'
        BY <1>0, <1>1, <2>0 DEF TypeOK, Steps
    <2>2. SuccessIsOwn'
        <3>1. \A q \in Requests : answer'[q] = answer[q] \/ answer'[q] = Failure
            BY <1>1 DEF TypeOK
        <3> QED
            BY <1>0, <1>1, <3>1, Distinct DEF SuccessIsOwn
    <2>3. FlowInv' /\ OneTransactionPerKey' /\ EntryInv' /\ CachedAnswerDecided'
        BY <1>0, <1>1, <2>0 DEF TypeOK, FlowInv, OneTransactionPerKey, EntryInv,
            CachedAnswerDecided, Keyed, RedisKey
    <2>4. OwnerInv' /\ StoreInv'
        BY <1>0, <1>1, <2>0 DEF TypeOK, OwnerInv, StoreInv, Live, Executing, Keyed, RedisKey
    <2> QED
        BY <2>1, <2>2, <2>3, <2>4
<1>2. ASSUME NEW t \in ByIdempotencyKey(r),
             Matches(t, r),
             Answer(r, [code |-> "2xx", stored |-> [tx |-> t, snap |-> row[t]]]),
             Goto(r, Next2xx(r)),
             UNCHANGED row
      PROVE  IInv'
    <2> DEFINE s == [tx |-> t, snap |-> row[t]]
    <2>0. Next2xx(r) = IF r \in tracked THEN "store" ELSE "ended"
        BY DEF Next2xx
    <2>1. /\ t \in Requests /\ row[t] # "none"
          /\ RedisKey(t) = RedisKey(r) /\ input[t].merchant = input[r].merchant
          /\ input[t].key = input[r].key
        BY <1>2 DEF ByIdempotencyKey, Matches, RedisKey
    <2>2. s \in Stored /\ s.tx = t /\ s.snap = row[t]
        BY <1>0, <2>1 DEF Stored
    <2>3. answer' = [answer EXCEPT ![r] = [code |-> "2xx", stored |-> s]]
        BY <1>2
    <2> HIDE DEF s
    <2>4. /\ answer'[r].code = "2xx" /\ answer'[r].stored = s
          /\ \A q \in Requests : q # r => answer'[q] = answer[q]
        BY <2>3, Distinct DEF TypeOK
    <2>5. TypeOK'
        <3>1. [code |-> "2xx", stored |-> s] \in Success
            BY <2>2, Distinct
        <3>2. answer' \in [Requests -> {NoAnswer, Failure} \cup Success]
            BY <2>3, <3>1 DEF TypeOK
        <3> QED
            BY <1>0, <1>2, <2>0, <3>2 DEF TypeOK, Steps
    <2>6. SuccessIsOwn'
        BY <1>0, <1>2, <2>1, <2>2, <2>4 DEF SuccessIsOwn
    <2>7. FlowInv' /\ OneTransactionPerKey' /\ EntryInv' /\ CachedAnswerDecided'
        BY <1>0, <1>2, <2>0, <2>4 DEF FlowInv, OneTransactionPerKey, EntryInv,
            CachedAnswerDecided, Keyed, RedisKey
    <2>8. OwnerInv'
        BY <1>0, <1>2, <2>0 DEF OwnerInv, Live, Executing, Keyed, RedisKey
    <2>9. StoreInv'
        BY <1>0, <1>2, <2>1, <2>2, <2>4 DEF StoreInv, RedisKey
    <2> QED
        BY <2>5, <2>6, <2>7, <2>8, <2>9
<1>3. CASE /\ KeyFree(r)
           /\ row' = [row EXCEPT ![r] = "open"]
           /\ Goto(r, "work")
           /\ UNCHANGED answer
    <2>1. TypeOK'
        BY <1>0, <1>3 DEF TypeOK, Steps
    <2>2. /\ row'[r] = "open" /\ pc'[r] = "work"
          /\ \A q \in Requests : q # r => row'[q] = row[q] /\ pc'[q] = pc[q]
        BY <1>0, <1>3
    <2>3. OneTransactionPerKey'
        BY <1>0, <1>3, <2>2 DEF OneTransactionPerKey, KeyFree, ByIdempotencyKey, Keyed
    <2>4. SuccessIsOwn'
        BY <1>0, <1>3, <2>2, AnswerType DEF SuccessIsOwn
    <2>5. FlowInv' /\ OwnerInv'
        BY <1>0, <1>3, <2>2 DEF FlowInv, OwnerInv, Live, Executing, Keyed, RedisKey
    <2>6. EntryInv' /\ CachedAnswerDecided'
        <3>1. \A k \in RedisKeys : entry[k] \notin {Absent, InProgress} =>
                  entry[k].stored.tx \in Requests /\ entry[k].stored.tx # r
            BY <1>0, EntryType DEF EntryInv
        <3> QED
            BY <1>0, <2>2, <3>1 DEF EntryInv, CachedAnswerDecided, RedisKey
    <2>7. StoreInv'
        <3>1. \A q \in Requests : pc[q] = "store" =>
                  answer[q].stored.tx \in Requests /\ answer[q].stored.tx # r
            BY <1>0, AnswerType DEF FlowInv, SuccessIsOwn
        <3> QED
            BY <1>0, <1>3, <2>2, <3>1 DEF StoreInv, RedisKey
    <2> QED
        BY <2>1, <2>3, <2>4, <2>5, <2>6, <2>7
<1> QED
    BY <1>1, <1>2, <1>3 DEF Serve

LEMMA WorkIInv ==
    ASSUME IInv, NEW r \in Requests, Work(r)
    PROVE  IInv'
<1> USE DEF IInv, Goto, Answer, requestVars
<1>0. /\ pc[r] = "work" /\ pc \in [Requests -> Steps]
      /\ UNCHANGED <<input, canceled, entry, tracked, disturbed>>
      /\ row[r] = "open"
      /\ row \in [Requests -> {"none", "open", "completed", "failed", "refunded"}]
    BY DEF Work, TypeOK, FlowInv
<1>1. PICK st \in {"open", "completed", "failed"}, next \in {"store", "release", "ended"} :
          /\ row' = [row EXCEPT ![r] = st]
          /\ pc' = [pc EXCEPT ![r] = next]
          /\ next = "ended" \/ r \in tracked
          /\ \/ /\ answer' = [answer EXCEPT ![r] = [code |-> "2xx", stored |-> [tx |-> r, snap |-> "completed"]]]
                /\ next # "release"
             \/ /\ answer' = [answer EXCEPT ![r] = Failure]
                /\ next # "store"
    <2>1. CASE row' = [row EXCEPT ![r] = "completed"]
        BY <2>1, <1>0 DEF Work, Next2xx, NextErr
    <2>2. CASE row' \in {row, [row EXCEPT ![r] = "failed"]} /\ Answer(r, Failure) /\ Goto(r, NextErr(r))
        <3>1. row' = [row EXCEPT ![r] = "open"] \/ row' = [row EXCEPT ![r] = "failed"]
            BY <2>2, <1>0
        <3> QED
            BY <2>2, <3>1, <1>0 DEF NextErr
    <2> QED
        BY <2>1, <2>2 DEF Work
<1>2. /\ row'[r] = st /\ pc'[r] = next
      /\ \A q \in Requests : q # r => row'[q] = row[q] /\ pc'[q] = pc[q]
    BY <1>0, <1>1
<1> DEFINE s == [tx |-> r, snap |-> "completed"]
<1>3. s \in Stored /\ s.tx = r /\ s.snap = "completed"
    BY DEF Stored
<1>4. /\ answer' = [answer EXCEPT ![r] = [code |-> "2xx", stored |-> s]] \/ answer' = [answer EXCEPT ![r] = Failure]
      /\ next = "store" => answer' = [answer EXCEPT ![r] = [code |-> "2xx", stored |-> s]]
    BY <1>1
<1> HIDE DEF s
<1>5. /\ \A q \in Requests : q # r => answer'[q] = answer[q]
      /\ \/ answer'[r] = Failure /\ next # "store"
         \/ answer'[r].code = "2xx" /\ answer'[r].stored = s
    BY <1>1, <1>4, Distinct DEF TypeOK
<1>6. TypeOK'
    <2>1. [code |-> "2xx", stored |-> s] \in Success
        BY <1>3, Distinct
    <2>2. answer' \in [Requests -> {NoAnswer, Failure} \cup Success]
        BY <1>4, <2>1 DEF TypeOK
    <2> QED
        BY <1>0, <1>1, <2>2 DEF TypeOK, Steps
<1>7. OneTransactionPerKey'
    BY <1>0, <1>2 DEF OneTransactionPerKey, Keyed
<1>8. SuccessIsOwn'
    <2> SUFFICES ASSUME NEW q \in Requests, answer'[q].code = "2xx"
                 PROVE  /\ row'[answer'[q].stored.tx] # "none"
                        /\ input[answer'[q].stored.tx].merchant = input[q].merchant
                        /\ input[answer'[q].stored.tx].key = input[q].key
        BY <1>0 DEF SuccessIsOwn
    <2>1. CASE q = r
        BY <2>1, <1>2, <1>3, <1>5, Distinct
    <2>2. CASE q # r
        BY <2>2, <1>0, <1>2, <1>5, AnswerType DEF SuccessIsOwn
    <2> QED
        BY <2>1, <2>2
<1>9. FlowInv'
    BY <1>0, <1>1, <1>2, <1>5 DEF FlowInv, Keyed
<1>10. OwnerInv'
    <2>1. \A q \in Requests : (Live(q)' => Live(q)) /\ (Executing(q)' => Executing(q))
        BY <1>0, <1>2 DEF Live, Executing
    <2>2. \A q \in Requests : RedisKey(q)' = RedisKey(q) /\ Keyed(q)' = Keyed(q)
        BY <1>0 DEF RedisKey, Keyed
    <2>3. \A q \in Requests : pc[q] \in {"store", "release"} => pc'[q] = pc[q]
        BY <1>0, <1>2
    <2> QED
        BY <1>0, <2>1, <2>2, <2>3 DEF OwnerInv
<1>11. EntryInv' /\ CachedAnswerDecided'
    BY <1>0, <1>2, EntryType, DecidesAlone DEF EntryInv, CachedAnswerDecided, RedisKey
<1>12. StoreInv'
    <2>1. \A q \in Requests : pc[q] = "store" =>
              answer[q].stored.tx \in Requests
        BY AnswerType DEF FlowInv
    <2>2. pc'[r] = "store" => answer'[r].stored.snap # "open"
        BY <1>2, <1>3, <1>5
    <2>3. \A q \in Requests : RedisKey(q)' = RedisKey(q)
        BY <1>0 DEF RedisKey
    <2> QED
        BY <1>0, <1>2, <1>5, <2>1, <2>2, <2>3, DecidesAlone DEF StoreInv
<1> QED
    BY <1>6, <1>7, <1>8, <1>9, <1>10, <1>11, <1>12

LEMMA RefundIInv ==
    ASSUME IInv, NEW t \in Requests, Refund(t)
    PROVE  IInv'
<1> USE DEF IInv, requestVars
<1>0. /\ UNCHANGED <<input, canceled, entry, pc, tracked, answer, disturbed>>
      /\ row[t] = "completed" /\ row' = [row EXCEPT ![t] = "refunded"]
    BY DEF Refund
<1>1. TypeOK'
    BY <1>0 DEF TypeOK
<1>2. /\ row'[t] = "refunded"
      /\ \A q \in Requests : q # t => row'[q] = row[q]
    BY <1>0 DEF TypeOK
<1>3. FlowInv' /\ OneTransactionPerKey'
    BY <1>0, <1>2 DEF FlowInv, OneTransactionPerKey, Keyed
<1>4. SuccessIsOwn'
    BY <1>0, <1>2, AnswerType DEF SuccessIsOwn
<1>5. OwnerInv'
    BY <1>0 DEF OwnerInv, Live, Executing, Keyed, RedisKey
<1>6. EntryInv' /\ CachedAnswerDecided'
    BY <1>0, <1>2, EntryType DEF EntryInv, CachedAnswerDecided, RedisKey
<1>7. StoreInv'
    BY <1>0, <1>2, AnswerType DEF FlowInv, StoreInv, RedisKey
<1> QED
    BY <1>1, <1>3, <1>4, <1>5, <1>6, <1>7

(* The entry is replaced and the request ends or goes on to its release.   *)
LEMMA StoreCompletedIInv ==
    ASSUME IInv, NEW r \in Requests, StoreCompleted(r)
    PROVE  IInv'
<1> USE DEF IInv, Goto, requestVars
<1>0. /\ pc[r] = "store" /\ pc \in [Requests -> Steps]
      /\ UNCHANGED <<input, canceled, row, tracked, answer, disturbed>>
      /\ r \in tracked /\ Keyed(r) /\ answer[r].code = "2xx"
    BY DEF StoreCompleted, TypeOK, FlowInv
<1> DEFINE s == answer[r].stored
<1>1. /\ RedisKey(r) \in RedisKeys /\ s \in Stored /\ s.tx \in Requests
      /\ row[s.tx] # "none" /\ RedisKey(s.tx) = RedisKey(r)
    BY <1>0, KeyType, AnswerType DEF SuccessIsOwn, RedisKey
<1>2. PICK next \in {"release", "ended"} :
          /\ \/ entry' = entry
             \/ entry' = [entry EXCEPT ![RedisKey(r)] = [state |-> "completed", stored |-> s]]
          /\ pc' = [pc EXCEPT ![r] = next]
    BY <1>0 DEF StoreCompleted, CompletedBy
<1>3. RedisKey(r) \notin disturbed /\ s.snap = "open" => row[s.tx] = "open"
    BY <1>0 DEF StoreInv
<1> HIDE DEF s
<1>4. \A k \in RedisKeys :
          \/ entry'[k] = entry[k]
          \/ /\ k = RedisKey(r)
             /\ entry'[k] \notin {Absent, InProgress} /\ entry'[k].stored = s
    BY <1>1, <1>2, Distinct DEF TypeOK
<1>5. /\ pc'[r] = next
      /\ \A q \in Requests : q # r => pc'[q] = pc[q]
    BY <1>0, <1>2
<1>6. TypeOK'
    <2>1. [state |-> "completed", stored |-> s] \in Completed
        BY <1>1, Distinct
    <2>2. entry' \in [RedisKeys -> {Absent, InProgress} \cup Completed]
        BY <1>2, <2>1 DEF TypeOK
    <2> QED
        BY <1>0, <1>2, <2>2 DEF TypeOK, Steps
<1>7. FlowInv' /\ OneTransactionPerKey' /\ SuccessIsOwn'
    BY <1>0, <1>5 DEF FlowInv, OneTransactionPerKey, SuccessIsOwn, Keyed
<1>8. EntryInv' /\ CachedAnswerDecided'
    BY <1>0, <1>1, <1>3, <1>4 DEF EntryInv, CachedAnswerDecided, RedisKey
<1>9. OwnerInv'
    <2>1. Live(r) /\ \A q \in Requests :
              /\ Live(q)' => Live(q)
              /\ Executing(q)' => Executing(q)
        BY <1>0, <1>5 DEF Live, Executing
    <2>2. \A q \in Requests : RedisKey(q)' = RedisKey(q) /\ Keyed(q)' = Keyed(q)
        BY <1>0 DEF RedisKey, Keyed
    <2>3. \A q \in Requests : Live(q) => RedisKey(q) \in RedisKeys
        BY KeyType DEF FlowInv, Live
    <2>4. pc'[r] # "release" => ~Live(r)'
        BY <1>5 DEF Live
    <2> QED
        BY <1>0, <1>4, <1>5, <2>1, <2>2, <2>3, <2>4 DEF OwnerInv
<1>10. StoreInv'
    BY <1>0, <1>5 DEF StoreInv, RedisKey
<1> QED
    BY <1>6, <1>7, <1>8, <1>9, <1>10

(* The entry is deleted or not, and the request ends.                      *)
LEMMA ReleaseIInv ==
    ASSUME IInv, NEW r \in Requests, Release(r)
    PROVE  IInv'
<1> USE DEF IInv, Goto, requestVars
<1>0. /\ pc[r] = "release" /\ pc \in [Requests -> Steps]
      /\ UNCHANGED <<input, canceled, row, tracked, answer, disturbed>>
      /\ r \in tracked /\ Keyed(r)
      /\ pc' = [pc EXCEPT ![r] = "ended"]
      /\ \/ entry' = entry
         \/ entry' = [entry EXCEPT ![RedisKey(r)] = Absent]
    BY DEF Release, TypeOK, FlowInv
<1>1. RedisKey(r) \in RedisKeys
    BY <1>0, KeyType
<1>2. \A k \in RedisKeys :
          entry'[k] = entry[k] \/ (k = RedisKey(r) /\ entry'[k] = Absent)
    BY <1>0, <1>1 DEF TypeOK
<1>3. /\ pc'[r] = "ended"
      /\ \A q \in Requests : q # r => pc'[q] = pc[q]
    BY <1>0
<1>4. TypeOK'
    BY <1>0, <1>1 DEF TypeOK, Steps
<1>5. FlowInv' /\ OneTransactionPerKey' /\ SuccessIsOwn'
    BY <1>0, <1>3 DEF FlowInv, OneTransactionPerKey, SuccessIsOwn, Keyed
<1>6. EntryInv' /\ CachedAnswerDecided'
    BY <1>0, <1>2 DEF EntryInv, CachedAnswerDecided, RedisKey
<1>7. OwnerInv'
    <2>1. Live(r) /\ ~Live(r)' /\ \A q \in Requests :
              /\ Live(q)' => Live(q) /\ pc'[q] = pc[q]
              /\ Executing(q)' => Executing(q)
        BY <1>0, <1>3 DEF Live, Executing
    <2>2. \A q \in Requests : RedisKey(q)' = RedisKey(q) /\ Keyed(q)' = Keyed(q)
        BY <1>0 DEF RedisKey, Keyed
    <2>3. \A q \in Requests : Live(q) => RedisKey(q) \in RedisKeys
        BY KeyType DEF FlowInv, Live
    <2> QED
        BY <1>0, <1>2, <2>1, <2>2, <2>3 DEF OwnerInv
<1>8. StoreInv'
    BY <1>0, <1>3 DEF StoreInv, RedisKey
<1> QED
    BY <1>4, <1>5, <1>6, <1>7, <1>8

(* A command is carried out and sent again: an entry is claimed that has   *)
(* no owner, the answer is stored, or the entry of a disturbed key is gone.*)
LEMMA ResendIInv ==
    ASSUME IInv, NEW r \in Requests, Resend(r)
    PROVE  IInv'
<1> USE DEF IInv, requestVars
<1>0. /\ UNCHANGED <<input, canceled, row, pc, tracked, answer>>
      /\ Keyed(r) /\ RedisKey(r) \in RedisKeys
    BY KeyType DEF Resend
<1> DEFINE k == RedisKey(r)
<1>1. /\ disturbed' \in SUBSET RedisKeys
      /\ disturbed \subseteq disturbed'
      /\ \A j \in RedisKeys : j # k => entry'[j] = entry[j]
      /\ \/ /\ pc[r] = "check"
            /\ entry'[k] = Claimed(entry[k]) /\ disturbed' = disturbed
         \/ /\ pc[r] = "store"
            /\ entry'[k] = CompletedBy(r) /\ disturbed' = disturbed
         \/ entry'[k] = Absent /\ k \in disturbed'
    BY <1>0 DEF Resend, TypeOK
<1>2. pc[r] = "store" =>
          /\ CompletedBy(r) \in Completed
          /\ CompletedBy(r) \notin {Absent, InProgress}
          /\ CompletedBy(r).stored = answer[r].stored
          /\ row[answer[r].stored.tx] # "none" /\ RedisKey(answer[r].stored.tx) = k
    <2> SUFFICES ASSUME pc[r] = "store"
                 PROVE  /\ CompletedBy(r) \in Completed
                        /\ CompletedBy(r) \notin {Absent, InProgress}
                        /\ CompletedBy(r).stored = answer[r].stored
                        /\ row[answer[r].stored.tx] # "none" /\ RedisKey(answer[r].stored.tx) = k
        OBVIOUS
    <2>1. answer[r].code = "2xx" /\ answer[r].stored \in Stored
        BY AnswerType DEF FlowInv
    <2> QED
        BY <2>1, Distinct DEF CompletedBy, SuccessIsOwn, RedisKey
<1>3. \A q \in Requests : /\ Live(q)' = Live(q) /\ Executing(q)' = Executing(q)
                          /\ RedisKey(q)' = RedisKey(q) /\ Keyed(q)' = Keyed(q)
    BY <1>0 DEF Live, Executing, RedisKey, Keyed
<1>4. \A q \in Requests : Live(q) => RedisKey(q) \in RedisKeys
    BY KeyType DEF FlowInv, Live
<1> HIDE DEF k
<1>5. TypeOK'
    <2>1. entry'[k] \in {Absent, InProgress} \cup Completed
        BY <1>0, <1>1, <1>2 DEF TypeOK, Claimed, k
    <2>2. entry' \in [RedisKeys -> {Absent, InProgress} \cup Completed]
        <3>1. DOMAIN entry' = RedisKeys /\ entry' = [j \in RedisKeys |-> entry'[j]]
            BY <1>0 DEF Resend, TypeOK
        <3> QED
            BY <1>1, <2>1, <3>1 DEF TypeOK
    <2> QED
        BY <1>0, <1>1, <2>2 DEF TypeOK
<1>6. FlowInv' /\ OneTransactionPerKey' /\ SuccessIsOwn'
    BY <1>0 DEF FlowInv, OneTransactionPerKey, SuccessIsOwn, Keyed
<1>7. EntryInv'
    BY <1>0, <1>1, <1>2, <1>3 DEF EntryInv, Claimed, RedisKey
<1>8. CachedAnswerDecided'
    <2> SUFFICES ASSUME NEW j \in RedisKeys \ disturbed',
                        entry'[j] \notin {Absent, InProgress}, entry'[j].stored.snap = "open"
                 PROVE  row[entry'[j].stored.tx] = "open"
        BY <1>0 DEF CachedAnswerDecided
    <2>1. CASE entry'[j] = entry[j]
        BY <1>1, <2>1 DEF CachedAnswerDecided
    <2>2. CASE entry'[j] # entry[j]
        <3>1. j = k /\ pc[r] = "store" /\ entry'[j] = CompletedBy(r)
            BY <1>1, <2>2 DEF Claimed
        <3> QED
            BY <1>1, <1>2, <3>1 DEF StoreInv, k
    <2> QED
        BY <2>1, <2>2
<1>9. OwnerInv'
    <2>1. \A q1, q2 \in Requests :
              Live(q1) /\ Live(q2) /\ RedisKey(q1) = RedisKey(q2)
                  /\ RedisKey(q1) \notin disturbed' => q1 = q2
        BY <1>1 DEF OwnerInv
    <2>2. \A q \in Requests :
              Executing(q) /\ Keyed(q) /\ q \notin tracked => RedisKey(q) \in disturbed'
        BY <1>1 DEF OwnerInv
    <2>3. ASSUME NEW q \in Requests, Live(q), RedisKey(q) \notin disturbed'
          PROVE  /\ entry'[RedisKey(q)] # Absent
                 /\ pc[q] \notin {"store", "release"} => entry'[RedisKey(q)] = InProgress
        <3>0. /\ RedisKey(q) \in RedisKeys /\ RedisKey(q) \notin disturbed
              /\ entry[RedisKey(q)] # Absent
              /\ pc[q] \notin {"store", "release"} => entry[RedisKey(q)] = InProgress
            BY <1>1, <1>4, <2>3 DEF OwnerInv
        <3>1. CASE entry'[RedisKey(q)] = entry[RedisKey(q)]
            BY <3>0, <3>1
        <3>2. CASE entry'[RedisKey(q)] # entry[RedisKey(q)]
            <4>1. RedisKey(q) = k /\ pc[r] = "store" /\ entry'[k] = CompletedBy(r)
                BY <1>1, <2>3, <3>0, <3>2 DEF Claimed
            <4>2. Live(r)
                BY <4>1 DEF FlowInv, Live
            <4>3. q = r
                BY <2>1, <2>3, <4>1, <4>2 DEF k
            <4> QED
                BY <1>2, <4>1, <4>3
        <3> QED
            BY <3>1, <3>2
    <2> QED
        BY <1>0, <1>3, <2>1, <2>2, <2>3 DEF OwnerInv
<1>10. StoreInv'
    BY <1>0, <1>1, <1>3 DEF StoreInv
<1> QED
    BY <1>5, <1>6, <1>7, <1>8, <1>9, <1>10

(* An entry is lost: no live request needs it, or the key is disturbed.    *)
LEMMA ExpireIInv ==
    ASSUME IInv, NEW k \in RedisKeys, Expire(k)
    PROVE  IInv'
<1> USE DEF IInv, requestVars
<1>0. /\ UNCHANGED <<input, canceled, row, pc, tracked, answer>>
      /\ entry' = [entry EXCEPT ![k] = Absent]
      /\ disturbed' = disturbed \/ disturbed' = disturbed \cup {k}
      /\ k \in disturbed' \/ ~\E r \in Requests : Live(r) /\ RedisKey(r) = k
    BY DEF Expire
<1>1. entry'[k] = Absent /\ \A j \in RedisKeys : j # k => entry'[j] = entry[j]
    BY <1>0 DEF TypeOK
<1>2. TypeOK'
    BY <1>0 DEF TypeOK
<1>3. FlowInv' /\ OneTransactionPerKey' /\ SuccessIsOwn'
    BY <1>0 DEF FlowInv, OneTransactionPerKey, SuccessIsOwn, Keyed
<1>4. EntryInv' /\ CachedAnswerDecided'
    BY <1>0, <1>1 DEF EntryInv, CachedAnswerDecided, RedisKey
<1>5. OwnerInv'
    <2>1. \A q \in Requests : /\ Live(q)' = Live(q) /\ Executing(q)' = Executing(q)
                              /\ RedisKey(q)' = RedisKey(q) /\ Keyed(q)' = Keyed(q)
        BY <1>0 DEF Live, Executing, RedisKey, Keyed
    <2>2. \A q \in Requests : Live(q) => RedisKey(q) \in RedisKeys
        BY KeyType DEF FlowInv, Live
    <2> QED
        BY <1>0, <1>1, <2>1, <2>2 DEF OwnerInv
<1>6. StoreInv'
    BY <1>0 DEF StoreInv, RedisKey
<1> QED
    BY <1>2, <1>3, <1>4, <1>5, <1>6

LEMMA CrashIInv ==
    ASSUME IInv, NEW r \in Requests, Crash(r)
    PROVE  IInv'
<1> USE DEF IInv, Goto, Answer, requestVars
<1>0. /\ UNCHANGED <<input, canceled, row, entry, tracked, disturbed>>
      /\ pc[r] # "start" /\ pc' = [pc EXCEPT ![r] = "ended"]
      /\ answer' = [answer EXCEPT ![r] = Failure]
    BY DEF Crash
<1>1. TypeOK'
    BY <1>0 DEF TypeOK, Steps
<1>2. /\ pc'[r] = "ended" /\ answer'[r] = Failure
      /\ \A q \in Requests : q # r => pc'[q] = pc[q] /\ answer'[q] = answer[q]
    BY <1>0 DEF TypeOK
<1>3. SuccessIsOwn'
    BY <1>0, <1>2, Distinct DEF SuccessIsOwn
<1>4. FlowInv' /\ OneTransactionPerKey' /\ EntryInv' /\ CachedAnswerDecided'
    BY <1>0, <1>2 DEF TypeOK, FlowInv, OneTransactionPerKey, EntryInv,
        CachedAnswerDecided, Keyed, RedisKey
<1>5. OwnerInv' /\ StoreInv'
    BY <1>0, <1>2 DEF OwnerInv, StoreInv, Live, Executing, Keyed, RedisKey
<1> QED
    BY <1>1, <1>3, <1>4, <1>5

LEMMA IdleIInv ==
    ASSUME IInv, UNCHANGED <<input, row, entry, pc, tracked, answer, disturbed>>,
           canceled' \subseteq Requests
    PROVE  IInv'
BY DEF IInv, TypeOK, FlowInv, OneTransactionPerKey, SuccessIsOwn, EntryInv, OwnerInv,
    StoreInv, CachedAnswerDecided, Live, Executing, Keyed, RedisKey

LEMMA NextIInv == IInv /\ [Next]_vars => IInv'
<1> SUFFICES ASSUME IInv, [Next]_vars PROVE IInv'
    OBVIOUS
<1>1. ASSUME NEW r \in Requests, Handle(r) PROVE IInv'
    BY <1>1, AdmitIInv, CheckIInv, ServeIInv, WorkIInv, StoreCompletedIInv, ReleaseIInv
       DEF Handle
<1>2. ASSUME NEW r \in Requests, Cancel(r) PROVE IInv'
    BY <1>2, IdleIInv DEF Cancel, IInv, TypeOK
<1>3. CASE UNCHANGED vars
    BY <1>3, IdleIInv DEF vars, requestVars, IInv, TypeOK
<1> QED
    BY <1>1, <1>2, <1>3, ResendIInv, CrashIInv, RefundIInv, ExpireIInv DEF Next, Terminating

THEOREM Invariance == Spec => []IInv
BY InitIInv, NextIInv, PTL DEF Spec

-----------------------------------------------------------------------------
(* The variables of requests, rows and Redis entries keep their types      *)
(* through every handler step and fault.                                   *)
THEOREM TypeCorrect == Spec => []TypeOK
<1>1. IInv => TypeOK
    BY DEF IInv
<1> QED
    BY <1>1, Invariance, PTL

(* Whatever Redis loses or reports wrongly, CreateTransaction makes one    *)
(* transaction per key at most.                                            *)
THEOREM PaidOncePerKey == Spec => []OneTransactionPerKey
<1>1. IInv => OneTransactionPerKey
    BY DEF IInv
<1> QED
    BY <1>1, Invariance, PTL

(* No success, replayed or not, is about another merchant's or another     *)
(* key's transaction.                                                      *)
THEOREM NoForeignAnswer == Spec => []SuccessIsOwn
<1>1. IInv => SuccessIsOwn
    BY DEF IInv
<1> QED
    BY <1>1, Invariance, PTL

(* The in_progress entry keeps requests with one key apart unless it is    *)
(* lost under its request or a check fails.                                *)
THEOREM DuplicatesExcluded == Spec => []ExclusiveUnlessDisturbed
<1>1. IInv => ExclusiveUnlessDisturbed
    <2> SUFFICES ASSUME IInv, NEW r1 \in Requests, NEW r2 \in Requests,
                        Keyed(r1), RedisKey(r1) = RedisKey(r2),
                        Executing(r1), Executing(r2), RedisKey(r1) \notin disturbed
                 PROVE  r1 = r2
        BY DEF ExclusiveUnlessDisturbed
    <2>1. Keyed(r2)
        BY DEF Keyed, RedisKey
    <2>2. Live(r1) /\ Live(r2)
        BY <2>1 DEF IInv, OwnerInv, Executing, Live
    <2> QED
        BY <2>2 DEF IInv, OwnerInv
<1> QED
    BY <1>1, Invariance, PTL

(* The answer Redis keeps for an undisturbed key never shows a decided     *)
(* payment as pending.                                                     *)
THEOREM NoStalePendingAnswer == Spec => []CachedAnswerDecided
<1>1. IInv => CachedAnswerDecided
    BY DEF IInv
<1> QED
    BY <1>1, Invariance, PTL
=============================================================================
