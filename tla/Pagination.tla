----------------------------- MODULE Pagination -----------------------------
(***************************************************************************)
(* A client that walks the pages of GET /merchants/{id}/transactions       *)
(* (ListByMerchant in internal/handler, internal/service and               *)
(* internal/repository/postgres) while other requests create transactions  *)
(* of the merchant.  The count and the page are two statements, each with  *)
(* a snapshot of its own, and the order of rows created at the same time   *)
(* is the database's choice.                                               *)
(*                                                                         *)
(* The client is external: it asks for the next page at the offset plus    *)
(* the limit of the answer's meta, until a page is empty.                  *)
(***************************************************************************)
EXTENDS Integers, FiniteSets, FiniteSetsExt

CONSTANTS
    Txs,            \* transactions of the merchant, present and future
    Times,          \* values of created_at; 0 is none of them
    LimitQueries,   \* values of the limit parameter
    OffsetQueries,  \* values of the first offset parameter: the first page
    DefaultLimit,   \* 20
    MaxLimit        \* 100

VARIABLES
    created,    \* created_at of each row, 0 where there is no row yet
    old,        \* the rows there when the walk began
    query,      \* the limit and the offset of the request
    params,     \* the ListParams of the request
    total,      \* the result of its count
    seen,       \* transactions the client has been given
    pc          \* where the client's request is

vars == <<created, old, query, params, total, seen, pc>>

Rows == {t \in Txs : created[t] # 0}

TypeOK ==
    /\ created \in [Txs -> Times \cup {0}]
    /\ old \subseteq Rows /\ seen \subseteq Rows
    /\ query \in [limit : LimitQueries, offset : Int]
    /\ params \in [limit : 1..MaxLimit, offset : Nat]
    /\ total \in 0..Cardinality(Rows)
    /\ pc \in {"ask", "count", "page", "ended"}

Init ==
    /\ created \in [Txs -> Times \cup {0}]
    /\ old = Rows
    /\ query \in [limit : LimitQueries, offset : OffsetQueries]
    /\ params = [limit |-> DefaultLimit, offset |-> 0]
    /\ total = 0
    /\ seen = {}
    /\ pc = "ask"

-----------------------------------------------------------------------------
(* NewListParams.                                                          *)
LimitOf(limit) ==
    IF limit <= 0 \/ limit > MaxLimit THEN DefaultLimit ELSE limit

OffsetOf(offset) == Max({offset, 0})

(* The handler parses the request; NewListParams.                          *)
Ask ==
    /\ pc = "ask"
    /\ params' = [limit |-> LimitOf(query.limit), offset |-> OffsetOf(query.offset)]
    /\ pc' = "count"
    /\ UNCHANGED <<created, old, query, total, seen>>

(* SELECT COUNT( * ).                                                      *)
Count ==
    /\ pc = "count"
    /\ total' = Cardinality(Rows)
    /\ pc' = "page"
    /\ UNCHANGED <<created, old, query, params, seen>>

(* S may be the first rows in ORDER BY created_at DESC.                    *)
Prefix(S) == \A t \in S, u \in Rows \ S : created[t] >= created[u]

(* The sets of rows that may be the first k.                               *)
Firsts(k) == {S \in kSubset(Min({k, Cardinality(Rows)}), Rows) : Prefix(S)}

(* Mutant of MetaLimit: the limit asked for, not the limit of the page.    *)
MetaLimitAsked == query.limit

(* The limit in the answer's meta.                                         *)
MetaLimit == params.limit

(* SELECT ... ORDER BY created_at DESC LIMIT OFFSET, the answer, and the   *)
(* client's next request.                                                  *)
Page ==
    /\ pc = "page"
    /\ \E skipped \in Firsts(params.offset), upto \in Firsts(params.offset + params.limit) :
          /\ skipped \subseteq upto
          /\ seen' = seen \cup (upto \ skipped)
          /\ pc' = IF upto = skipped THEN "ended" ELSE "ask"
    /\ query' = [query EXCEPT !.offset = params.offset + MetaLimit]
    /\ UNCHANGED <<created, old, params, total>>

(* A statement fails: the client repeats the request.                      *)
Fail ==
    /\ pc \in {"count", "page"}
    /\ pc' = "ask"
    /\ UNCHANGED <<created, old, query, params, total, seen>>

(* CreateTransaction of another request; created_at is the clock of its    *)
(* server some time before the row is committed.                           *)
Insert(t) ==
    /\ t \notin Rows
    /\ \E time \in Times : created' = [created EXCEPT ![t] = time]
    /\ UNCHANGED <<old, query, params, total, seen, pc>>

Next == Ask \/ Count \/ Page \/ Fail \/ \E t \in Txs : Insert(t)

Spec == Init /\ [][Next]_vars

-----------------------------------------------------------------------------
(* No other row has the time of the row t.                                 *)
AloneInTime(t) == \A u \in Rows \ {t} : created[u] # created[t]

(* A walk from the first page to an empty one lists every transaction that *)
(* was there when it began and shares its created_at with no other,        *)
(* whatever is inserted on pages before and behind: rows only move to      *)
(* later pages.                                                            *)
WalkMissesNone ==
    [][pc' = "ended" /\ pc # "ended" =>
          \A t \in old : AloneInTime(t) => t \in seen']_vars
=============================================================================
