-------------------------- MODULE MCPaymentService --------------------------
(* Small instances of PaymentService for TLC.                              *)
EXTENDS PaymentService

CONSTANTS m1, m2, k1, c1, r1

MCKeys == {k1, NoKey}

MCInitialBalance == [m \in Merchants |-> IF m = m1 THEN 1 ELSE 0]

Request(m, amount, currency, key) ==
    [merchant |-> m, amount |-> amount, currency |-> currency, key |-> key,
     description |-> "d"]

(* A key used for the same request twice and for a request that differs,   *)
(* and a request without a key.                                            *)
MCInputs == {Request(m1, 2, "CAD", k1), Request(m1, 1, "CAD", k1),
             Request(m1, 1, "CAD", NoKey)}

(* Every request uses the key for the same thing.                          *)
MCRetries == {Request(m1, 2, "CAD", k1)}

(* Every reason to refuse a request as well.                               *)
MCAnyInputs ==
    MCInputs \cup {Request(m1, 0, "CAD", NoKey), Request(m1, 3, "CAD", NoKey),
                  Request(m1, 1, "EUR", NoKey), Request(m2, 1, "USD", NoKey)}

AllFaults == {"crash", "cancel", "db"}

(* Everything may go wrong at the first create, the database at the first  *)
(* refund, nothing at the other requests.                                  *)
MCFaults ==
    [h \in Handlers |-> IF h = c1 THEN AllFaults ELSE IF h = r1 THEN {"db"} ELSE {}]

(* Two creates that may race while refunds are refused because they are    *)
(* another merchant's, or two refunds of a payment while a create is       *)
(* refused.                                                                *)
MCInit ==
    /\ Init
    /\ \/ /\ input[c1] \in MCRetries
          /\ \A c \in Creates : input[c] \in MCInputs
          /\ \A r \in Refunds : refund[r] = [merchant |-> m2, tx |-> c1]
       \/ /\ input[c1] \in MCInputs
          /\ \A c \in Creates \ {c1} : input[c] \notin MCInputs
          /\ \A r \in Refunds : refund[r] = [merchant |-> m1, tx |-> c1]

MCSpec == MCInit /\ [][Next]_vars /\ Fairness

NoFaults    == [h \in Handlers |-> {}]
OnlyCrashes == [h \in Handlers |-> {"crash"}]
=============================================================================
