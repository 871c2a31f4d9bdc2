------------------------------- MODULE Ledger -------------------------------
(***************************************************************************)
(* What the payment service promises about money, without its handlers,    *)
(* statements, retries and failures: the bank takes a payment, after that  *)
(* the merchant's balance is credited with it, once, and after that it may *)
(* be refunded as long as the balance covers it.  Every entry and its      *)
(* balance move together, and nothing else moves a balance.                *)
(*                                                                         *)
(* A payment may be refunded again: the code does not exclude it.          *)
(***************************************************************************)
EXTENDS Integers

CONSTANTS
    Payments,
    Orders,          \* what a payment may be about: its merchant and amount
    InitialBalance

VARIABLES
    order,     \* the order of each payment
    taken,     \* payments the bank took the money of
    credited,  \* payments credited to their merchants
    refunds,   \* refunds of each payment
    balance    \* of each merchant

vars == <<order, taken, credited, refunds, balance>>

Init ==
    /\ order \in [Payments -> Orders]
    /\ taken = {}
    /\ credited = {}
    /\ refunds = [p \in Payments |-> 0]
    /\ balance = InitialBalance

Take(p) ==
    /\ taken' = taken \cup {p}
    /\ UNCHANGED <<order, credited, refunds, balance>>

Credit(p) ==
    /\ p \in taken /\ p \notin credited
    /\ credited' = credited \cup {p}
    /\ balance' = [balance EXCEPT ![order[p].merchant] = @ + order[p].amount]
    /\ UNCHANGED <<order, taken, refunds>>

Refund(p) ==
    /\ p \in credited
    /\ balance[order[p].merchant] >= order[p].amount
    /\ refunds' = [refunds EXCEPT ![p] = @ + 1]
    /\ balance' = [balance EXCEPT ![order[p].merchant] = @ - order[p].amount]
    /\ UNCHANGED <<order, taken, credited>>

Next == \E p \in Payments : Take(p) \/ Credit(p) \/ Refund(p)

Spec == Init /\ [][Next]_vars
=============================================================================
