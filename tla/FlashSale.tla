------------------------------ MODULE FlashSale ------------------------------
(***************************************************************************)
(* What the order pipeline promises its database, with no transactions,    *)
(* locks, queue or retries: a product starts with some units, a sale takes *)
(* one unit and records one buyer in the same instant, a buyer owns a      *)
(* product at most once, and nothing is ever given back.                   *)
(* StockClaim.tla implements it.                                           *)
(***************************************************************************)
EXTENDS Integers

CONSTANTS
    User, Product,      \* who buys, and what
    Job,                \* the queue jobs a sale is attributed to
    NoOrder,            \* the value of "orders" where nobody bought
    InitialStock,       \* product |-> units on sale at the start
    InitialOrders       \* <<user, product>> |-> the sales already recorded

VARIABLES
    stock,              \* product |-> units left
    orders              \* <<user, product>> |-> the job that bought it

vars == <<stock, orders>>

Init == /\ stock = InitialStock
        /\ orders = InitialOrders

(* One unit of p goes to u, on behalf of job j.                            *)
Sell(u, p, j) ==
    /\ stock[p] > 0
    /\ orders[<<u, p>>] = NoOrder
    /\ stock' = [stock EXCEPT ![p] = @ - 1]
    /\ orders' = [orders EXCEPT ![<<u, p>>] = j]

Next == \E u \in User, p \in Product, j \in Job : Sell(u, p, j)

Spec == Init /\ [][Next]_vars
=============================================================================
