---------------------------- MODULE StockLedger ----------------------------
(***************************************************************************)
(* What the checkout promises about inventory, with every row lock,        *)
(* statement and failure left out: an order is written once, for all its   *)
(* rows in one step, and none of them asks more than the shop has.  A row  *)
(* asks what the cart held: a row below zero adds to the stock.            *)
(***************************************************************************)
EXTENDS Integers

CONSTANTS
    Products,      \* the products of the shop
    Orders,        \* the orders that can ever be placed
    Quantities,    \* the stock levels an administrator sets
    Amounts,       \* the quantities of the rows of an order
    NoRow          \* the order has no row of the product

VARIABLES
    available,     \* quantity of each product on sale
    reservation    \* quantity of each product's row in each order

ledgerVars == <<available, reservation>>

NoItems == [p \in Products |-> NoRow]
Taken(q) == IF q = NoRow THEN 0 ELSE q

LedgerInit ==
    /\ available \in [Products -> Quantities]
    /\ reservation = [o \in Orders |-> NoItems]

(* An order takes all its rows out of the stock in one step, or nothing.   *)
Reserve(o) ==
    \E items \in [Products -> Amounts \cup {NoRow}] \ {NoItems} :
        /\ reservation[o] = NoItems
        /\ \A p \in Products : items[p] # NoRow => items[p] <= available[p]
        /\ reservation' = [reservation EXCEPT ![o] = items]
        /\ available' = [p \in Products |-> available[p] - Taken(items[p])]

(* The administrator sets the quantity of a product.                       *)
Restock(p) ==
    \E q \in Quantities :
        /\ available' = [available EXCEPT ![p] = q]
        /\ UNCHANGED reservation

LedgerNext ==
    \/ \E o \in Orders : Reserve(o)
    \/ \E p \in Products : Restock(p)

LedgerSpec == LedgerInit /\ [][LedgerNext]_ledgerVars
============================================================================
