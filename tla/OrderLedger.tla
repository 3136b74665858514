---------------------------- MODULE OrderLedger ----------------------------
(***************************************************************************)
(* What checkout and settlement promise together about inventory: the      *)
(* stock changes when an order takes all its rows, or gives all of them    *)
(* back, or an administrator sets it, and at no other time.                *)
(***************************************************************************)
EXTENDS StockLedger

(* An order that has its rows gives back every one of them in one step.    *)
GiveBack(o) ==
    /\ reservation[o] # NoItems
    /\ available' = [p \in Products |-> available[p] + Taken(reservation[o][p])]
    /\ UNCHANGED reservation

OrderNext == LedgerNext \/ \E o \in Orders : GiveBack(o)

OrderSpec == LedgerInit /\ [][OrderNext]_ledgerVars
============================================================================
