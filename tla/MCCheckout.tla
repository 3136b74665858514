----------------------------- MODULE MCCheckout -----------------------------
(* Values for the constants of Checkout: one customer sends the same        *)
(* request twice, once with each method of payment.                         *)
EXTENDS Checkout

CONSTANTS u1, k1, r1, r2, c1

OneUser == [r \in Requests |-> u1]
OneKey == [r \in Requests |-> k1]
AllCash == [r \in Requests |-> "CASH"]
FirstByCard == [r \in Requests |-> IF r = r1 THEN "CREDIT_CARD" ELSE "CASH"]

(* A piece of one product; of the other what racing removals leave.        *)
OnePiece == [p \in Products |-> {1}]
OneRaced == [p \in Products |-> IF p = 1 THEN {1} ELSE {-1}]

NoRequestsPromo == [r \in Requests |-> NoPromo]
AllUsePromo == [r \in Requests |-> c1]
LimitTwo == [c \in Campaigns |-> 2]
NoLimits == [c \in Campaigns |-> 0]
=============================================================================
