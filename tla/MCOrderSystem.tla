--------------------------- MODULE MCOrderSystem ---------------------------
(* Values for the constants of OrderSystem: two customers, of whom the      *)
(* first pays by card, may cancel, and is called back for.  They want       *)
(* different products, or both of them the same two.                        *)
EXTENDS OrderSystem

CONSTANTS u1, u2, k1, r1, r2, a1, d1, d2, t1, c1, p1

NothingPlaced == [o \in Orders |-> [p \in Products |-> NoRow]]
OneOfEach == [p \in Products |-> 1]
TwoOfEach == [p \in Products |-> 2]
ApartCart == [u \in Users |-> [p \in Products |-> IF (u = u1) = (p < 3) THEN 1 ELSE NoRow]]
ApartCarts == {ApartCart}

(* Removals that raced have left the first customer less than nothing of   *)
(* the second product.                                                     *)
RacedCart == [u \in Users |-> [p \in Products |-> IF u = u1 /\ p = 2 THEN -1 ELSE 1]]
OneRacedCart == {RacedCart}
OnePiece == [p \in Products |-> {1}]
OneOrRaced == [p \in Products |-> IF p = 1 THEN {1} ELSE {-1, 1}]

FirstByCard == [o \in Orders |-> IF o = r1 THEN "CREDIT_CARD" ELSE "CASH"]
EachTheirOwn == [o \in Orders |-> IF o = r1 THEN u1 ELSE u2]
OneKey == [o \in Orders |-> k1]
NoRequestsPromo == [o \in Orders |-> NoPromo]
AllUsePromo == [r \in Orders |-> p1]
LimitOne == [c \in Campaigns |-> 1]
NoLimits == [c \in Campaigns |-> 0]

CancelFirst == [a \in Cancels |-> r1]
PayFirst == [t \in Transactions |-> r1]
OneTransaction == [d \in Deliveries |-> t1]
=============================================================================
