---------------------------- MODULE MCSettlement ----------------------------
(* Values for the constants of Settlement: one order of two pieces, and    *)
(* scenarios of who pays for it and cleans it up.                          *)
EXTENDS Settlement

CONSTANTS o1, p1, d1, d2, t1, t2, c1

TwoOfEach == [o \in Orders |-> [p \in Products |-> 2]]
EmptyShelves == [p \in Products |-> 0]

AllCard == [o \in Orders |-> "CREDIT_CARD"]
CancelFirst == [a \in Cancels |-> o1]
PayFirst == [t \in Transactions |-> o1]

OneTransaction == [d \in Deliveries |-> t1]
EachItsOwn == [d \in Deliveries |-> IF d = d1 THEN t1 ELSE t2]
=============================================================================
