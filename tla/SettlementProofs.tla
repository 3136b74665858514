-------------------------- MODULE SettlementProofs --------------------------
(***************************************************************************)
(* Theorems about Settlement for every set of orders, products and actors. *)
(***************************************************************************)
EXTENDS Settlement, SumTheorems

(* What the assumptions say of each actor.                                 *)
LEMMA ActorFacts ==
    /\ \A a \in Cancels : CancelOf[a] \in Orders /\ a \in Actors \ (Deliveries \cup Crons)
    /\ \A a \in Deliveries : /\ TxnOf[a] \in Transactions
                              /\ OrderOf[TxnOf[a]] \in Orders
                              /\ a \in Actors \ Crons
    /\ \A a \in Crons : a \in Actors
    /\ \A a \in Actors : a # NoTx /\ a \in Cancels \cup Deliveries \cup Crons
    /\ \A t \in Transactions : OrderOf[t] \in Orders /\ t # IntentionId /\ t # NoRef
    /\ NoRef # IntentionId
  BY ActorsAssumption DEF Actors

USE ActorFacts

(* Each kind of actor has its own statements, and a target whenever it     *)
(* uses one.                                                               *)
CancelPlaces == {"idle", "restore", "done"}
DeliveryPlaces == {"idle", "resolve", "unresolved", "read", "payment", "order", "settle",
                   "restore", "done"}
CronPlaces == {"idle", "next", "cancel", "fail", "restore"}
Roles ==
    /\ \A a \in Cancels : pc[a] \in CancelPlaces /\ target[a] = CancelOf[a]
    /\ \A a \in Deliveries : pc[a] \in DeliveryPlaces /\ target[a] = OrderOf[TxnOf[a]]
    /\ \A a \in Crons :
        /\ pc[a] \in CronPlaces
        /\ pc[a] \in {"cancel", "fail", "restore"} => target[a] \in Orders

(* At the start.                                                           *)
LEMMA InitTypeOK == Init => TypeOK /\ Roles
  BY OrdersAssumption, ActorsAssumption DEF Init, TypeOK, Roles, CancelPlaces, DeliveryPlaces, CronPlaces, InTx, Statuses,
         PaidAtStart, PlacedAtStart

(* Who works on an order has one.                                          *)
LEMMA TargetIsOrder ==
  ASSUME TypeOK, Roles, NEW a \in Actors,
         pc[a] \in {"read", "payment", "order", "settle", "cancel", "fail", "restore"}
  PROVE  target[a] \in Orders
  BY DEF Roles, CancelPlaces, DeliveryPlaces, CronPlaces, TypeOK

(* The end of a transaction keeps the types of the locks.                  *)
LEMMA UnlockType ==
  ASSUME TypeOK, NEW a \in Actors, Unlock(a)
  PROVE  /\ orderLock' \in [Orders -> Actors \cup {NoTx}]
         /\ paymentLock' \in [Orders -> Actors \cup {NoTx}]
  BY DEF TypeOK, Unlock, Without

(* So does its beginning.                                                  *)
LEMMA LockType ==
  ASSUME TypeOK, NEW a \in Actors
  PROVE  /\ LockOrder(a) => orderLock' \in [Orders -> Actors \cup {NoTx}]
         /\ LockPayment(a) => paymentLock' \in [Orders -> Actors \cup {NoTx}]
<1>1. ASSUME LockOrder(a) PROVE orderLock' \in [Orders -> Actors \cup {NoTx}]
  BY <1>1 DEF LockOrder, TypeOK
<1>2. ASSUME LockPayment(a) PROVE paymentLock' \in [Orders -> Actors \cup {NoTx}]
  BY <1>2 DEF LockPayment, TypeOK
<1> QED
  BY <1>1, <1>2

(* What there is to put back is products.                                  *)
LEMMA RestoreType ==
  ASSUME TypeOK, NEW a \in Actors, StartRestore(a)
  PROVE  todo' \in [Actors -> SUBSET Products] /\ Goto(a, "restore")
<1>1. todo \in [Actors -> SUBSET Products]
  BY DEF TypeOK
<1>2. ProductsIn(target[a]) \in SUBSET Products
  BY DEF ProductsIn
<1> QED
  BY <1>1, <1>2 DEF StartRestore

(* The place of one actor is a place.                                      *)
LEMMA GotoType ==
  ASSUME TypeOK, NEW a \in Actors,
         NEW l \in InTx \cup {"idle", "resolve", "unresolved", "next", "done"}, Goto(a, l)
  PROVE  pc' \in [Actors -> InTx \cup {"idle", "resolve", "unresolved", "next", "done"}]
<1>1. pc \in [Actors -> InTx \cup {"idle", "resolve", "unresolved", "next", "done"}]
  BY DEF TypeOK
<1> QED
  BY <1>1 DEF Goto

(* What a webhook call writes of a payment has its type.                   *)
LEMMA RecordType ==
  ASSUME TypeOK, Roles, NEW d \in Deliveries, NEW s \in {"PAID", "FAILED"}, Record(d, s)
  PROVE  /\ payment' \in [Orders -> {"none", "PENDING", "PAID", "FAILED"}]
         /\ paymentRef' \in [Orders -> Transactions \cup {IntentionId, NoRef}]
         /\ applied' \in [Transactions -> Nat]
<1>1. payment' \in [Orders -> {"none", "PENDING", "PAID", "FAILED"}]
  BY DEF TypeOK, Record
<1>2. paymentRef' \in [Orders -> Transactions \cup {IntentionId, NoRef}]
  BY DEF TypeOK, Record
<1>3. applied' \in [Transactions -> Nat]
  BY DEF TypeOK, Record
<1> QED
  BY <1>1, <1>2, <1>3

(* A step of one actor keeps the roles when the place it goes to is one of *)
(* its kind, and the cleanup job has the order it goes to work on.         *)
LEMMA RolesMove ==
  ASSUME TypeOK, Roles, NEW a \in Actors, NEW l, Goto(a, l),
         a \in Cancels => l \in CancelPlaces,
         a \in Deliveries => l \in DeliveryPlaces,
         a \in Crons => l \in CronPlaces,
         \A b \in Actors : target'[b] = target[b] \/ (b = a /\ a \in Crons),
         a \in Crons /\ l \in {"cancel", "fail", "restore"} => target'[a] \in Orders
  PROVE  Roles'
  BY DEF Roles, Goto, TypeOK

(* A failure keeps the types.                                              *)
LEMMA GiveUpType ==
  ASSUME TypeOK, Roles, NEW a \in Actors, GiveUp(a)
  PROVE  TypeOK' /\ Roles'
<1>1. TypeOK'
  <2>1. Goto(a, IF a \in Crons THEN "idle" ELSE "done")
    BY DEF GiveUp, Answer
  <2>2. pc' \in [Actors -> InTx \cup {"idle", "resolve", "unresolved", "next", "done"}]
    BY <2>1, GotoType
  <2>3. orderLock' \in [Orders -> Actors \cup {NoTx}] /\ paymentLock' \in [Orders -> Actors \cup {NoTx}]
    BY UnlockType DEF GiveUp
  <2>4. todo' \in [Actors -> SUBSET Products]
    BY DEF GiveUp, TypeOK
  <2>5. batch' \in [Crons -> SUBSET Orders]
    BY DEF GiveUp, TypeOK
  <2>6. answer' \in [Actors -> {"none", "refused", "cancelled", "duplicate", "unresolved",
                               "handled", "failed"}]
    BY DEF GiveUp, Answer, TypeOK
  <2> QED
    BY <2>2, <2>3, <2>4, <2>5, <2>6 DEF GiveUp, TypeOK, orders, rows
<1>2. Goto(a, IF a \in Crons THEN "idle" ELSE "done") /\ UNCHANGED target
  BY DEF GiveUp, Answer
<1>3. Roles'
  BY <1>2, RolesMove DEF CancelPlaces, DeliveryPlaces, CronPlaces
<1> QED
  BY <1>1, <1>3

(* What a row holds is a number of pieces, and none when there is no row.  *)
LEMMA AmountType == ASSUME NEW q \in Int \cup {NoRow} PROVE Amount(q) \in Int
  BY DEF Amount

(* Stock with an order's items back in it is stock.                        *)
LEMMA ReturnedType ==
  ASSUME TypeOK, NEW o \in Orders
  PROVE  Returned(o) \in [Products -> Int]
<1>1. \A p \in Products : stock[p] \in Int /\ orderItems[o][p] \in Int \cup {NoRow}
  BY DEF TypeOK
<1>2. \A p \in Products : Amount(orderItems[o][p]) \in Int
  BY <1>1, AmountType
<1> QED
  BY <1>1, <1>2 DEF Returned

(* The three commits that cancel an order keep the types.                  *)
LEMMA CommitCancelledType ==
  ASSUME TypeOK, Roles, NEW a \in Actors, CommitCancelled(a)
  PROVE  TypeOK' /\ Roles'
<1>1. target[a] \in Orders /\ UNCHANGED <<orders, local, keys, expired>> /\ Unlock(a)
  BY TargetIsOrder DEF CommitCancelled
<1>2. /\ orderStatus' \in [Orders -> Statuses \cup {"none"}]
      /\ stock' \in [Products -> Int] /\ withdrawn' \subseteq Orders
  BY <1>1, ReturnedType DEF CommitCancelled, TypeOK, Statuses
<1>3. /\ payment' \in [Orders -> {"none", "PENDING", "PAID", "FAILED"}]
      /\ paymentRef' \in [Orders -> Transactions \cup {IntentionId, NoRef}]
      /\ applied' \in [Transactions -> Nat]
  <2>1. CASE a \in Cancels
    BY <2>1 DEF CommitCancelled, TypeOK
  <2>2. CASE a \in Deliveries
    BY <2>2, RecordType DEF CommitCancelled
  <2>3. CASE a \in Crons
    BY <2>3 DEF CommitCancelled, TypeOK
  <2> QED
    BY <2>1, <2>2, <2>3
<1>4. /\ pc' \in [Actors -> InTx \cup {"idle", "resolve", "unresolved", "next", "done"}]
      /\ answer' \in [Actors -> {"none", "refused", "cancelled", "duplicate", "unresolved",
                                 "handled", "failed"}]
  <2>1. \/ Answer(a, "cancelled") \/ Answer(a, "handled")
        \/ a \in Crons /\ Goto(a, "next") /\ UNCHANGED answer
    BY DEF CommitCancelled
  <2>2. pc' \in [Actors -> InTx \cup {"idle", "resolve", "unresolved", "next", "done"}]
    BY <2>1 DEF TypeOK, Goto, Answer
  <2>3. answer' \in [Actors -> {"none", "refused", "cancelled", "duplicate", "unresolved",
                                "handled", "failed"}]
    BY <2>1 DEF TypeOK, Answer
  <2> QED
    BY <2>2, <2>3
<1>5. TypeOK'
  BY <1>1, <1>2, <1>3, <1>4, UnlockType DEF TypeOK, orders, local
<1>6. Roles'
  <2>1. PICK l \in {"done", "next"} : Goto(a, l) /\ (a \in Crons <=> l = "next")
    BY DEF CommitCancelled, Answer
  <2> QED
    BY <1>1, <2>1, RolesMove DEF local, CancelPlaces, DeliveryPlaces, CronPlaces
<1> QED
  BY <1>5, <1>6

(* Every step of an actor keeps the types.                                 *)
LEMMA ProgressTypeOK ==
  ASSUME TypeOK, Roles, NEW a \in Actors, Progress(a)
  PROVE  TypeOK'
<1>1. CASE Cancel(a)
  BY <1>1 DEF Cancel, SelectOrder, LockOrder, StartRestore, ProductsIn, TypeOK, Goto,
       orders, rows, InTx
<1>2. CASE RefuseCancel(a) \/ AlreadyProcessed(a) \/ Unresolved(a) \/ NothingToDo(a)
  <2>1. /\ UNCHANGED <<orders, rows, locks, local, expired, applied>>
        /\ keys' \subseteq keys
    BY <1>2 DEF RefuseCancel, AlreadyProcessed, Unresolved, NothingToDo
  <2>2. PICK what \in {"refused", "duplicate", "unresolved", "handled"} : Answer(a, what)
    BY <1>2 DEF RefuseCancel, AlreadyProcessed, Unresolved, NothingToDo
  <2> QED
    BY <2>1, <2>2 DEF TypeOK, Goto, Answer, orders, rows, locks, local
<1>3. CASE Acquire(a) \/ Resolve(a) \/ ReadOrder(a)
  <2>1. /\ UNCHANGED <<orders, rows, locks, local, expired, answer, applied>>
        /\ keys' \subseteq Transactions
    BY <1>3 DEF Acquire, Resolve, ReadOrder, TypeOK
  <2>2. PICK l \in {"resolve", "read", "unresolved", "payment"} : Goto(a, l)
    BY <1>3 DEF Acquire, Resolve, ReadOrder
  <2> QED
    BY <2>1, <2>2 DEF TypeOK, Goto, InTx, orders, rows, locks, local
<1>4. CASE WritePayment(a)
  BY <1>4 DEF WritePayment, LockPayment, TypeOK, Goto, orders, rows, local, InTx
<1>5. CASE WriteOrder(a)
  <2>1. todo' \in [Actors -> SUBSET Products]
    BY <1>5, RestoreType DEF WriteOrder, TypeOK
  <2>2. PICK l \in {"settle", "restore"} : Goto(a, l)
    BY <1>5 DEF WriteOrder, StartRestore
  <2>3. pc' \in [Actors -> InTx \cup {"idle", "resolve", "unresolved", "next", "done"}]
    BY <2>2, GotoType DEF InTx
  <2>4. orderLock' \in [Orders -> Actors \cup {NoTx}]
    BY <1>5, LockType DEF WriteOrder
  <2> QED
    BY <1>5, <2>1, <2>3, <2>4 DEF WriteOrder, TypeOK, orders, rows
<1>6. CASE CommitPaid(a)
  <2>1. a \in Deliveries /\ Record(a, "PAID")
    BY <1>6 DEF CommitPaid, Roles, CancelPlaces, CronPlaces
  <2>2. orderStatus' \in [Orders -> Statuses \cup {"none"}]
    BY <1>6 DEF CommitPaid, TypeOK, Statuses
  <2> QED
    BY <1>6, <2>1, <2>2, RecordType, UnlockType
       DEF CommitPaid, TypeOK, Goto, Answer, orders, local
<1>7. CASE Scan(a)
  BY <1>7 DEF Scan, TypeOK, Goto, orders, rows, locks
<1>8. CASE NextExpired(a)
  <2>1. a \in Crons
    BY <1>8 DEF NextExpired, Roles, CancelPlaces, DeliveryPlaces
  <2> QED
    BY <1>8, <2>1 DEF NextExpired, TypeOK, Goto, orders, rows, locks, InTx
<1>9. CASE ScanEnds(a)
  BY <1>9 DEF ScanEnds, TypeOK, Goto, orders, rows, locks, local
<1>10. CASE CancelExpired(a)
  BY <1>10 DEF CancelExpired, LockOrder, TypeOK, Goto, orders, rows, local, InTx
<1>11. CASE FailPayment(a)
  <2>1. paymentLock' \in [Orders -> Actors \cup {NoTx}]
    BY <1>11, LockType DEF FailPayment, TypeOK
  <2>2. todo' \in [Actors -> SUBSET Products] /\ Goto(a, "restore")
    BY <1>11, RestoreType DEF FailPayment
  <2>3. pc' \in [Actors -> InTx \cup {"idle", "resolve", "unresolved", "next", "done"}]
    BY <2>2, GotoType DEF InTx
  <2> QED
    BY <1>11, <2>1, <2>2, <2>3 DEF FailPayment, TypeOK, orders, rows
<1>12. ASSUME NEW p \in Products, RestoreRow(a, p) PROVE TypeOK'
  BY <1>12 DEF RestoreRow, TypeOK, orders, rows
<1>13. CASE CommitCancelled(a)
  BY <1>13, CommitCancelledType
<1> QED
  BY <1>1, <1>2, <1>3, <1>4, <1>5, <1>6, <1>7, <1>8, <1>9, <1>10, <1>11, <1>12, <1>13
     DEF Progress

(* Every step of an actor is one of its kind.                              *)
LEMMA ProgressRoles ==
  ASSUME TypeOK, Roles, NEW a \in Actors, Progress(a)
  PROVE  Roles'
<1> USE DEF CancelPlaces, DeliveryPlaces, CronPlaces
<1>1. CASE Cancel(a) \/ RefuseCancel(a)
  <2>1. PICK l \in {"restore", "done"} : Goto(a, l)
    BY <1>1 DEF Cancel, RefuseCancel, StartRestore, Answer
  <2>2. a \in Cancels /\ UNCHANGED target
    BY <1>1 DEF Cancel, RefuseCancel, local
  <2> QED
    BY <2>1, <2>2, RolesMove
<1>2. CASE \/ Acquire(a) \/ AlreadyProcessed(a) \/ Resolve(a) \/ Unresolved(a)
           \/ ReadOrder(a) \/ NothingToDo(a) \/ WritePayment(a) \/ WriteOrder(a)
           \/ CommitPaid(a)
  <2>1. a \in Deliveries /\ UNCHANGED target
    BY <1>2 DEF Acquire, AlreadyProcessed, Resolve, Unresolved, ReadOrder, NothingToDo,
         WritePayment, WriteOrder, CommitPaid, local, Roles
  <2>2. PICK l \in DeliveryPlaces : Goto(a, l)
    BY <1>2 DEF Acquire, AlreadyProcessed, Resolve, Unresolved, ReadOrder, NothingToDo,
         WritePayment, WriteOrder, CommitPaid, StartRestore, Answer
  <2> QED
    BY <2>1, <2>2, RolesMove
<1>3. CASE Scan(a) \/ ScanEnds(a) \/ CancelExpired(a) \/ FailPayment(a)
  <2>1. a \in Crons /\ UNCHANGED target
    BY <1>3 DEF Scan, ScanEnds, CancelExpired, FailPayment, local, Roles
  <2>2. PICK l \in CronPlaces : Goto(a, l) /\ (l \in {"cancel", "fail", "restore"} =>
                                                 pc[a] \in {"cancel", "fail"})
    BY <1>3 DEF Scan, ScanEnds, CancelExpired, FailPayment, StartRestore
  <2>3. pc[a] \in {"cancel", "fail"} => target[a] \in Orders
    BY TargetIsOrder
  <2> QED
    BY <2>1, <2>2, <2>3, RolesMove
<1>4. CASE NextExpired(a)
  <2>1. a \in Crons /\ Goto(a, "cancel")
    BY <1>4 DEF NextExpired, Roles
  <2>2. PICK o \in Orders : target' = [target EXCEPT ![a] = o]
    BY <1>4, <2>1 DEF NextExpired, TypeOK
  <2>3. target'[a] \in Orders /\ \A b \in Actors : b # a => target'[b] = target[b]
    BY <2>2 DEF TypeOK
  <2> QED
    BY <2>1, <2>3, RolesMove
<1>5. ASSUME NEW p \in Products, RestoreRow(a, p) PROVE Roles'
  BY <1>5 DEF RestoreRow, Roles
<1>6. CASE CommitCancelled(a)
  BY <1>6, CommitCancelledType
<1> QED
  BY <1>1, <1>2, <1>3, <1>4, <1>5, <1>6 DEF Progress

(* The types and the roles are inductive.                                  *)
LEMMA NextTypeOK == TypeOK /\ Roles /\ [Next]_vars => TypeOK' /\ Roles'
<1> SUFFICES ASSUME TypeOK, Roles, [Next]_vars PROVE TypeOK' /\ Roles'
  OBVIOUS
<1>1. ASSUME NEW a \in Actors, Progress(a) PROVE TypeOK' /\ Roles'
  BY <1>1, ProgressTypeOK, ProgressRoles
<1>2. ASSUME NEW a \in Actors, Abort(a) \/ TimeOut(a) PROVE TypeOK' /\ Roles'
  BY <1>2, GiveUpType DEF Abort, TimeOut
<1>3. ASSUME NEW o \in Orders, ThirtyMinutesPass(o) PROVE TypeOK' /\ Roles'
  BY <1>3 DEF ThirtyMinutesPass, TypeOK, Roles, orders, rows, locks, local
<1>4. ASSUME NEW o \in Orders, SetStatus(o) PROVE TypeOK' /\ Roles'
  <2>1. /\ orderStatus' \in [Orders -> Statuses \cup {"none"}]
        /\ withdrawn' \subseteq Orders
    BY <1>4, OrdersAssumption DEF SetStatus, TypeOK
  <2> QED
    BY <1>4, <2>1 DEF SetStatus, TypeOK, Roles, orders, locks, local
<1>5. ASSUME NEW t \in Transactions, KeyExpires(t) PROVE TypeOK' /\ Roles'
  <2>1. keys' \subseteq Transactions /\ lapsed' \in [Transactions -> Nat]
    BY <1>5 DEF KeyExpires, TypeOK
  <2> QED
    BY <1>5, <2>1 DEF KeyExpires, TypeOK, Roles, rows, locks, local
<1>6. CASE UNCHANGED vars
  BY <1>6 DEF vars, TypeOK, Roles, orders, rows, locks, local
<1> QED
  BY <1>1, <1>2, <1>3, <1>4, <1>5, <1>6 DEF Next

(* Every variable of the settlement keeps its type.                        *)
THEOREM SettlementTyped == Spec => []TypeOK
<1>1. Spec => [](TypeOK /\ Roles)
  BY InitTypeOK, NextTypeOK, PTL DEF Spec
<1> QED
  BY <1>1, PTL
-----------------------------------------------------------------------------
(* The row locks say where their holders are: who is past the update of an *)
(* order's status holds the order, who holds a payment is in the middle of *)
(* the order it belongs to, and the job holds it only while it is pending. *)
(* So the status a cancel has read stays as it is.                         *)
RowsHeld ==
    /\ \A a \in Actors, o \in Orders :
        /\ orderLock[o] = a <=> pc[a] \in {"settle", "fail", "restore"} /\ target[a] = o
        /\ paymentLock[o] = a => pc[a] \in {"order", "settle", "restore"} /\ target[a] = o
    /\ \A d \in Deliveries :
        pc[d] \in {"order", "settle", "restore"} => paymentLock[target[d]] = d
    /\ \A c \in Crons, o \in Orders : paymentLock[o] = c => payment[o] = "PENDING"
    /\ \A a \in Cancels : pc[a] = "restore" => orderStatus[target[a]] = "PENDING"

(* Nobody holds a row at the start.                                        *)
LEMMA InitRowsHeld == Init => RowsHeld
  BY InitTypeOK DEF Init, RowsHeld, TypeOK

(* A step of one actor away from the locks.                                *)
LEMMA RowsFrame ==
  ASSUME TypeOK, Roles, RowsHeld, NEW a \in Actors, NEW l, Goto(a, l),
         {pc[a], l} \cap {"order", "settle", "fail", "restore"} = {},
         \A b \in Actors \ {a} : target'[b] = target[b],
         UNCHANGED <<orderLock, paymentLock, payment, orderStatus>>
  PROVE  RowsHeld'
<1>1. pc'[a] = l /\ \A b \in Actors \ {a} : pc'[b] = pc[b]
  BY DEF Goto, TypeOK
<1>2. \A x \in {pc[a], l} : x \notin {"order", "settle", "fail", "restore"}
  OBVIOUS
<1>3. \A b \in Actors, o \in Orders :
          /\ orderLock'[o] = b <=> pc'[b] \in {"settle", "fail", "restore"} /\ target'[b] = o
          /\ paymentLock'[o] = b => pc'[b] \in {"order", "settle", "restore"} /\ target'[b] = o
  BY <1>1, <1>2 DEF RowsHeld
<1> QED
  BY <1>1, <1>2, <1>3 DEF RowsHeld

(* A transaction ends, and what it writes it has locked.                   *)
LEMMA RowsEnd ==
  ASSUME TypeOK, Roles, RowsHeld, NEW a \in Actors, NEW l \in {"done", "next", "idle"},
         Goto(a, l), Unlock(a), UNCHANGED target,
         \A o \in Orders : /\ paymentLock[o] # a => payment'[o] = payment[o]
                           /\ orderLock[o] # a => orderStatus'[o] = orderStatus[o]
  PROVE  RowsHeld'
<1>1. pc'[a] = l /\ \A b \in Actors \ {a} : pc'[b] = pc[b]
  BY DEF Goto, TypeOK
<1>2. /\ \A o \in Orders : orderLock'[o] = IF orderLock[o] = a THEN NoTx ELSE orderLock[o]
      /\ \A o \in Orders : paymentLock'[o] = IF paymentLock[o] = a THEN NoTx ELSE paymentLock[o]
  BY DEF Unlock, Without, TypeOK
<1>3. \A b \in Actors, o \in Orders :
          /\ orderLock'[o] = b <=> pc'[b] \in {"settle", "fail", "restore"} /\ target'[b] = o
          /\ paymentLock'[o] = b => pc'[b] \in {"order", "settle", "restore"} /\ target'[b] = o
  BY <1>1, <1>2 DEF RowsHeld
<1>4. \A d \in Deliveries :
          pc'[d] \in {"order", "settle", "restore"} => paymentLock'[target'[d]] = d
  BY <1>1, <1>2 DEF RowsHeld, Roles
<1>5. \A c \in Crons, o \in Orders : paymentLock'[o] = c => payment'[o] = "PENDING"
  BY <1>1, <1>2 DEF RowsHeld
<1>6. ASSUME NEW b \in Cancels, pc'[b] = "restore" PROVE orderStatus'[target'[b]] = "PENDING"
  <2>1. b # a /\ pc[b] = "restore" /\ target[b] \in Orders
    BY <1>1, <1>6 DEF Roles
  <2>2. orderLock[target[b]] = b
    BY <2>1 DEF RowsHeld
  <2> QED
    BY <2>1, <2>2 DEF RowsHeld
<1> QED
  BY <1>3, <1>4, <1>5, <1>6 DEF RowsHeld

(* An actor takes the row of its order, and with FailPayment and           *)
(* WritePayment that of the payment.                                       *)
LEMMA RowsLockOrder ==
  ASSUME TypeOK, Roles, RowsHeld, NEW a \in Actors, NEW l \in {"settle", "fail", "restore"},
         Goto(a, l), LockOrder(a), UNCHANGED <<paymentLock, target, payment, orderStatus>>,
         target[a] \in Orders,
         \/ a \in Cancels /\ orderStatus[target[a]] = "PENDING" /\ pc[a] = "idle"
         \/ a \in Deliveries /\ pc[a] = "order" /\ l \in {"settle", "restore"}
         \/ a \in Crons /\ pc[a] = "cancel"
  PROVE  RowsHeld'
<1>1. pc'[a] = l /\ \A b \in Actors \ {a} : pc'[b] = pc[b]
  BY DEF Goto, TypeOK
<1>2. /\ orderLock[target[a]] = NoTx
      /\ \A o \in Orders : orderLock'[o] = IF o = target[a] THEN a ELSE orderLock[o]
  BY DEF LockOrder, OrderFree, TypeOK
<1>3. \A b \in Actors, o \in Orders :
          orderLock'[o] = b <=> pc'[b] \in {"settle", "fail", "restore"} /\ target'[b] = o
  <2>1. \A o \in Orders : orderLock[o] # a
    BY DEF RowsHeld
  <2> QED
    BY <1>1, <1>2, <2>1 DEF RowsHeld
<1>4. \A b \in Actors, o \in Orders :
          paymentLock'[o] = b => pc'[b] \in {"order", "settle", "restore"} /\ target'[b] = o
  BY <1>1 DEF RowsHeld
<1>5. \A d \in Deliveries :
          pc'[d] \in {"order", "settle", "restore"} => paymentLock'[target'[d]] = d
  BY <1>1 DEF RowsHeld
<1> QED
  BY <1>1, <1>3, <1>4, <1>5 DEF RowsHeld

(* An actor takes the payment of its order.                                *)
LEMMA RowsLockPayment ==
  ASSUME TypeOK, Roles, RowsHeld, NEW a \in Actors, target[a] \in Orders, LockPayment(a),
         UNCHANGED <<orderLock, target, payment, orderStatus>>,
         \/ a \in Deliveries /\ pc[a] = "payment" /\ Goto(a, "order")
         \/ a \in Crons /\ pc[a] = "fail" /\ Goto(a, "restore") /\ payment[target[a]] = "PENDING"
  PROVE  RowsHeld'
<1>1. PICK l \in {"order", "restore"} :
          /\ Goto(a, l)
          /\ IF l = "order" THEN a \in Deliveries /\ pc[a] = "payment"
                            ELSE a \in Crons /\ pc[a] = "fail" /\ payment[target[a]] = "PENDING"
  OBVIOUS
<1>2. pc'[a] = l /\ \A b \in Actors \ {a} : pc'[b] = pc[b]
  BY <1>1 DEF Goto, TypeOK
<1>3. /\ paymentLock[target[a]] = NoTx
      /\ \A o \in Orders : paymentLock'[o] = IF o = target[a] THEN a ELSE paymentLock[o]
  BY DEF LockPayment, TypeOK
<1>4. \A b \in Actors, o \in Orders :
          orderLock'[o] = b <=> pc'[b] \in {"settle", "fail", "restore"} /\ target'[b] = o
  BY <1>1, <1>2 DEF RowsHeld
<1>5. \A b \in Actors, o \in Orders :
          paymentLock'[o] = b => pc'[b] \in {"order", "settle", "restore"} /\ target'[b] = o
  BY <1>2, <1>3 DEF RowsHeld
<1>6. \A d \in Deliveries :
          pc'[d] \in {"order", "settle", "restore"} => paymentLock'[target'[d]] = d
  BY <1>1, <1>2, <1>3 DEF RowsHeld, Roles
<1> QED
  BY <1>1, <1>2, <1>3, <1>4, <1>5, <1>6 DEF RowsHeld

(* The rows of orders and payments stay with their holders.                *)
LEMMA NextRowsHeld == TypeOK /\ Roles /\ RowsHeld /\ [Next]_vars => RowsHeld'
<1> SUFFICES ASSUME TypeOK, Roles, RowsHeld, [Next]_vars PROVE RowsHeld'
  OBVIOUS
<1>1. ASSUME NEW a \in Actors, Progress(a) PROVE RowsHeld'
  <2>1. CASE \/ RefuseCancel(a) \/ Acquire(a) \/ AlreadyProcessed(a) \/ Resolve(a)
             \/ Unresolved(a) \/ ReadOrder(a) \/ NothingToDo(a) \/ Scan(a) \/ ScanEnds(a)
             \/ NextExpired(a)
    <3>1. PICK l \in {"done", "resolve", "read", "unresolved", "payment", "next", "idle",
                      "cancel"} : Goto(a, l)
      BY <2>1 DEF RefuseCancel, Acquire, AlreadyProcessed, Resolve, Unresolved, ReadOrder,
           NothingToDo, Scan, ScanEnds, NextExpired, Answer
    <3>2. /\ UNCHANGED <<orderLock, paymentLock, payment, orderStatus>>
          /\ pc[a] \in {"idle", "resolve", "unresolved", "read", "next"}
      BY <2>1 DEF RefuseCancel, Acquire, AlreadyProcessed, Resolve, Unresolved, ReadOrder,
           NothingToDo, Scan, ScanEnds, NextExpired, locks, rows
    <3>3. UNCHANGED target \/ \E o \in batch[a] : target' = [target EXCEPT ![a] = o]
      BY <2>1 DEF RefuseCancel, Acquire, AlreadyProcessed, Resolve, Unresolved, ReadOrder,
           NothingToDo, Scan, ScanEnds, NextExpired, local
    <3>4. \A b \in Actors \ {a} : target'[b] = target[b]
      BY <3>3 DEF TypeOK
    <3> QED
      BY <3>1, <3>2, <3>4, RowsFrame
  <2>2. CASE Cancel(a)
    <3>1. target[a] \in Orders /\ Goto(a, "restore")
      BY <2>2 DEF Cancel, Roles, StartRestore
    <3> QED
      BY <2>2, <3>1, RowsLockOrder DEF Cancel, SelectOrder, Cancellable, rows
  <2>3. CASE WritePayment(a)
    <3>1. target[a] \in Orders /\ a \in Deliveries
      BY <2>3, TargetIsOrder DEF WritePayment, Roles, CancelPlaces, CronPlaces
    <3> QED
      BY <2>3, <3>1, RowsLockPayment DEF WritePayment, rows, local
  <2>4. CASE WriteOrder(a)
    <3>1. target[a] \in Orders /\ a \in Deliveries
      BY <2>4, TargetIsOrder DEF WriteOrder, Roles, CancelPlaces, CronPlaces
    <3>2. PICK l \in {"settle", "restore"} : Goto(a, l)
      BY <2>4 DEF WriteOrder, StartRestore
    <3> QED
      BY <2>4, <3>1, <3>2, RowsLockOrder DEF WriteOrder, rows
  <2>5. CASE CommitPaid(a)
    <3>1. target[a] \in Orders /\ a \in Deliveries /\ Goto(a, "done") /\ Unlock(a)
          /\ UNCHANGED target
      BY <2>5, TargetIsOrder DEF CommitPaid, Roles, CancelPlaces, CronPlaces, Answer, local
    <3>2. orderLock[target[a]] = a /\ paymentLock[target[a]] = a
      BY <2>5, <3>1 DEF CommitPaid, RowsHeld
    <3>3. \A o \in Orders : o # target[a] =>
              payment'[o] = payment[o] /\ orderStatus'[o] = orderStatus[o]
      BY <2>5 DEF CommitPaid, Record, TypeOK
    <3> QED
      BY <3>1, <3>2, <3>3, RowsEnd
  <2>6. CASE CancelExpired(a)
    <3>1. target[a] \in Orders /\ a \in Crons
      BY <2>6, TargetIsOrder DEF CancelExpired, Roles, CancelPlaces, DeliveryPlaces
    <3> QED
      BY <2>6, <3>1, RowsLockOrder DEF CancelExpired, rows, local
  <2>7. CASE FailPayment(a)
    <3>1. target[a] \in Orders /\ a \in Crons /\ Goto(a, "restore")
          /\ UNCHANGED <<orderLock, target, payment, orderStatus>>
      BY <2>7, TargetIsOrder DEF FailPayment, Roles, CancelPlaces, DeliveryPlaces, StartRestore,
           rows
    <3>2. CASE StillPending(target[a])
      BY <2>7, <3>1, <3>2, RowsLockPayment DEF FailPayment, StillPending
    <3>3. CASE ~ StillPending(target[a])
      <4>1. UNCHANGED paymentLock /\ pc[a] = "fail"
        BY <2>7, <3>3 DEF FailPayment
      <4>2. pc'[a] = "restore" /\ \A b \in Actors \ {a} : pc'[b] = pc[b]
        BY <3>1 DEF Goto, TypeOK
      <4> QED
        BY <3>1, <4>1, <4>2 DEF RowsHeld
    <3> QED
      BY <3>2, <3>3
  <2>8. ASSUME NEW p \in Products, RestoreRow(a, p) PROVE RowsHeld'
    BY <2>8 DEF RestoreRow, RowsHeld, rows
  <2>9. CASE CommitCancelled(a)
    <3>1. target[a] \in Orders /\ Unlock(a) /\ UNCHANGED target /\ pc[a] = "restore"
      BY <2>9, TargetIsOrder DEF CommitCancelled, local
    <3>2. PICK l \in {"done", "next"} : Goto(a, l)
      BY <2>9 DEF CommitCancelled, Answer
    <3>3. \A o \in Orders : orderLock[o] # a => orderStatus'[o] = orderStatus[o]
      BY <2>9, <3>1 DEF CommitCancelled, RowsHeld, TypeOK
    <3>4. \A o \in Orders : paymentLock[o] # a => payment'[o] = payment[o]
      <4>1. CASE a \in Deliveries
        <5>1. paymentLock[target[a]] = a /\ Record(a, "FAILED")
          BY <2>9, <3>1, <4>1 DEF CommitCancelled, RowsHeld
        <5> QED
          BY <5>1 DEF Record, TypeOK
      <4>2. CASE a \notin Deliveries
        BY <2>9, <4>2 DEF CommitCancelled
      <4> QED
        BY <4>1, <4>2
    <3> QED
      BY <3>1, <3>2, <3>3, <3>4, RowsEnd
  <2> QED
    BY <1>1, <2>1, <2>2, <2>3, <2>4, <2>5, <2>6, <2>7, <2>8, <2>9 DEF Progress
<1>2. ASSUME NEW a \in Actors, Abort(a) \/ TimeOut(a) PROVE RowsHeld'
  <2>1. GiveUp(a)
    BY <1>2 DEF Abort, TimeOut
  <2>2. PICK l \in {"idle", "done"} : Goto(a, l)
    BY <2>1 DEF GiveUp, Answer
  <2> QED
    BY <2>1, <2>2, RowsEnd DEF GiveUp, rows
<1>3. ASSUME NEW o \in Orders, SetStatus(o) PROVE RowsHeld'
  <2>1. /\ UNCHANGED <<orderLock, paymentLock, payment, pc, target>> /\ orderLock[o] = NoTx
        /\ \A q \in Orders : q # o => orderStatus'[q] = orderStatus[q]
    BY <1>3 DEF SetStatus, locks, local, TypeOK
  <2>2. ASSUME NEW b \in Cancels, pc[b] = "restore" PROVE target[b] # o /\ target[b] \in Orders
    BY <2>1, <2>2 DEF RowsHeld, Roles
  <2> QED
    BY <2>1, <2>2 DEF RowsHeld
<1>4. ASSUME NEW o \in Orders, ThirtyMinutesPass(o) PROVE RowsHeld'
  BY <1>4 DEF ThirtyMinutesPass, RowsHeld, rows, locks, local
<1>5. ASSUME NEW t \in Transactions, KeyExpires(t) PROVE RowsHeld'
  BY <1>5 DEF KeyExpires, RowsHeld, rows, locks, local
<1>6. CASE UNCHANGED vars
  BY <1>6 DEF vars, RowsHeld, rows, locks, local
<1> QED
  BY <1>1, <1>2, <1>3, <1>4, <1>5, <1>6 DEF Next

(* Who puts items back holds the stock rows of those it is done with.      *)
StockHeld ==
    /\ DOMAIN stockLock = Products
    /\ \A a \in Actors, p \in Products :
        /\ stockLock[p] = a => pc[a] = "restore"
        /\ pc[a] = "restore" /\ p \in ProductsIn(target[a]) \ todo[a] => stockLock[p] = a

(* Nobody holds a stock row at the start.                                  *)
LEMMA InitStockHeld == Init => StockHeld
  BY DEF Init, StockHeld

(* A step away from the stock.                                             *)
LEMMA StockFrame ==
  ASSUME TypeOK, StockHeld, NEW a \in Actors, NEW l, Goto(a, l),
         pc[a] # "restore", l # "restore",
         \A b \in Actors \ {a} : target'[b] = target[b] /\ todo'[b] = todo[b],
         UNCHANGED <<stockLock, orderItems>>
  PROVE  StockHeld'
<1>1. pc'[a] = l /\ \A b \in Actors \ {a} : pc'[b] = pc[b]
  BY DEF Goto, TypeOK
<1> QED
  BY <1>1 DEF StockHeld, ProductsIn

(* An actor begins to put back what its order has.                         *)
LEMMA StockStart ==
  ASSUME TypeOK, StockHeld, NEW a \in Actors, pc[a] # "restore", StartRestore(a),
         UNCHANGED <<target, stockLock, orderItems>>
  PROVE  StockHeld'
<1>1. pc'[a] = "restore" /\ \A b \in Actors \ {a} : pc'[b] = pc[b] /\ todo'[b] = todo[b]
  BY DEF StartRestore, Goto, TypeOK
<1>2. todo'[a] = ProductsIn(target[a])
  BY DEF StartRestore, TypeOK
<1> QED
  BY <1>1, <1>2 DEF StockHeld, ProductsIn

(* A transaction ends, and its stock rows are free.                        *)
LEMMA StockEnd ==
  ASSUME TypeOK, StockHeld, NEW a \in Actors, NEW l, Goto(a, l), l # "restore", Unlock(a),
         \A b \in Actors \ {a} : target'[b] = target[b] /\ todo'[b] = todo[b],
         UNCHANGED orderItems
  PROVE  StockHeld'
<1>1. pc'[a] = l /\ \A b \in Actors \ {a} : pc'[b] = pc[b]
  BY DEF Goto, TypeOK
<1>2. /\ DOMAIN stockLock' = Products
      /\ \A p \in Products : stockLock'[p] = IF stockLock[p] = a THEN NoTx ELSE stockLock[p]
  BY DEF Unlock, Without, StockHeld
<1>3. ASSUME NEW b \in Actors, NEW p \in Products
      PROVE  /\ stockLock'[p] = b => pc'[b] = "restore"
             /\ pc'[b] = "restore" /\ p \in ProductsIn(target[b])' \ todo'[b] => stockLock'[p] = b
  BY <1>1, <1>2 DEF StockHeld, ProductsIn
<1> QED
  BY <1>2, <1>3 DEF StockHeld, ProductsIn

(* A stock row is taken and done with.                                     *)
LEMMA StockRestoreRow ==
  ASSUME TypeOK, StockHeld, NEW a \in Actors, NEW p \in Products, RestoreRow(a, p)
  PROVE  StockHeld'
<1>1. /\ UNCHANGED <<pc, target, orderItems>> /\ pc[a] = "restore"
      /\ stockLock[p] = NoTx
  BY DEF RestoreRow, StockFree, orders
<1>2. /\ DOMAIN stockLock' = Products
      /\ \A q \in Products : stockLock'[q] = IF q = p THEN a ELSE stockLock[q]
      /\ todo'[a] = todo[a] \ {p}
      /\ \A b \in Actors \ {a} : todo'[b] = todo[b]
  BY DEF RestoreRow, TypeOK, StockHeld
<1> QED
  BY <1>1, <1>2 DEF StockHeld, ProductsIn

(* The stock rows stay with their holders.                                 *)
LEMMA NextStockHeld == TypeOK /\ Roles /\ StockHeld /\ [Next]_vars => StockHeld'
<1> SUFFICES ASSUME TypeOK, Roles, StockHeld, [Next]_vars PROVE StockHeld'
  OBVIOUS
<1>1. ASSUME NEW a \in Actors, Progress(a) PROVE StockHeld'
  <2>1. CASE \/ RefuseCancel(a) \/ Acquire(a) \/ AlreadyProcessed(a) \/ Resolve(a)
             \/ Unresolved(a) \/ ReadOrder(a) \/ NothingToDo(a) \/ WritePayment(a)
             \/ Scan(a) \/ ScanEnds(a) \/ NextExpired(a) \/ CancelExpired(a)
    <3>1. PICK l \in {"done", "resolve", "read", "unresolved", "payment", "order", "next",
                      "idle", "cancel", "fail"} : Goto(a, l)
      BY <2>1 DEF RefuseCancel, Acquire, AlreadyProcessed, Resolve, Unresolved, ReadOrder,
           NothingToDo, WritePayment, Scan, ScanEnds, NextExpired, CancelExpired, Answer
    <3>2. UNCHANGED <<stockLock, orderItems, todo>> /\ pc[a] # "restore"
      BY <2>1 DEF RefuseCancel, Acquire, AlreadyProcessed, Resolve, Unresolved, ReadOrder,
           NothingToDo, WritePayment, Scan, ScanEnds, NextExpired, CancelExpired, locks,
           orders, local
    <3>3. UNCHANGED target \/ \E o \in batch[a] : target' = [target EXCEPT ![a] = o]
      BY <2>1 DEF RefuseCancel, Acquire, AlreadyProcessed, Resolve, Unresolved, ReadOrder,
           NothingToDo, WritePayment, Scan, ScanEnds, NextExpired, CancelExpired, local
    <3>4. \A b \in Actors \ {a} : target'[b] = target[b]
      BY <3>3 DEF TypeOK
    <3> QED
      BY <3>1, <3>2, <3>4, StockFrame
  <2>2. CASE Cancel(a) \/ FailPayment(a)
    <3>1. StartRestore(a) /\ UNCHANGED <<target, stockLock, orderItems>> /\ pc[a] # "restore"
      BY <2>2 DEF Cancel, FailPayment, orders
    <3> QED
      BY <3>1, StockStart
  <2>3. CASE WriteOrder(a)
    <3>1. UNCHANGED <<target, stockLock, orderItems>> /\ pc[a] # "restore"
      BY <2>3 DEF WriteOrder, orders
    <3>2. StartRestore(a) \/ (Goto(a, "settle") /\ UNCHANGED todo)
      BY <2>3 DEF WriteOrder
    <3> QED
      BY <3>1, <3>2, StockStart, StockFrame
  <2>4. CASE CommitPaid(a) \/ CommitCancelled(a)
    <3>1. PICK l \in {"done", "next"} : Goto(a, l)
      BY <2>4 DEF CommitPaid, CommitCancelled, Answer
    <3> QED
      BY <2>4, <3>1, StockEnd DEF CommitPaid, CommitCancelled, orders, local
  <2>5. ASSUME NEW p \in Products, RestoreRow(a, p) PROVE StockHeld'
    BY <2>5, StockRestoreRow
  <2> QED
    BY <1>1, <2>1, <2>2, <2>3, <2>4, <2>5 DEF Progress
<1>2. ASSUME NEW a \in Actors, Abort(a) \/ TimeOut(a) PROVE StockHeld'
  <2>1. GiveUp(a)
    BY <1>2 DEF Abort, TimeOut
  <2>2. PICK l \in {"idle", "done"} : Goto(a, l)
    BY <2>1 DEF GiveUp, Answer
  <2>3. \A b \in Actors \ {a} : todo'[b] = todo[b]
    BY <2>1 DEF GiveUp, TypeOK
  <2> QED
    BY <2>1, <2>2, <2>3, StockEnd DEF GiveUp, orders
<1>3. ASSUME NEW o \in Orders, ThirtyMinutesPass(o) \/ SetStatus(o) PROVE StockHeld'
  BY <1>3 DEF ThirtyMinutesPass, SetStatus, StockHeld, ProductsIn, orders, locks, local
<1>4. ASSUME NEW t \in Transactions, KeyExpires(t) PROVE StockHeld'
  BY <1>4 DEF KeyExpires, StockHeld, ProductsIn, orders, locks, local
<1>5. CASE UNCHANGED vars
  BY <1>5 DEF vars, StockHeld, ProductsIn, orders, locks, local
<1> QED
  BY <1>1, <1>2, <1>3, <1>4, <1>5 DEF Next

(* A key in Redis belongs to the one delivery that is at its transaction,  *)
(* and the transaction was not applied since the last time the key reached *)
(* its hour; once it is, its key or, when the callback does not name the   *)
(* order, the reference it left in the payment keeps every other delivery  *)
(* out.                                                                    *)
InFlight(d) == pc[d] \notin {"idle", "done"}
Resolved(d) == pc[d] \in {"read", "payment", "order", "settle", "restore"}
Spent(t) == IF t \in echoed THEN lapsed[t] ELSE 0
DeliveryKey(d) ==
    /\ InFlight(d) => TxnOf[d] \in keys
    /\ Resolved(d) => applied[TxnOf[d]] <= Spent(TxnOf[d])
    /\ pc[d] = "resolve" /\ TxnOf[d] \in echoed => applied[TxnOf[d]] <= lapsed[TxnOf[d]]
    /\ pc[d] = "unresolved" => TxnOf[d] \notin echoed
OneInFlight ==
    \A d, e \in Deliveries : InFlight(d) /\ InFlight(e) /\ TxnOf[d] = TxnOf[e] => d = e
AppliedKey(t) ==
    /\ applied[t] <= 1 + Spent(t)
    /\ t \notin echoed /\ applied[t] > 0 => paymentRef[OrderOf[t]] # IntentionId
    /\ t \in echoed /\ t \notin keys => applied[t] <= lapsed[t]
KeysHeld ==
    /\ \A d \in Deliveries : DeliveryKey(d)
    /\ OneInFlight
    /\ \A t \in Transactions : AppliedKey(t)

(* The reference of a payment that names a transaction names one that was  *)
(* applied to this order.                                                  *)
RefsApplied ==
    \A o \in Orders : paymentRef[o] \in Transactions =>
        OrderOf[paymentRef[o]] = o /\ applied[paymentRef[o]] > 0

(* No key is taken and no transaction applied at the start.                *)
LEMMA InitKeysHeld == Init => KeysHeld /\ RefsApplied
  BY InitTypeOK DEF Init, KeysHeld, DeliveryKey, OneInFlight, AppliedKey, RefsApplied, InFlight,
       Resolved, Spent, TypeOK

(* Steps that leave the keys and the payments alone: of cancels, of the    *)
(* job, and of a delivery that goes on with its transaction or ends.       *)
LEMMA KeysFrame ==
  ASSUME TypeOK, KeysHeld, NEW a \in Actors, NEW l, Goto(a, l),
         UNCHANGED <<keys, applied, paymentRef, echoed, lapsed>>,
         \/ a \notin Deliveries
         \/ l = "done"
         \/ Resolved(a) /\ l \in {"read", "payment", "order", "settle", "restore"}
  PROVE  KeysHeld'
<1>1. pc'[a] = l /\ \A b \in Actors \ {a} : pc'[b] = pc[b]
  BY DEF Goto, TypeOK
<1>2. ASSUME NEW d \in Deliveries
      PROVE  /\ InFlight(d)' => InFlight(d)
             /\ Resolved(d)' => Resolved(d)
             /\ pc'[d] \in {"resolve", "unresolved"} => pc'[d] = pc[d]
  BY <1>1 DEF InFlight, Resolved
<1> QED
  BY <1>2 DEF KeysHeld, DeliveryKey, OneInFlight, AppliedKey, Spent

(* A step of one delivery leaves the others where they are.                *)
LEMMA OthersStay ==
  ASSUME TypeOK, NEW d \in Actors, NEW l, Goto(d, l)
  PROVE  pc'[d] = l /\ \A e \in Deliveries \ {d} : pc'[e] = pc[e]
  BY DEF Goto, TypeOK

(* A delivery gets the key of a transaction that no other is at.           *)
LEMMA KeysAcquire ==
  ASSUME TypeOK, Roles, KeysHeld, NEW d \in Deliveries, Acquire(d)
  PROVE  KeysHeld'
<1>1. /\ TxnOf[d] \notin keys /\ keys' = keys \cup {TxnOf[d]}
      /\ UNCHANGED <<applied, paymentRef, echoed, lapsed>> /\ Goto(d, "resolve")
  BY DEF Acquire, IsNew, rows, orders
<1>2. /\ pc'[d] = "resolve" /\ InFlight(d)' /\ ~ Resolved(d)'
      /\ \A e \in Deliveries \ {d} : pc'[e] = pc[e]
  BY <1>1, OthersStay DEF InFlight, Resolved
<1>3. \A e \in Deliveries : InFlight(e) => TxnOf[e] # TxnOf[d]
  BY <1>1 DEF KeysHeld, DeliveryKey
<1>4. TxnOf[d] \in echoed => applied[TxnOf[d]] <= lapsed[TxnOf[d]]
  BY <1>1 DEF KeysHeld, AppliedKey
<1>5. DeliveryKey(d)'
  BY <1>1, <1>2, <1>4 DEF DeliveryKey
<1>6. ASSUME NEW e \in Deliveries \ {d} PROVE DeliveryKey(e)'
  BY <1>1, <1>2 DEF DeliveryKey, KeysHeld, InFlight, Resolved, Spent
<1>7. OneInFlight'
  BY <1>2, <1>3 DEF OneInFlight, KeysHeld, InFlight
<1>8. ASSUME NEW t \in Transactions PROVE AppliedKey(t)'
  BY <1>1 DEF AppliedKey, KeysHeld, Spent
<1> QED
  BY <1>5, <1>6, <1>7, <1>8 DEF KeysHeld

(* A delivery that finds its order finds the intention's id, or is told.   *)
LEMMA KeysResolve ==
  ASSUME TypeOK, Roles, KeysHeld, NEW d \in Deliveries, Resolve(d)
  PROVE  KeysHeld'
<1> DEFINE l == IF Resolvable(TxnOf[d]) THEN "read" ELSE "unresolved"
<1>1. /\ pc[d] = "resolve" /\ UNCHANGED <<keys, applied, paymentRef, echoed, lapsed>>
      /\ Goto(d, l)
  BY DEF Resolve, rows, orders
<1>2. /\ pc'[d] = l /\ InFlight(d) /\ InFlight(d)'
      /\ \A e \in Deliveries \ {d} : pc'[e] = pc[e]
  BY <1>1, OthersStay DEF InFlight
<1>3. Resolvable(TxnOf[d]) => applied[TxnOf[d]] <= Spent(TxnOf[d])
  <2>1. AppliedKey(TxnOf[d]) /\ DeliveryKey(d) /\ applied[TxnOf[d]] \in Nat
    BY DEF KeysHeld, TypeOK
  <2> QED
    BY <1>1, <2>1 DEF DeliveryKey, AppliedKey, Resolvable, Spent
<1>4. Resolved(d)' => Resolvable(TxnOf[d])
  BY <1>2 DEF Resolved
<1>5. pc'[d] = "unresolved" => TxnOf[d] \notin echoed
  BY <1>2 DEF Resolvable
<1>6. pc'[d] # "resolve" /\ TxnOf[d] \in keys
  BY <1>2 DEF KeysHeld, DeliveryKey
<1>7. DeliveryKey(d)'
  BY <1>1, <1>3, <1>4, <1>5, <1>6 DEF DeliveryKey, Spent
<1>8. ASSUME NEW e \in Deliveries \ {d} PROVE DeliveryKey(e)'
  BY <1>1, <1>2 DEF DeliveryKey, KeysHeld, InFlight, Resolved, Spent
<1>9. OneInFlight'
  BY <1>2 DEF OneInFlight, KeysHeld, InFlight
<1>10. ASSUME NEW t \in Transactions PROVE AppliedKey(t)'
  BY <1>1 DEF AppliedKey, KeysHeld, Spent
<1> QED
  BY <1>7, <1>8, <1>9, <1>10 DEF KeysHeld

(* The key that is given up is that of a callback without an order id.     *)
LEMMA KeysUnresolved ==
  ASSUME TypeOK, Roles, KeysHeld, NEW d \in Deliveries, Unresolved(d)
  PROVE  KeysHeld'
<1>1. /\ pc[d] = "unresolved" /\ UNCHANGED <<applied, paymentRef, echoed, lapsed>>
      /\ keys' = keys \ {TxnOf[d]} /\ Goto(d, "done")
  BY DEF Unresolved, rows, orders, Answer
<1>2. /\ pc'[d] = "done" /\ InFlight(d) /\ ~ InFlight(d)' /\ ~ Resolved(d)'
      /\ \A e \in Deliveries \ {d} : pc'[e] = pc[e]
  BY <1>1, OthersStay DEF InFlight, Resolved
<1>3. TxnOf[d] \notin echoed
  BY <1>1 DEF KeysHeld, DeliveryKey
<1>4. \A e \in Deliveries \ {d} : InFlight(e) => TxnOf[e] # TxnOf[d]
  BY <1>2 DEF KeysHeld, OneInFlight
<1>5. DeliveryKey(d)'
  BY <1>2, <1>3 DEF DeliveryKey
<1>6. ASSUME NEW e \in Deliveries \ {d} PROVE DeliveryKey(e)'
  BY <1>1, <1>2, <1>4 DEF DeliveryKey, KeysHeld, InFlight, Resolved, Spent
<1>7. OneInFlight'
  BY <1>2 DEF OneInFlight, KeysHeld, InFlight
<1>8. ASSUME NEW t \in Transactions PROVE AppliedKey(t)'
  BY <1>1, <1>3 DEF AppliedKey, KeysHeld, Spent
<1> QED
  BY <1>5, <1>6, <1>7, <1>8 DEF KeysHeld

(* A transaction is written by the one delivery that is at it.             *)
LEMMA KeysRecord ==
  ASSUME TypeOK, Roles, KeysHeld, NEW d \in Deliveries, NEW s, Record(d, s), Resolved(d),
         Goto(d, "done"), UNCHANGED <<keys, echoed, lapsed>>
  PROVE  KeysHeld'
<1>1. /\ pc'[d] = "done" /\ InFlight(d) /\ ~ InFlight(d)' /\ ~ Resolved(d)'
      /\ \A e \in Deliveries \ {d} : pc'[e] = pc[e]
  BY OthersStay DEF InFlight, Resolved
<1>2. \A t \in Transactions : applied'[t] = IF t = TxnOf[d] THEN applied[t] + 1 ELSE applied[t]
  BY DEF Record, TypeOK
<1>3. \A o \in Orders : paymentRef'[o] = IF o = OrderOf[TxnOf[d]] THEN TxnOf[d] ELSE paymentRef[o]
  BY DEF Record, TypeOK, Roles
<1>4. applied[TxnOf[d]] <= Spent(TxnOf[d]) /\ TxnOf[d] \in keys
  BY <1>1 DEF KeysHeld, DeliveryKey
<1>5. \A e \in Deliveries \ {d} : InFlight(e) => applied'[TxnOf[e]] = applied[TxnOf[e]]
  BY <1>1, <1>2 DEF KeysHeld, OneInFlight
<1>6. DeliveryKey(d)'
  BY <1>1 DEF DeliveryKey
<1>7. ASSUME NEW e \in Deliveries \ {d} PROVE DeliveryKey(e)'
  <2>1. DeliveryKey(e) /\ pc'[e] = pc[e]
    BY <1>1 DEF KeysHeld
  <2> QED
    BY <2>1, <1>5 DEF DeliveryKey, InFlight, Resolved, Spent
<1>8. OneInFlight'
  BY <1>1 DEF OneInFlight, KeysHeld, InFlight
<1>9. ASSUME NEW t \in Transactions PROVE AppliedKey(t)'
  <2>1. /\ AppliedKey(t) /\ applied[t] \in Nat /\ lapsed[t] \in Nat
        /\ OrderOf[t] \in Orders /\ TxnOf[d] # IntentionId
    BY DEF KeysHeld, TypeOK
  <2> QED
    BY <1>2, <1>3, <1>4, <2>1 DEF AppliedKey, Spent
<1> QED
  BY <1>6, <1>7, <1>8, <1>9 DEF KeysHeld

(* A key that reaches its hour lets a callback that names its order in     *)
(* once more; any other finds no intention's id any more.                  *)
LEMMA KeysExpire ==
  ASSUME TypeOK, KeysHeld, NEW t \in Transactions, KeyExpires(t)
  PROVE  KeysHeld'
<1>1. /\ keys' = keys \ {t} /\ UNCHANGED <<pc, applied, paymentRef, echoed>>
      /\ \A d \in Deliveries : TxnOf[d] = t => ~ InFlight(d)
      /\ t \in Transactions
  BY DEF KeyExpires, InFlight, rows
<1>2. \A u \in Transactions : /\ lapsed'[u] = IF u = t THEN lapsed[u] + 1 ELSE lapsed[u]
                              /\ lapsed[u] \in Nat /\ applied[u] \in Nat
  BY DEF KeyExpires, TypeOK
<1>3. ASSUME NEW d \in Deliveries PROVE DeliveryKey(d)'
  <2>1. CASE TxnOf[d] = t
    BY <1>1, <2>1 DEF DeliveryKey, InFlight, Resolved
  <2>2. CASE TxnOf[d] # t
    <3>1. DeliveryKey(d)
      BY DEF KeysHeld
    <3> QED
      BY <1>1, <1>2, <2>2, <3>1 DEF DeliveryKey, InFlight, Resolved, Spent
  <2> QED
    BY <2>1, <2>2
<1>4. ASSUME NEW u \in Transactions PROVE AppliedKey(u)'
  <2>1. AppliedKey(u)
    BY DEF KeysHeld
  <2> QED
    BY <1>1, <1>2, <2>1 DEF AppliedKey, Spent
<1>5. OneInFlight'
  BY <1>1 DEF KeysHeld, OneInFlight, InFlight
<1> QED
  BY <1>3, <1>4, <1>5 DEF KeysHeld

(* The keys are inductive.                                                 *)
LEMMA NextKeysHeld == TypeOK /\ Roles /\ KeysHeld /\ [Next]_vars => KeysHeld'
<1> SUFFICES ASSUME TypeOK, Roles, KeysHeld, [Next]_vars PROVE KeysHeld'
  OBVIOUS
<1>1. ASSUME NEW a \in Actors, Progress(a) PROVE KeysHeld'
  <2>1. CASE \/ Cancel(a) \/ RefuseCancel(a) \/ Scan(a) \/ NextExpired(a) \/ ScanEnds(a)
             \/ CancelExpired(a) \/ FailPayment(a)
    <3>1. a \notin Deliveries /\ UNCHANGED <<keys, applied, paymentRef, echoed, lapsed>>
      BY <2>1 DEF Cancel, RefuseCancel, Scan, NextExpired, ScanEnds, CancelExpired, FailPayment,
           Roles, DeliveryPlaces, rows, orders
    <3>2. PICK l \in {"restore", "done", "next", "cancel", "idle", "fail"} : Goto(a, l)
      BY <2>1 DEF Cancel, RefuseCancel, Scan, NextExpired, ScanEnds, CancelExpired, FailPayment,
           StartRestore, Answer
    <3> QED
      BY <3>1, <3>2, KeysFrame
  <2>2. CASE Acquire(a) \/ Resolve(a) \/ Unresolved(a)
    <3>1. a \in Deliveries
      BY <2>2 DEF Acquire, Resolve, Unresolved, Roles, CancelPlaces, CronPlaces
    <3> QED
      BY <2>2, <3>1, KeysAcquire, KeysResolve, KeysUnresolved
  <2>3. CASE AlreadyProcessed(a) \/ ReadOrder(a) \/ NothingToDo(a) \/ WritePayment(a)
             \/ WriteOrder(a)
    <3>1. UNCHANGED <<keys, applied, paymentRef, echoed, lapsed>>
      BY <2>3 DEF AlreadyProcessed, ReadOrder, NothingToDo, WritePayment, WriteOrder, rows, orders
    <3>2. PICK l \in {"done", "payment", "order", "settle", "restore"} :
              Goto(a, l) /\ (l # "done" => Resolved(a))
      BY <2>3 DEF AlreadyProcessed, ReadOrder, NothingToDo, WritePayment, WriteOrder,
           StartRestore, Answer, Resolved
    <3> QED
      BY <3>1, <3>2, KeysFrame
  <2>4. CASE CommitPaid(a)
    <3>1. a \in Deliveries /\ Resolved(a) /\ Goto(a, "done")
      BY <2>4 DEF CommitPaid, Roles, CancelPlaces, CronPlaces, Resolved, Answer
    <3> QED
      BY <2>4, <3>1, KeysRecord DEF CommitPaid, orders
  <2>5. ASSUME NEW p \in Products, RestoreRow(a, p) PROVE KeysHeld'
    BY <2>5 DEF RestoreRow, KeysHeld, DeliveryKey, OneInFlight, AppliedKey, InFlight,
         Resolved, Spent, rows, orders
  <2>6. CASE CommitCancelled(a)
    <3>1. CASE a \in Deliveries
      <4>1. Resolved(a) /\ Goto(a, "done") /\ Record(a, "FAILED") /\ UNCHANGED <<keys, echoed, lapsed>>
        BY <2>6, <3>1 DEF CommitCancelled, Resolved, Answer, orders
      <4> QED
        BY <3>1, <4>1, KeysRecord
    <3>2. CASE a \notin Deliveries
      <4>1. PICK l \in {"done", "next"} : Goto(a, l)
        BY <2>6 DEF CommitCancelled, Answer
      <4>2. UNCHANGED <<keys, applied, paymentRef, echoed, lapsed>>
        BY <2>6, <3>2 DEF CommitCancelled, orders
      <4> QED
        BY <3>2, <4>1, <4>2, KeysFrame
    <3> QED
      BY <3>1, <3>2
  <2> QED
    BY <1>1, <2>1, <2>2, <2>3, <2>4, <2>5, <2>6 DEF Progress
<1>2. ASSUME NEW a \in Actors, Abort(a) \/ TimeOut(a) PROVE KeysHeld'
  <2>1. GiveUp(a)
    BY <1>2 DEF Abort, TimeOut
  <2>2. UNCHANGED <<keys, applied, paymentRef, echoed, lapsed>>
    BY <2>1 DEF GiveUp, rows, orders
  <2>3. PICK l \in {"idle", "done"} : Goto(a, l) /\ (a \notin Crons => l = "done")
    BY <2>1 DEF GiveUp, Answer
  <2> QED
    BY <2>2, <2>3, KeysFrame
<1>3. ASSUME NEW o \in Orders, ThirtyMinutesPass(o) \/ SetStatus(o) PROVE KeysHeld'
  BY <1>3 DEF ThirtyMinutesPass, SetStatus, KeysHeld, DeliveryKey, OneInFlight, AppliedKey,
       InFlight, Resolved, Spent, rows, orders
<1>4. ASSUME NEW t \in Transactions, KeyExpires(t) PROVE KeysHeld'
  BY <1>4, KeysExpire
<1>5. CASE UNCHANGED vars
  BY <1>5 DEF vars, KeysHeld, DeliveryKey, OneInFlight, AppliedKey, InFlight,
         Resolved, Spent, rows, orders
<1> QED
  BY <1>1, <1>2, <1>3, <1>4, <1>5 DEF Next

(* The only steps that write a reference count the application with it.    *)
LEMMA RefsRecord ==
  ASSUME TypeOK, Roles, RefsApplied, NEW d \in Deliveries, NEW s, Record(d, s)
  PROVE  RefsApplied'
<1>1. /\ \A t \in Transactions : applied'[t] = IF t = TxnOf[d] THEN applied[t] + 1 ELSE applied[t]
      /\ \A o \in Orders : paymentRef'[o] = IF o = OrderOf[TxnOf[d]] THEN TxnOf[d] ELSE paymentRef[o]
  BY DEF Record, TypeOK, Roles
<1>2. \A t \in Transactions : applied[t] \in Nat
  BY DEF TypeOK
<1> QED
  BY <1>1, <1>2 DEF RefsApplied

(* The references are inductive.                                           *)
LEMMA NextRefsApplied == TypeOK /\ Roles /\ RefsApplied /\ [Next]_vars => RefsApplied'
<1> SUFFICES ASSUME TypeOK, Roles, RefsApplied, [Next]_vars,
                    ~ UNCHANGED <<applied, paymentRef>>
             PROVE  RefsApplied'
  BY DEF RefsApplied
<1>1. PICK a \in Actors : CommitPaid(a) \/ CommitCancelled(a)
  BY DEF Next, Progress, Cancel, RefuseCancel, Acquire, AlreadyProcessed, Resolve, Unresolved,
       ReadOrder, NothingToDo, WritePayment, WriteOrder, Scan, NextExpired, ScanEnds,
       CancelExpired, FailPayment, RestoreRow, Abort, TimeOut, GiveUp, ThirtyMinutesPass,
       SetStatus, KeyExpires, rows, vars
<1>2. a \in Deliveries /\ \E s \in {"PAID", "FAILED"} : Record(a, s)
  BY <1>1 DEF CommitPaid, CommitCancelled, Roles, CancelPlaces, CronPlaces
<1> QED
  BY <1>2, RefsRecord

(* The orders whose items are out of the stock.                            *)
Out == Open \cup withdrawn

(* What an order holds of a product, and all orders together; no order     *)
(* holds less than nothing of what is counted.                             *)
LEMMA PiecesFacts ==
  ASSUME TypeOK, NEW p \in Products
  PROVE  /\ IsFiniteSet(Out) /\ Out \subseteq Orders
         /\ \A o \in Orders : Pieces(orderItems, p)[o] = Amount(orderItems[o][p])
         /\ \A o \in Orders : Pieces(orderItems, p)[o] \in Int
         /\ Countable(p) => \A o \in Orders : Pieces(orderItems, p)[o] >= 0
         /\ Held(p) = SumFunctionOnSet(Pieces(orderItems, p), Out) /\ Held(p) \in Int
<1>1. IsFiniteSet(Out) /\ Out \subseteq Orders
  <2>1. Out \subseteq Orders
    BY DEF Out, Open, TypeOK
  <2> QED
    BY <2>1, OrdersAssumption, FS_Subset
<1>2. \A o \in Orders : Pieces(orderItems, p)[o] = Amount(orderItems[o][p])
  BY DEF Pieces
<1>3. \A o \in Orders : Pieces(orderItems, p)[o] \in Int
  <2>1. \A o \in Orders : orderItems[o][p] \in Int \cup {NoRow}
    BY DEF TypeOK
  <2> QED
    BY <1>2, <2>1, AmountType
<1>4. Countable(p) => \A o \in Orders : Pieces(orderItems, p)[o] >= 0
  BY <1>2 DEF Countable
<1>5. Held(p) = SumFunctionOnSet(Pieces(orderItems, p), Out)
  BY DEF Held, Out
<1>6. Held(p) \in Int
  BY <1>1, <1>3, <1>5, SumInt
<1> QED
  BY <1>1, <1>2, <1>3, <1>4, <1>5, <1>6

(* At the start every order's items are out.                               *)
LEMMA InitNoStockLost == Init => NoStockLost
<1> SUFFICES ASSUME Init, NEW p \in Products PROVE stock[p] + Held(p) >= Total(p)
  BY DEF NoStockLost
<1>1. TypeOK /\ orderItems = Items /\ stock = InitialStock /\ Out = Orders
  BY InitTypeOK DEF Init, Open, Out
<1>2. Held(p) = SumFunctionOnSet(Pieces(Items, p), Orders) /\ Held(p) \in Int
  BY <1>1, PiecesFacts
<1> QED
  BY <1>1, <1>2 DEF Total, TypeOK

(* An order that enters the account adds what it holds.                    *)
LEMMA EntryKeepsHeld ==
  ASSUME TypeOK, NEW o \in Orders, UNCHANGED orderItems, NEW p \in Products, Countable(p),
         Out' = Out \/ Out' = Out \cup {o}
  PROVE  Held(p)' \in Int /\ Held(p)' >= Held(p)
<1> DEFINE f == Pieces(orderItems, p)
<1>1. /\ IsFiniteSet(Out) /\ \A x \in Out : f[x] \in Int
      /\ f[o] \in Int /\ f[o] >= 0 /\ Held(p) \in Int /\ Held(p) = SumFunctionOnSet(f, Out)
  BY PiecesFacts
<1>2. Held(p)' = SumFunctionOnSet(f, Out')
  BY DEF Held, Pieces, Out
<1> HIDE DEF f
<1>3. CASE Out' = Out
  <2>1. SumFunctionOnSet(f, Out') = SumFunctionOnSet(f, Out)
    BY <1>3, Zenon
  <2> QED
    BY <1>1, <1>2, <2>1
<1>4. CASE Out' = Out \cup {o} /\ o \notin Out
  <2>1. SumFunctionOnSet(f, Out') = SumFunctionOnSet(f, Out \cup {o})
    BY <1>4, Zenon
  <2>2. SumFunctionOnSet(f, Out \cup {o}) = f[o] + SumFunctionOnSet(f, Out)
    BY <1>1, <1>4, SumAdd
  <2> QED
    BY <1>1, <1>2, <2>1, <2>2
<1>5. CASE Out' = Out \cup {o} /\ o \in Out
  <2>1. Out' = Out
    BY <1>5
  <2> QED
    BY <1>3, <2>1
<1> QED
  BY <1>3, <1>4, <1>5

(* An order whose items are given back leaves it with what it held; one    *)
(* that had left it already adds to the stock.                             *)
LEMMA GivenBackKeepsSum ==
  ASSUME TypeOK, NEW o \in Orders, UNCHANGED orderItems, stock' = Returned(o),
         Out' = Out \ {o}, NEW p \in Products, Countable(p)
  PROVE  stock'[p] + Held(p)' >= stock[p] + Held(p)
<1> DEFINE f == Pieces(orderItems, p)
<1>1. /\ IsFiniteSet(Out) /\ \A x \in Out : f[x] \in Int
      /\ f[o] \in Int /\ f[o] >= 0 /\ f[o] = Amount(orderItems[o][p])
      /\ Held(p) \in Int /\ Held(p) = SumFunctionOnSet(f, Out)
  BY PiecesFacts
<1>2. Held(p)' = SumFunctionOnSet(f, Out')
  BY DEF Held, Pieces, Out
<1>3. stock'[p] = stock[p] + f[o] /\ stock[p] \in Int
  BY <1>1 DEF Returned, TypeOK
<1> HIDE DEF f
<1>4. SumFunctionOnSet(f, Out') = SumFunctionOnSet(f, Out \ {o})
  BY Zenon
<1>5. CASE o \in Out
  <2>1. SumFunctionOnSet(f, Out) = f[o] + SumFunctionOnSet(f, Out \ {o})
    BY <1>1, <1>5, SumRemove
  <2>2. IsFiniteSet(Out \ {o}) /\ SumFunctionOnSet(f, Out \ {o}) \in Int
    BY <1>1, FS_Subset, SumInt
  <2> QED
    BY <1>1, <1>2, <1>3, <1>4, <2>1, <2>2
<1>6. CASE o \notin Out
  <2>1. SumFunctionOnSet(f, Out \ {o}) = SumFunctionOnSet(f, Out)
    <3>1. Out \ {o} = Out
      BY <1>6
    <3> QED
      BY <3>1, Zenon
  <2> QED
    BY <1>1, <1>2, <1>3, <1>4, <2>1
<1> QED
  BY <1>5, <1>6

AmountsAreInt ==
    \A p \in Products : stock[p] \in Int /\ Held(p) \in Int /\ Total(p) \in Int

(* The amounts of the account are numbers.                                 *)
LEMMA AmountsTyped == TypeOK => AmountsAreInt
<1> SUFFICES ASSUME TypeOK, NEW p \in Products
             PROVE  stock[p] \in Int /\ Held(p) \in Int /\ Total(p) \in Int
  BY DEF AmountsAreInt
<1>1. Total(p) \in Int
  <2>1. \A o \in Orders : Items[o][p] \in Int \cup {NoRow}
    BY OrdersAssumption
  <2>2. \A o \in Orders : Pieces(Items, p)[o] \in Int
    BY <2>1, AmountType DEF Pieces
  <2>3. SumFunctionOnSet(Pieces(Items, p), Orders) \in Int
    BY <2>2, SumInt, OrdersAssumption
  <2> QED
    BY <2>3, OrdersAssumption DEF Total
<1>2. stock[p] \in Int
  BY DEF TypeOK
<1>3. Held(p) \in Int
  BY PiecesFacts
<1> QED
  BY <1>1, <1>2, <1>3

(* What an administrator cancels stays in the account, and what he takes   *)
(* back from CANCELLED enters it.                                          *)
LEMMA StatusKeepsOut ==
  ASSUME TypeOK, NEW o \in Orders, SetStatus(o)
  PROVE  Out' = Out \/ Out' = Out \cup {o}
<1>1. PICK s \in AdminStatuses :
          /\ orderStatus' = [orderStatus EXCEPT ![o] = s]
          /\ withdrawn' = IF s = "CANCELLED" /\ orderStatus[o] # s
                          THEN withdrawn \cup {o} ELSE withdrawn
  BY DEF SetStatus
<1>2. \A q \in Orders : orderStatus'[q] = IF q = o THEN s ELSE orderStatus[q]
  BY <1>1 DEF TypeOK
<1>3. CASE s = "CANCELLED" /\ orderStatus[o] # s
  <2>1. Open' = Open \ {o} /\ o \in Open /\ withdrawn' = withdrawn \cup {o}
    BY <1>1, <1>2, <1>3 DEF Open
  <2> QED
    BY <2>1 DEF Out
<1>4. CASE s = "CANCELLED" /\ orderStatus[o] = s
  <2>1. Open' = Open /\ withdrawn' = withdrawn
    BY <1>1, <1>2, <1>4 DEF Open
  <2> QED
    BY <2>1 DEF Out
<1>5. CASE s # "CANCELLED"
  <2>1. Open' = Open \cup {o} /\ withdrawn' = withdrawn
    BY <1>1, <1>2, <1>5 DEF Open
  <2> QED
    BY <2>1 DEF Out
<1> QED
  BY <1>3, <1>4, <1>5

(* No step takes a piece out of the account.                               *)
LEMMA NextLosesNoPiece ==
  ASSUME TypeOK, Roles, [Next]_vars, NEW p \in Products, Countable(p)
  PROVE  stock[p] + Held(p) <= stock'[p] + Held(p)'
<1>0. stock[p] \in Int /\ Held(p) \in Int
  BY PiecesFacts DEF TypeOK
<1>1. CASE UNCHANGED <<stock, orderItems, orderStatus, withdrawn>>
  <2>1. Held(p)' = Held(p)
    BY <1>1 DEF Held, Pieces, Open
  <2> QED
    BY <1>0, <1>1, <2>1
<1>2. ASSUME NEW a \in Actors, CommitPaid(a)
      PROVE  stock[p] + Held(p) <= stock'[p] + Held(p)'
  <2>1. /\ target[a] \in Orders /\ UNCHANGED <<stock, orderItems, withdrawn>>
        /\ orderStatus' = [orderStatus EXCEPT ![target[a]] = "PROCESSING"]
    BY <1>2, TargetIsOrder DEF CommitPaid, orders
  <2>2. Open' = Open \cup {target[a]}
    BY <2>1 DEF Open, TypeOK
  <2>3. Out' = Out \cup {target[a]}
    BY <2>1, <2>2 DEF Out
  <2>4. Held(p)' \in Int /\ Held(p)' >= Held(p)
    BY <2>1, <2>3, EntryKeepsHeld
  <2> QED
    BY <1>0, <2>1, <2>4
<1>3. ASSUME NEW a \in Actors, CommitCancelled(a)
      PROVE  stock[p] + Held(p) <= stock'[p] + Held(p)'
  <2>1. /\ target[a] \in Orders /\ UNCHANGED orderItems /\ stock' = Returned(target[a])
        /\ orderStatus' = [orderStatus EXCEPT ![target[a]] = "CANCELLED"]
        /\ withdrawn' = withdrawn \ {target[a]}
    BY <1>3, TargetIsOrder DEF CommitCancelled, orders
  <2>2. Open' = Open \ {target[a]}
    BY <2>1 DEF Open, TypeOK
  <2>3. Out' = Out \ {target[a]}
    BY <2>1, <2>2 DEF Out
  <2>4. stock'[p] + Held(p)' >= stock[p] + Held(p)
    BY <2>1, <2>3, GivenBackKeepsSum
  <2>5. stock'[p] \in Int /\ Held(p)' \in Int
    <3>1. TypeOK'
      BY NextTypeOK
    <3>2. AmountsAreInt'
      BY <3>1, AmountsTyped, PTL
    <3> QED
      BY <3>2 DEF AmountsAreInt
  <2> QED
    BY <1>0, <2>4, <2>5
<1>4. ASSUME NEW o \in Orders, SetStatus(o)
      PROVE  stock[p] + Held(p) <= stock'[p] + Held(p)'
  <2>1. UNCHANGED <<stock, orderItems>> /\ (Out' = Out \/ Out' = Out \cup {o})
    BY <1>4, StatusKeepsOut DEF SetStatus, orders
  <2>2. Held(p)' \in Int /\ Held(p)' >= Held(p)
    BY <2>1, EntryKeepsHeld
  <2> QED
    BY <1>0, <2>1, <2>2
<1> QED
  BY <1>1, <1>2, <1>3, <1>4
     DEF Next, Progress, Cancel, RefuseCancel, Acquire, AlreadyProcessed, Resolve, Unresolved,
         ReadOrder, NothingToDo, WritePayment, WriteOrder, Scan, NextExpired, ScanEnds,
         CancelExpired, FailPayment, RestoreRow, Abort, TimeOut, GiveUp, ThirtyMinutesPass,
         KeyExpires, orders, rows, vars

(* The rows of the orders are what they were.                              *)
LEMMA ItemsStay == [Next]_vars => UNCHANGED orderItems
  BY DEF Next, Progress, Cancel, RefuseCancel, Acquire, AlreadyProcessed, Resolve, Unresolved,
       ReadOrder, NothingToDo, WritePayment, WriteOrder, CommitPaid, Scan, NextExpired,
       ScanEnds, CancelExpired, FailPayment, RestoreRow, CommitCancelled, Abort, TimeOut,
       GiveUp, ThirtyMinutesPass, KeyExpires, SetStatus, orders, vars

(* The account is inductive.                                               *)
LEMMA NextNoStockLost == TypeOK /\ Roles /\ NoStockLost /\ [Next]_vars => NoStockLost'
<1> SUFFICES ASSUME TypeOK, Roles, NoStockLost, [Next]_vars,
                    NEW p \in Products, Countable(p)'
             PROVE  (stock[p] + Held(p) >= Total(p))'
  BY DEF NoStockLost
<1>1. TypeOK'
  BY NextTypeOK
<1>2. AmountsAreInt /\ AmountsAreInt'
  BY <1>1, AmountsTyped, PTL
<1>3. Countable(p)
  BY ItemsStay DEF Countable
<1>4. stock[p] + Held(p) <= stock'[p] + Held(p)' /\ stock[p] + Held(p) >= Total(p)
  BY <1>3, NextLosesNoPiece DEF NoStockLost
<1> QED
  BY <1>2, <1>4 DEF AmountsAreInt, Total

(* No set of cancels, webhook calls, cleanup runs and administrators, who  *)
(* may set CANCELLED too, loses a piece: what is not in the stock is in an *)
(* order that is not cancelled, or that an administrator cancelled.        *)
THEOREM SettlementLosesNoStock == Spec => []NoStockLost
<1>1. Init => TypeOK /\ Roles /\ NoStockLost
  BY InitTypeOK, InitNoStockLost
<1>2. (TypeOK /\ Roles /\ NoStockLost) /\ [Next]_vars => (TypeOK /\ Roles /\ NoStockLost)'
  BY NextTypeOK, NextNoStockLost
<1> QED
  BY <1>1, <1>2, PTL DEF Spec

(* The row locks of Settlement, on which the other results rest, hold in   *)
(* every state.                                                            *)
SettlementInv == TypeOK /\ Roles /\ RowsHeld /\ StockHeld /\ RefsApplied
(* The invariant holds in every state of a settlement.                     *)
THEOREM SettlementHolds == Spec => []SettlementInv
<1>1. Init => SettlementInv
  BY InitTypeOK, InitRowsHeld, InitStockHeld, InitKeysHeld DEF SettlementInv
<1>2. SettlementInv /\ [Next]_vars => SettlementInv'
  BY NextTypeOK, NextRowsHeld, NextStockHeld, NextRefsApplied DEF SettlementInv
<1> QED
  BY <1>1, <1>2, PTL DEF Spec

(* However often a Paymob transaction is delivered, it is written at most  *)
(* once for every time its key is set, and only once when its callback     *)
(* does not name the order; no assumption on when keys reach their hour.   *)
THEOREM SettlementAppliesOnce == Spec => []AppliedOncePerKey
<1>1. Init => TypeOK /\ Roles /\ KeysHeld
  BY InitTypeOK, InitKeysHeld
<1>2. (TypeOK /\ Roles /\ KeysHeld) /\ [Next]_vars => (TypeOK /\ Roles /\ KeysHeld)'
  BY NextTypeOK, NextKeysHeld
<1>3. KeysHeld => AppliedOncePerKey
  BY DEF KeysHeld, AppliedKey, AppliedOncePerKey, Spent
<1> QED
  BY <1>1, <1>2, <1>3, PTL DEF Spec

(* The cleanup job fails the payments it has locked, which were pending.   *)
LEMMA CleanupFailsPending ==
  ASSUME RowsHeld, NEW c \in Crons, NEW o \in Orders, [Next]_vars, TypeOK, Roles,
         pc[c] = "restore", pc'[c] = "next", payment[o] = "PAID"
  PROVE  payment'[o] = "PAID"
<1>1. paymentLock[o] # c
  BY DEF RowsHeld
<1>2. CommitCancelled(c)
  <2>1. PICK a \in Actors : Progress(a) \/ Abort(a) \/ TimeOut(a)
    BY DEF Next, vars, ThirtyMinutesPass, SetStatus, KeyExpires
  <2>2. \A b \in Actors : \A l : Goto(b, l) => pc'[b] = l /\ \A e \in Actors \ {b} : pc'[e] = pc[e]
    BY DEF Goto, TypeOK
  <2>3. ~ Abort(c) /\ ~ TimeOut(c)
    BY <2>2 DEF Abort, TimeOut, GiveUp
  <2>4. a = c
    <3>1. CASE \E p \in Products : RestoreRow(a, p)
      BY <3>1 DEF RestoreRow
    <3>2. CASE ~ \E p \in Products : RestoreRow(a, p)
      <4>1. \E l : Goto(a, l)
        BY <2>1, <3>2 DEF Progress, Abort, TimeOut, GiveUp, Cancel, RefuseCancel, Acquire,
             AlreadyProcessed, Resolve, Unresolved, ReadOrder, NothingToDo, WritePayment,
             WriteOrder, CommitPaid, Scan, NextExpired, ScanEnds, CancelExpired, FailPayment,
             CommitCancelled, StartRestore, Answer
      <4> QED
        BY <2>2, <4>1
    <3> QED
      BY <3>1, <3>2
  <2>5. Progress(c)
    BY <2>1, <2>3, <2>4
  <2> QED
    BY <2>5 DEF Progress, Cancel, RefuseCancel, Acquire, AlreadyProcessed, Resolve, Unresolved,
       ReadOrder, NothingToDo, WritePayment, WriteOrder, CommitPaid, Scan, NextExpired, ScanEnds,
       CancelExpired, FailPayment, RestoreRow
<1> QED
  BY <1>1, <1>2 DEF CommitCancelled

(* What a customer has paid stays paid when the job cancels the order.     *)
THEOREM CleanupSparesPaid == Spec => CleanupKeepsPaid
<1>1. TypeOK /\ Roles /\ RowsHeld /\ [Next]_vars =>
      [\A c \in Crons, o \in Orders :
           pc[c] = "restore" /\ pc'[c] = "next" /\ payment[o] = "PAID" => payment'[o] = "PAID"]_vars
  BY CleanupFailsPending
<1>2. Spec => [](TypeOK /\ Roles /\ RowsHeld)
  BY SettlementHolds, PTL DEF SettlementInv
<1> QED
  BY <1>1, <1>2, PTL DEF Spec, CleanupKeepsPaid
=============================================================================
