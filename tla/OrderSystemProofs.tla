------------------------- MODULE OrderSystemProofs -------------------------
(***************************************************************************)
(* Theorems about OrderSystem for every set of orders, products, customers *)
(* and actors: the invariants of Checkout and of Settlement hold of the    *)
(* two together, each beside the steps of the other.                       *)
(***************************************************************************)
EXTENDS OrderSystem, SettlementProofs

P == INSTANCE CheckoutProofs WITH
    Requests <- Orders,
    placed <- {o \in Orders : Placed(o)},
    payment <- [o \in Orders |-> PaymentOf(o)],
    pc <- at

(* The assumptions of Checkout hold of it here.                            *)
LEMMA ShopFacts ==
    /\ P!ProductsAssumption
    /\ P!BoundsAssumption
    /\ P!RequestsAssumption
    /\ P!DistinctAssumption
  BY ShopAssumption, OrdersAssumption
     DEF P!ProductsAssumption, P!BoundsAssumption, P!RequestsAssumption, P!DistinctAssumption

(* Nothing that holds a row for a settlement is a checkout.                *)
LEMMA LockFacts ==
    /\ NoTx \notin Orders
    /\ \A a \in Actors : a \notin Orders
  BY ShopAssumption

USE ActorFacts

(* The lemmas of CheckoutProofs are about its own copy of the definitions  *)
(* that Sales names here.                                                  *)
LEMMA SalesSteps ==
  ASSUME NEW r \in Orders
  PROVE  /\ Sales!Progress(r) <=> P!Progress(r)
         /\ Sales!Fault(r) <=> P!Fault(r)
  BY DEF Sales!Progress, P!Progress, Sales!Fault, P!Fault, Sales!FindClaimed, P!FindClaimed,
     Sales!Replay, P!Replay, Sales!FindFree, P!FindFree, Sales!Claim, P!Claim, Sales!ReadCart,
     P!ReadCart, Sales!RefuseCart, P!RefuseCart, Sales!Validate, P!Validate, Sales!RefuseStock,
     P!RefuseStock, Sales!CheckPromo, P!CheckPromo, Sales!RefusePromo, P!RefusePromo,
     Sales!InsertUsage, P!InsertUsage, Sales!DuplicateUsage, P!DuplicateUsage,
     Sales!CountUsage, P!CountUsage, Sales!Commit, P!Commit, Sales!InsertPayment,
     P!InsertPayment, Sales!Intention, P!Intention, Sales!LinkPayment, P!LinkPayment,
     Sales!CacheReply, P!CacheReply, Sales!Release, P!Release, Sales!Abort, P!Abort,
     Sales!PaymentFails, P!PaymentFails, Sales!GatewayFails, P!GatewayFails, Sales!Crash,
     P!Crash, Sales!RedisFails, P!RedisFails, Sales!LockRow, P!LockRow, Sales!CacheKey,
     P!CacheKey, Sales!Goto, P!Goto, Sales!Answer, P!Answer, Sales!SetKey, P!SetKey,
     Sales!Unlocked, P!Unlocked, Sales!EndTx, P!EndTx, Sales!RollBack, P!RollBack,
     Sales!InCart, P!InCart, Sales!Orderable, P!Orderable, Sales!Wanted, P!Wanted,
     Sales!ToLock, P!ToLock, Sales!IsNextRow, P!IsNextRow, Sales!RowFree, P!RowFree,
     Sales!InStock, P!InStock, Sales!PromoValid, P!PromoValid, Sales!HoldsUsage, P!HoldsUsage,
     Sales!HoldsCampaign, P!HoldsCampaign, Sales!UsageFree, P!UsageFree, Sales!UsageTaken,
     P!UsageTaken, Sales!CampaignFree, P!CampaignFree, Sales!BelowLimit, P!BelowLimit,
     Sales!Counted, P!Counted, Sales!AfterCommit, P!AfterCommit, Sales!NoItems, P!NoItems,
     Sales!NothingSeen, P!NothingSeen, Sales!Amount, P!Amount, Sales!shop, P!shop, Sales!orders, P!orders, Sales!tx,
     P!tx, Sales!InTx, P!InTx, Sales!Ended, P!Ended

(* So is the rollback,                                                     *)
LEMMA SalesRollBack ==
  ASSUME NEW r \in Orders
  PROVE  Sales!RollBack(r) <=> P!RollBack(r)
  BY DEF Sales!RollBack, P!RollBack, Sales!EndTx, P!EndTx, Sales!Unlocked, P!Unlocked, Sales!Goto,
     P!Goto, Sales!NoItems, P!NoItems, Sales!NothingSeen, P!NothingSeen, Sales!shop, P!shop,
     Sales!orders, P!orders

(* the commit,                                                             *)
LEMMA SalesCommit ==
  ASSUME NEW r \in Orders
  PROVE  Sales!Commit(r) <=> P!Commit(r)
  BY DEF Sales!Commit, P!Commit, Sales!EndTx, P!EndTx, Sales!Unlocked, P!Unlocked, Sales!Goto,
     P!Goto, Sales!NoItems, P!NoItems, Sales!NothingSeen, P!NothingSeen, Sales!Amount, P!Amount,
     Sales!Counted, P!Counted, Sales!AfterCommit, P!AfterCommit

(* what an administrator does to the stock,                                *)
LEMMA SalesSetStock ==
  ASSUME NEW p \in Products
  PROVE  Sales!SetStock(p) <=> P!SetStock(p)
  BY DEF Sales!SetStock, P!SetStock, Sales!RowFree, P!RowFree, Sales!Quantities, P!Quantities,
     Sales!orders, P!orders, Sales!tx, P!tx

(* and the start.                                                          *)
LEMMA SalesInit == Sales!Init <=> P!Init
  BY DEF Sales!Init, P!Init, Sales!Quantities, P!Quantities, Sales!NoItems, P!NoItems,
     Sales!NothingSeen, P!NothingSeen, Sales!Rows, P!Rows, Sales!Amounts, P!Amounts

-----------------------------------------------------------------------------
(* The invariant.                                                          *)

CheckoutStep(r) == CheckoutProgress(r) \/ CheckoutFails(r) \/ CheckoutTimesOut(r)
SettlementStep(a) == SettlementProgress(a) \/ SettlementFails(a)

(* A settlement works on an order that is there, and a delivery on one     *)
(* whose customer knows it.                                                *)
TargetsPlaced ==
    /\ \A a \in Cancels : pc[a] # "idle" => Placed(target[a])
    /\ \A d \in Deliveries : pc[d] # "idle" => Answered(target[d])
    /\ \A c \in Crons :
        /\ \A o \in batch[c] : Placed(o)
        /\ pc[c] \in {"cancel", "fail", "restore"} => Placed(target[c])

OrdersHaveItems == \A o \in Orders : Placed(o) => ProductsIn(o) # {}
LocksTyped == \A p \in Products : stockLock[p] \in Actors \cup Orders \cup {NoTx}
AppliedAnswered == \A t \in Transactions : applied[t] > 0 => Answered(OrderOf[t])
Replaced(o) == \E t \in Transactions : OrderOf[t] = o /\ applied[t] > 0
UnresolvedReplaced ==
    \A d \in Deliveries : pc[d] = "unresolved" \/ answer[d] = "unresolved" => Replaced(target[d])

Settling == TypeOK /\ Roles /\ RowsHeld /\ StockHeld /\ RefsApplied
Joined == TargetsPlaced /\ OrdersHaveItems /\ LocksTyped /\ AppliedAnswered /\ UnresolvedReplaced
SystemInv == Settling /\ P!Core /\ Joined
-----------------------------------------------------------------------------
(* The checkouts.                                                          *)

(* A checkout here is a checkout of Checkout.                              *)
LEMMA CheckoutIsSale ==
  ASSUME NEW r \in Orders, CheckoutStep(r)
  PROVE  \/ P!Progress(r) \/ P!Fault(r) \/ (P!RollBack(r) /\ at[r] \in P!InTx)
<1>1. CASE CheckoutProgress(r)
  <2>1. Sales!Progress(r)
    BY <1>1 DEF CheckoutProgress, Place, CreatePayment, StoreIntention, Sales!Progress
  <2> QED
    BY <2>1, SalesSteps
<1>2. CASE CheckoutFails(r)
  BY <1>2, SalesSteps DEF CheckoutFails
<1>3. CASE CheckoutTimesOut(r)
  BY <1>3, SalesRollBack DEF CheckoutTimesOut, P!InTx
<1> QED
  BY <1>1, <1>2, <1>3 DEF CheckoutStep

(* It keeps the invariant of Checkout.                                     *)
LEMMA CheckoutKeepsCore ==
  ASSUME P!Core, NEW r \in Orders, CheckoutStep(r)
  PROVE  P!Core'
<1>1. CASE P!Progress(r) \/ P!Fault(r)
  BY <1>1, ShopFacts, P!NextCore DEF P!Next
<1>2. CASE P!RollBack(r) /\ at[r] \in P!InTx
  BY <1>2, ShopFacts, P!RollBackCore
<1> QED
  BY <1>1, <1>2, CheckoutIsSale

(* Answers stay.                                                           *)
LEMMA CheckoutAnswers ==
  ASSUME P!Core, NEW r \in Orders, CheckoutStep(r), NEW o \in Orders, Answered(o)
  PROVE  Answered(o)'
<1>1. \A q \in Orders : reply[q] \in Orders => reply'[q] = reply[q]
  BY ShopFacts, CheckoutIsSale, P!HandlerReplies DEF P!Core
<1> QED
  BY <1>1 DEF Answered

(* What a checkout does to the rows it shares with the settlement.         *)
LEMMA CheckoutWrites ==
  ASSUME P!Core, NEW r \in Orders, CheckoutStep(r)
  PROVE  /\ UNCHANGED settlementVars
         /\ \/ /\ P!Commit(r) /\ ~ Placed(r) /\ orderItems[r] = P!NoItems
               /\ orderStatus' = [orderStatus EXCEPT ![r] = "PENDING"]
               /\ UNCHANGED <<payment, paymentRef>>
            \/ UNCHANGED <<stock, orderItems, orderStatus>>
         /\ payment' = [payment EXCEPT ![r] = "PENDING"] \/ UNCHANGED payment
         /\ UNCHANGED paymentRef
            \/ (at[r] = "link" /\ paymentRef' = [paymentRef EXCEPT ![r] = IntentionId])
<1>1. UNCHANGED settlementVars
  BY DEF CheckoutStep, CheckoutProgress, CheckoutFails, CheckoutTimesOut
<1>2. /\ payment' = [payment EXCEPT ![r] = "PENDING"] \/ UNCHANGED payment
      /\ UNCHANGED paymentRef
         \/ (at[r] = "link" /\ paymentRef' = [paymentRef EXCEPT ![r] = IntentionId])
  BY DEF CheckoutStep, CheckoutProgress, CheckoutFails, CheckoutTimesOut, Place, CreatePayment,
     StoreIntention, Sales!LinkPayment
<1>3. CASE P!Commit(r)
  <2>1. ~ Placed(r) /\ orderItems[r] = P!NoItems
    BY <1>3 DEF P!Commit, P!Core, P!UncommittedIsFresh, P!InTx
  <2>2. Placed(r)'
    BY <1>3 DEF P!Commit
  <2>3. orderStatus' # orderStatus
    BY <2>1, <2>2 DEF Placed
  <2>4. Place(r)
    BY <2>3 DEF CheckoutStep, CheckoutProgress, CheckoutFails, CheckoutTimesOut, CreatePayment,
       StoreIntention
  <2> QED
    BY <1>1, <1>2, <1>3, <2>1, <2>4 DEF Place
<1>4. CASE ~ P!Commit(r)
  <2>1. UNCHANGED orderStatus
    BY <1>4, SalesCommit DEF CheckoutStep, CheckoutProgress, CheckoutFails, CheckoutTimesOut, Place,
       CreatePayment, StoreIntention
  <2>2. UNCHANGED <<stock, orderItems>>
    BY <1>4, CheckoutIsSale, ShopFacts, P!OnlyCommitTakes
  <2> QED
    BY <1>1, <1>2, <2>1, <2>2
<1> QED
  BY <1>3, <1>4
-----------------------------------------------------------------------------
(* The settlement beside the checkouts.                                    *)

(* A settlement takes free rows and gives up its own, and writes only rows *)
(* of the stock it holds.                                                  *)
LEMMA SettlementRows ==
  ASSUME TypeOK, Roles, StockHeld, NEW a \in Actors, Progress(a) \/ GiveUp(a)
  PROVE  /\ UNCHANGED orderItems
         /\ \A p \in Products : \/ stockLock'[p] = stockLock[p]
                                \/ stockLock[p] = NoTx /\ stockLock'[p] = a
                                \/ stockLock[p] = a /\ stockLock'[p] = NoTx
         /\ \A p \in Products : stock'[p] = stock[p] \/ stockLock[p] = a
<1>1. ASSUME Unlock(a)
      PROVE  \A p \in Products : stockLock'[p] = IF stockLock[p] = a THEN NoTx ELSE stockLock[p]
  BY <1>1 DEF Unlock, Without, StockHeld
<1>2. ASSUME NEW p \in Products, RestoreRow(a, p)
      PROVE  UNCHANGED <<stock, orderItems>> /\ stockLock[p] = NoTx
             /\ stockLock' = [stockLock EXCEPT ![p] = a]
  BY <1>2 DEF RestoreRow, StockFree, orders, rows
<1>3. CASE \E p \in Products : RestoreRow(a, p)
  BY <1>2, <1>3 DEF StockHeld
<1>4. CASE CommitCancelled(a)
  <2>1. /\ Unlock(a) /\ UNCHANGED orderItems /\ stock' = Returned(target[a])
        /\ pc[a] = "restore" /\ todo[a] = {} /\ target[a] \in Orders
    BY <1>4, TargetIsOrder DEF CommitCancelled, orders
  <2>2. ASSUME NEW p \in Products PROVE stock'[p] = stock[p] \/ stockLock[p] = a
    <3>1. CASE p \in ProductsIn(target[a])
      BY <2>1, <3>1 DEF StockHeld
    <3>2. CASE p \notin ProductsIn(target[a])
      <4>1. Amount(orderItems[target[a]][p]) = 0 /\ stock[p] \in Int
        BY <2>1, <3>2 DEF ProductsIn, Amount, TypeOK
      <4> QED
        BY <2>1, <4>1 DEF Returned
    <3> QED
      BY <3>1, <3>2
  <2> QED
    BY <1>1, <2>1, <2>2
<1>5. CASE CommitPaid(a) \/ GiveUp(a)
  <2>1. Unlock(a) /\ UNCHANGED <<stock, orderItems>>
    BY <1>5 DEF CommitPaid, GiveUp, orders, rows
  <2> QED
    BY <1>1, <2>1
<1>6. CASE UNCHANGED <<stock, stockLock, orderItems>>
  BY <1>6
<1> QED
  BY <1>3, <1>4, <1>5, <1>6 DEF Progress, Cancel, RefuseCancel, Acquire, AlreadyProcessed, Resolve,
     Unresolved, ReadOrder, NothingToDo, WritePayment, WriteOrder, Scan, NextExpired, ScanEnds,
     CancelExpired, FailPayment, orders, rows, locks

(* A settlement here is one of Settlement.                                 *)
LEMMA SettlementStarts ==
  ASSUME NEW a \in Actors, SettlementStep(a)
  PROVE  Started(a) /\ (Progress(a) \/ GiveUp(a)) /\ [Next]_vars /\ UNCHANGED checkoutVars
  BY DEF SettlementStep, SettlementProgress, SettlementFails, Abort, TimeOut, Next

(* A card order whose checkout was answered has a payment with an id.      *)
LEMMA AnsweredLinked ==
  ASSUME P!Core, TypeOK, NEW o \in Orders, Answered(o)
  PROVE  /\ Placed(o)
         /\ MethodOf[o] = "CREDIT_CARD" => PaymentOf(o) = "linked"
         /\ MethodOf[o] = "CREDIT_CARD" => at[o] \notin P!Unpaid
<1>1. PICK r \in Orders : reply[r] = o
  BY DEF Answered
<1>2. Placed(o) /\ (MethodOf[o] = "CREDIT_CARD" => PaymentOf(o) = "linked")
  BY <1>1 DEF P!Core, P!Replies, P!AnswerIsOwn
<1> QED
  BY <1>2 DEF P!Core, P!Replies

(* What a settlement writes of an order is of its target, which is placed; *)
(* no other order gets a status or a link.                                 *)
LEMMA SettlementTarget ==
  ASSUME SystemInv, NEW a \in Actors, Started(a), Progress(a) \/ GiveUp(a)
  PROVE  \/ UNCHANGED <<orderStatus, payment, paymentRef, applied>>
         \/ /\ CommitPaid(a) \/ CommitCancelled(a)
            /\ target[a] \in Orders /\ Placed(target[a])
            /\ \E s \in {"PROCESSING", "CANCELLED"} : orderStatus' = [orderStatus EXCEPT ![target[a]] = s]
            /\ \/ UNCHANGED <<payment, paymentRef, applied>>
               \/ /\ a \in Deliveries /\ Answered(target[a]) /\ TxnOf[a] \in Transactions
                  /\ target[a] = OrderOf[TxnOf[a]]
                  /\ \E s \in {"PAID", "FAILED"} : Record(a, s)
               \/ /\ UNCHANGED <<paymentRef, applied>>
                  /\ payment' = [o \in Orders |-> IF paymentLock[o] = a THEN "FAILED" ELSE payment[o]]
                  /\ a \in Crons
<1>0. TypeOK /\ Roles /\ P!Core /\ TargetsPlaced
  BY DEF SystemInv, Settling, Joined
<1>1. CASE CommitPaid(a) \/ CommitCancelled(a)
  <2>0. pc[a] \in {"settle", "restore"}
    BY <1>1 DEF CommitPaid, CommitCancelled
  <2>1. target[a] \in Orders /\ Placed(target[a])
    <3>1. target[a] \in Orders
      BY <1>0, <2>0, TargetIsOrder
    <3>2. ASSUME a \in Deliveries PROVE Answered(target[a])
      BY <1>0, <2>0, <3>2 DEF TargetsPlaced
    <3>3. ASSUME a \notin Deliveries PROVE Placed(target[a])
      BY <1>0, <2>0, <3>3 DEF TargetsPlaced, Roles, CronPlaces
    <3> QED
      BY <1>0, <3>1, <3>2, <3>3, AnsweredLinked
  <2>2. \E s \in {"PROCESSING", "CANCELLED"} : orderStatus' = [orderStatus EXCEPT ![target[a]] = s]
    BY <1>1 DEF CommitPaid, CommitCancelled
  <2>3. CASE a \in Deliveries
    <3>1. Answered(target[a]) /\ TxnOf[a] \in Transactions /\ target[a] = OrderOf[TxnOf[a]]
      BY <1>0, <2>0, <2>3 DEF TargetsPlaced, Roles
    <3>2. \E s \in {"PAID", "FAILED"} : Record(a, s)
      BY <1>1, <2>3 DEF CommitPaid, CommitCancelled
    <3> QED
      BY <1>1, <2>1, <2>2, <2>3, <3>1, <3>2
  <2>4. CASE a \notin Deliveries
    <3>1. CommitCancelled(a)
      BY <1>0, <1>1, <2>4 DEF CommitPaid, Roles, CancelPlaces, CronPlaces
    <3> QED
      BY <2>1, <2>2, <2>4, <3>1 DEF CommitCancelled
  <2> QED
    BY <2>3, <2>4
<1>2. CASE ~ (CommitPaid(a) \/ CommitCancelled(a))
  BY <1>2 DEF Progress, GiveUp, Cancel, RefuseCancel, Acquire, AlreadyProcessed, Resolve,
     Unresolved, ReadOrder, NothingToDo, WritePayment, WriteOrder, Scan, NextExpired, ScanEnds,
     CancelExpired, FailPayment, RestoreRow, rows
<1> QED
  BY <1>1, <1>2

(* The settlement places no order, and links no payment that a checkout    *)
(* has still to link.                                                      *)
LEMMA SettlementLinks ==
  ASSUME SystemInv, NEW a \in Actors, Started(a), Progress(a) \/ GiveUp(a), NEW o \in Orders
  PROVE  /\ Placed(o)' <=> Placed(o)
         /\ PaymentOf(o) = "linked" => PaymentOf(o)' = "linked"
         /\ at[o] \in P!Unpaid => PaymentOf(o)' # "linked"
<1>0. TypeOK /\ RowsHeld /\ P!Core
  BY DEF SystemInv, Settling
<1>1. at[o] \in P!Unpaid => PaymentOf(o) # "linked"
  BY <1>0 DEF P!Core, P!Replies
<1>2. CASE UNCHANGED <<orderStatus, payment, paymentRef>>
  BY <1>1, <1>2 DEF Placed, PaymentOf
<1>3. CASE ~ UNCHANGED <<orderStatus, payment, paymentRef>>
  <2>1. /\ target[a] \in Orders /\ Placed(target[a])
        /\ \E s \in {"PROCESSING", "CANCELLED"} : orderStatus' = [orderStatus EXCEPT ![target[a]] = s]
    BY <1>3, SettlementTarget
  <2>2. Placed(o)' <=> Placed(o)
    BY <1>0, <2>1 DEF Placed, TypeOK
  <2>3. CASE UNCHANGED <<payment, paymentRef>>
    BY <1>1, <2>2, <2>3 DEF PaymentOf
  <2>4. CASE /\ a \in Deliveries /\ Answered(target[a]) /\ TxnOf[a] \in Transactions
             /\ target[a] = OrderOf[TxnOf[a]]
             /\ \E s \in {"PAID", "FAILED"} : Record(a, s)
    <3>1. PICK s \in {"PAID", "FAILED"} : Record(a, s)
      BY <2>4
    <3>2. CASE o = target[a]
      <4>1. MethodOf[o] = "CREDIT_CARD"
        BY <2>4, <3>2, ActorsAssumption
      <4>2. at[o] \notin P!Unpaid
        BY <1>0, <2>4, <3>2, <4>1, AnsweredLinked
      <4>3. payment'[o] = s /\ paymentRef'[o] = TxnOf[a] /\ TxnOf[a] # NoRef
        BY <1>0, <2>4, <3>1, <3>2 DEF Record, TypeOK
      <4>4. PaymentOf(o)' = "linked"
        BY <4>3 DEF PaymentOf
      <4> QED
        BY <2>2, <4>2, <4>4
    <3>3. CASE o # target[a]
      <4>1. payment'[o] = payment[o] /\ paymentRef'[o] = paymentRef[o]
        BY <1>0, <3>1, <3>3 DEF Record, TypeOK
      <4> QED
        BY <1>1, <2>2, <4>1 DEF PaymentOf
    <3> QED
      BY <3>2, <3>3
  <2>5. CASE /\ UNCHANGED paymentRef /\ a \in Crons
             /\ payment' = [x \in Orders |-> IF paymentLock[x] = a THEN "FAILED" ELSE payment[x]]
    <3>1. paymentRef'[o] = paymentRef[o] /\ (payment'[o] = "none" <=> payment[o] = "none")
      BY <1>0, <2>5 DEF RowsHeld
    <3> QED
      BY <1>1, <2>2, <3>1 DEF PaymentOf
  <2> QED
    BY <1>3, <2>3, <2>4, <2>5, SettlementTarget
<1> QED
  BY <1>2, <1>3

(* What the other components of the shop leave of the checkouts, in their  *)
(* terms.                                                                  *)
LEMMA ElsewhereKeepsCore ==
  ASSUME P!Core, UNCHANGED <<checkoutVars, orderItems>>,
         stock' \in [Products -> Int], DOMAIN stockLock' = Products,
         \A p \in Products : /\ stockLock[p] \in Orders =>
                                    stock'[p] = stock[p] /\ stockLock'[p] = stockLock[p]
                             /\ stockLock'[p] \in Orders => stockLock'[p] = stockLock[p],
         \A o \in Orders : /\ Placed(o)' <=> Placed(o)
                           /\ PaymentOf(o) = "linked" => PaymentOf(o)' = "linked"
                           /\ at[o] \in P!Unpaid => PaymentOf(o)' # "linked"
  PROVE  P!Core'
<1>1. {o \in Orders : Placed(o)}' = {o \in Orders : Placed(o)}
  OBVIOUS
<1>2. UNCHANGED <<at, cart, deleted, active, redis, items, seen, used, usages, reply, orderItems>>
  BY DEF checkoutVars
<1>3. [o \in Orders |-> PaymentOf(o)]' \in [Orders -> {"none", "pending", "linked"}]
  BY DEF PaymentOf
<1>4. P!Typed'
  BY <1>1, <1>2, <1>3 DEF P!Core, P!Typed
<1> QED
  BY <1>1, <1>2, <1>4, ShopFacts, P!ElsewhereCore

(* A settlement keeps the invariant of Checkout.                           *)
LEMMA SettlementKeepsCore ==
  ASSUME SystemInv, NEW a \in Actors, SettlementStep(a)
  PROVE  P!Core'
<1>0. TypeOK /\ Roles /\ StockHeld /\ P!Core
  BY DEF SystemInv, Settling
<1>1. Started(a) /\ (Progress(a) \/ GiveUp(a)) /\ [Next]_vars /\ UNCHANGED checkoutVars
  BY SettlementStarts
<1>2. TypeOK' /\ StockHeld'
  BY <1>0, <1>1, NextTypeOK, NextStockHeld
<1>3. stock' \in [Products -> Int] /\ DOMAIN stockLock' = Products
  BY <1>2 DEF TypeOK, StockHeld
<1>4. /\ UNCHANGED orderItems
      /\ \A p \in Products : \/ stockLock'[p] = stockLock[p]
                             \/ stockLock[p] = NoTx /\ stockLock'[p] = a
                             \/ stockLock[p] = a /\ stockLock'[p] = NoTx
      /\ \A p \in Products : stock'[p] = stock[p] \/ stockLock[p] = a
  BY <1>0, <1>1, SettlementRows
<1>5. \A p \in Products : /\ stockLock[p] \in Orders =>
                                 stock'[p] = stock[p] /\ stockLock'[p] = stockLock[p]
                          /\ stockLock'[p] \in Orders => stockLock'[p] = stockLock[p]
  BY <1>4, LockFacts
<1>6. \A o \in Orders : /\ Placed(o)' <=> Placed(o)
                        /\ PaymentOf(o) = "linked" => PaymentOf(o)' = "linked"
                        /\ at[o] \in P!Unpaid => PaymentOf(o)' # "linked"
  BY <1>1, SettlementLinks
<1> QED
  BY <1>0, <1>1, <1>3, <1>4, <1>5, <1>6, ElsewhereKeepsCore

(* Time, the end of a key and the administrator leave the checkouts alone. *)
OtherStep ==
    \/ \E o \in Orders : OrderAges(o) \/ StatusSet(o)
    \/ \E t \in Transactions : KeyEnds(t)
    \/ UNCHANGED systemVars

(* What such a step leaves alone.                                          *)
LEMMA OtherStays ==
  ASSUME TypeOK, OtherStep
  PROVE  /\ [Next]_vars /\ UNCHANGED checkoutVars
         /\ UNCHANGED <<orderItems, stock, stockLock, payment, paymentRef, pc, target, batch,
                        answer, applied>>
         /\ \A o \in Orders : Placed(o)' <=> Placed(o)
<1>1. CASE \E o \in Orders : OrderAges(o)
  BY <1>1 DEF OrderAges, ThirtyMinutesPass, Next, orders, rows, locks, local, Placed
<1>2. ASSUME NEW q \in Orders, StatusSet(q)
      PROVE  \A o \in Orders : Placed(o)' <=> Placed(o)
  <2>1. PICK s \in Statuses : orderStatus' = [orderStatus EXCEPT ![q] = s]
    BY <1>2, OrdersAssumption DEF StatusSet, SetStatus
  <2>2. s # "none" /\ orderStatus[q] # "none"
    BY <1>2 DEF StatusSet, SetStatus, Statuses
  <2> QED
    BY <2>1, <2>2 DEF Placed, TypeOK
<1>3. ASSUME NEW q \in Orders, StatusSet(q)
      PROVE  /\ [Next]_vars /\ UNCHANGED checkoutVars
             /\ UNCHANGED <<orderItems, stock, stockLock, payment, paymentRef, pc, target, batch,
                            answer, applied>>
  BY <1>3 DEF StatusSet, SetStatus, Next, orders, locks, local
<1>4. CASE \E t \in Transactions : KeyEnds(t)
  BY <1>4 DEF KeyEnds, KeyExpires, Next, orders, rows, locks, local, Placed
<1>5. CASE UNCHANGED systemVars
  BY <1>5 DEF systemVars, vars, orders, rows, locks, local, Placed
<1> QED
  BY <1>1, <1>2, <1>3, <1>4, <1>5 DEF OtherStep

(* It keeps the invariant of Checkout.                                     *)
LEMMA OtherKeepsCore ==
  ASSUME SystemInv, OtherStep
  PROVE  P!Core'
<1>1. TypeOK /\ StockHeld /\ P!Core
  BY DEF SystemInv, Settling
<1>2. \A o \in Orders : PaymentOf(o)' = PaymentOf(o)
  BY <1>1, OtherStays DEF PaymentOf
<1>3. \A o \in Orders : at[o] \in P!Unpaid => PaymentOf(o) # "linked"
  BY <1>1 DEF P!Core, P!Replies
<1>4. stock' \in [Products -> Int] /\ DOMAIN stockLock' = Products
  BY <1>1, OtherStays DEF TypeOK, StockHeld
<1> QED
  BY <1>1, <1>2, <1>3, <1>4, OtherStays, ElsewhereKeepsCore

(* An administrator who sets a stock level changes nothing else.           *)
LEMMA StockSetWrites ==
  ASSUME NEW p \in Products, StockSet(p)
  PROVE  /\ p \in Restocked
         /\ \E q \in 0..MaxStock : stock' = [stock EXCEPT ![p] = q]
         /\ UNCHANGED <<settlementVars, checkoutVars, orderItems, orderStatus, payment, paymentRef,
                        stockLock>>
  BY DEF StockSet, Sales!SetStock, Sales!Quantities, Sales!orders, Sales!tx, checkoutVars

(* He keeps the invariant of Checkout, as he does there,                   *)
LEMMA StockSetKeepsCore ==
  ASSUME P!Core, NEW p \in Products, StockSet(p)
  PROVE  P!Core'
<1>1. P!SetStock(p)
  BY SalesSetStock DEF StockSet
<1>2. P!Next
  BY <1>1 DEF P!Next, P!Environment
<1> QED
  BY <1>2, ShopFacts, P!NextCore

(* and the rest, which the stock has no part in.                           *)
LEMMA StockSetKeepsRest ==
  ASSUME Settling, Joined, NEW p \in Products, StockSet(p)
  PROVE  Settling' /\ Joined'
<1>1. PICK q \in 0..MaxStock : stock' = [stock EXCEPT ![p] = q]
  BY StockSetWrites
<1>2. UNCHANGED <<charged, echoed, lapsed, withdrawn, orderLock, paymentLock, local, keys, expired,
                  pc, answer, applied, reply, orderItems, orderStatus, payment, paymentRef, stockLock>>
  BY StockSetWrites DEF settlementVars, checkoutVars
<1>3. stock' \in [Products -> Int]
  BY <1>1 DEF Settling, TypeOK
<1>4. TypeOK'
  BY <1>2, <1>3 DEF Settling, TypeOK, local
<1>5. Roles' /\ RowsHeld' /\ StockHeld' /\ RefsApplied'
  BY <1>2 DEF Settling, Roles, RowsHeld, StockHeld, ProductsIn, RefsApplied, local
<1>6. TargetsPlaced' /\ OrdersHaveItems' /\ LocksTyped'
  BY <1>2 DEF Joined, TargetsPlaced, OrdersHaveItems, LocksTyped, ProductsIn, Placed, Answered, local
<1>7. AppliedAnswered' /\ UnresolvedReplaced'
  BY <1>2 DEF Joined, AppliedAnswered, UnresolvedReplaced, Replaced, Answered, local
<1> QED
  BY <1>4, <1>5, <1>6, <1>7 DEF Settling, Joined
-----------------------------------------------------------------------------
(* The settlement's part of the invariant beside the checkouts.            *)

(* What a checkout that places its order takes out of the stock.           *)
LEMMA PlaceTakes ==
  ASSUME P!Core, NEW r \in Orders, P!Commit(r)
  PROVE  /\ P!Wanted(r) # {} /\ items[r] \in P!Rows
         /\ orderItems' = [orderItems EXCEPT ![r] = items[r]]
         /\ stock' = [p \in Products |-> stock[p] - Amount(items[r][p])]
         /\ at[r] = "commit"
<1>1. at[r] = "commit" /\ at[r] \in P!Locking
  BY DEF P!Commit, P!Locking
<1>2. items[r] \in P!Rows
  BY DEF P!Core, P!Typed
<1> QED
  BY <1>1, <1>2 DEF P!Core, P!UncommittedIsFresh, P!Commit, P!Amount, Amount

(* A row holds a number of each product, or there is none.                 *)
LEMMA RowType ==
  ASSUME NEW row \in P!Rows
  PROVE  row \in [Products -> Int \cup {NoRow}]
<1>1. \A p \in Products : CartQuantities[p] \subseteq Int
  BY ShopAssumption
<1>2. row \in [Products -> P!Amounts \cup {NoRow}]
      /\ \A p \in Products : row[p] \in CartQuantities[p] \cup {NoRow}
  BY DEF P!Rows
<1> QED
  BY <1>1, <1>2

(* A checkout keeps the types and the roles of the settlement.             *)
LEMMA CheckoutKeepsTypes ==
  ASSUME SystemInv, NEW r \in Orders, CheckoutStep(r)
  PROVE  TypeOK' /\ Roles'
<1>0. TypeOK /\ Roles /\ P!Core
  BY DEF SystemInv, Settling
<1>1. P!Core'
  BY <1>0, CheckoutKeepsCore
<1>2. stock' \in [Products -> Int]
  BY <1>1 DEF P!Core, P!Typed
<1>3. orderItems' \in [Orders -> [Products -> Int \cup {NoRow}]]
  <2>1. orderItems' \in [Orders -> P!Rows]
    BY <1>1 DEF P!Core, P!Typed
  <2> QED
    BY <2>1, RowType
<1>4. orderStatus' \in [Orders -> Statuses \cup {"none"}]
  BY <1>0, CheckoutWrites DEF TypeOK, Statuses
<1>5. payment' \in [Orders -> {"none", "PENDING", "PAID", "FAILED"}]
  BY <1>0, CheckoutWrites DEF TypeOK
<1>6. paymentRef' \in [Orders -> Transactions \cup {IntentionId, NoRef}]
  BY <1>0, CheckoutWrites DEF TypeOK
<1>7. UNCHANGED settlementVars
  BY <1>0, CheckoutWrites
<1>8. TypeOK'
  BY <1>0, <1>2, <1>3, <1>4, <1>5, <1>6, <1>7 DEF TypeOK, settlementVars, local
<1>9. Roles'
  BY <1>0, <1>7 DEF Roles, settlementVars, local
<1> QED
  BY <1>8, <1>9

(* No cancel is at an order whose checkout is not through, so what a       *)
(* checkout writes is nothing a cancel has read.                           *)
LEMMA CheckoutKeepsRows ==
  ASSUME SystemInv, NEW r \in Orders, CheckoutStep(r)
  PROVE  RowsHeld' /\ StockHeld' /\ RefsApplied'
<1>0. TypeOK /\ Roles /\ RowsHeld /\ StockHeld /\ RefsApplied /\ P!Core /\ TargetsPlaced
  BY DEF SystemInv, Settling, Joined
<1>1. UNCHANGED <<orderLock, paymentLock, pc, target, todo, applied>>
  BY <1>0, CheckoutWrites DEF settlementVars, local
<1>2. payment' = [payment EXCEPT ![r] = "PENDING"] \/ UNCHANGED payment
  BY <1>0, CheckoutWrites
<1>3. \/ P!Commit(r) /\ ~ Placed(r) /\ orderStatus' = [orderStatus EXCEPT ![r] = "PENDING"]
      \/ UNCHANGED <<orderItems, orderStatus>>
  BY <1>0, CheckoutWrites
<1>4. RowsHeld'
  <2>1. \A c \in Crons, o \in Orders : paymentLock[o] = c => payment'[o] = "PENDING"
    BY <1>0, <1>2 DEF RowsHeld, TypeOK
  <2>2. \A a \in Cancels : pc[a] = "restore" => orderStatus'[target[a]] = "PENDING"
    <3>1. \A a \in Cancels : pc[a] = "restore" =>
              target[a] \in Orders /\ orderStatus[target[a]] = "PENDING"
      BY <1>0 DEF RowsHeld, Roles
    <3>2. \A o \in Orders : orderStatus[o] = "PENDING" => orderStatus'[o] = "PENDING"
      <4>1. DOMAIN orderStatus = Orders
        BY <1>0 DEF TypeOK
      <4> QED
        BY <1>3, <4>1
    <3> QED
      BY <3>1, <3>2
  <2>3. UNCHANGED <<orderLock, paymentLock, pc, target>>
    BY <1>1
  <2>4. /\ \A a \in Actors, o \in Orders :
            /\ orderLock[o] = a <=> pc[a] \in {"settle", "fail", "restore"} /\ target[a] = o
            /\ paymentLock[o] = a => pc[a] \in {"order", "settle", "restore"} /\ target[a] = o
        /\ \A d \in Deliveries :
            pc[d] \in {"order", "settle", "restore"} => paymentLock[target[d]] = d
    BY <1>0 DEF RowsHeld
  <2> QED
    BY <2>1, <2>2, <2>3, <2>4 DEF RowsHeld
<1>5. RefsApplied'
  <2>1. UNCHANGED paymentRef \/ paymentRef' = [paymentRef EXCEPT ![r] = IntentionId]
    BY <1>0, CheckoutWrites
  <2> QED
    BY <1>0, <1>1, <2>1 DEF RefsApplied, TypeOK
<1>6. StockHeld'
  <2>1. DOMAIN stockLock' = Products
    BY <1>0, CheckoutKeepsCore DEF P!Core, P!Typed
  <2>2. ASSUME NEW p \in Products
        PROVE  \/ stockLock'[p] = stockLock[p]
               \/ stockLock[p] = NoTx /\ stockLock'[p] = r
               \/ stockLock[p] = r /\ stockLock'[p] = NoTx
    BY <1>0, ShopFacts, CheckoutIsSale, P!HandlerLocks DEF P!Core
  <2>3. ASSUME NEW a \in Actors, NEW p \in Products
        PROVE  stockLock'[p] = a <=> stockLock[p] = a
    BY <2>2, LockFacts
  <2>4. ASSUME NEW a \in Actors, pc[a] = "restore"
        PROVE  ProductsIn(target[a])' = ProductsIn(target[a])
    <3>1. target[a] \in Orders /\ Placed(target[a])
      <4>1. target[a] \in Orders
        BY <1>0, <2>4, TargetIsOrder
      <4>2. a \in Deliveries => Answered(target[a])
        BY <1>0, <2>4 DEF TargetsPlaced
      <4>3. a \in Deliveries => Placed(target[a])
        BY <1>0, <4>1, <4>2, AnsweredLinked
      <4> QED
        BY <1>0, <2>4, <4>1, <4>3 DEF TargetsPlaced
    <3>2. CASE UNCHANGED orderItems
      BY <1>1, <3>2 DEF ProductsIn
    <3>3. CASE P!Commit(r) /\ ~ Placed(r)
      <4>1. target[a] # r /\ orderItems' = [orderItems EXCEPT ![r] = items[r]]
        BY <3>1, <3>3 DEF P!Commit
      <4>2. orderItems'[target[a]] = orderItems[target[a]]
        BY <4>1
      <4> QED
        BY <1>1, <4>2 DEF ProductsIn
    <3> QED
      BY <1>3, <3>2, <3>3
  <2> QED
    BY <1>0, <1>1, <2>1, <2>3, <2>4 DEF StockHeld
<1> QED
  BY <1>4, <1>5, <1>6

(* A checkout keeps what joins the two.                                    *)
LEMMA CheckoutKeepsJoined ==
  ASSUME SystemInv, NEW r \in Orders, CheckoutStep(r)
  PROVE  Joined'
<1>0. TypeOK /\ Roles /\ P!Core /\ Joined
  BY DEF SystemInv, Settling
<1>1. UNCHANGED <<pc, target, batch, answer, applied>>
  BY <1>0, CheckoutWrites DEF settlementVars, local
<1>2. \A o \in Orders : Answered(o) => Answered(o)'
  BY <1>0, CheckoutAnswers
<1>3. \/ P!Commit(r) /\ ~ Placed(r) /\ orderStatus' = [orderStatus EXCEPT ![r] = "PENDING"]
      \/ UNCHANGED <<orderItems, orderStatus>>
  BY <1>0, CheckoutWrites
<1>4. \A o \in Orders : Placed(o) => Placed(o)'
  <2>1. DOMAIN orderStatus = Orders
    BY <1>0 DEF TypeOK
  <2> QED
    BY <1>3, <2>1 DEF Placed
<1>5. TargetsPlaced'
  <2>1. \A a \in Cancels : pc[a] # "idle" => target[a] \in Orders /\ Placed(target[a])
    BY <1>0 DEF Joined, TargetsPlaced, Roles
  <2>2. \A d \in Deliveries : pc[d] # "idle" => target[d] \in Orders /\ Answered(target[d])
    BY <1>0 DEF Joined, TargetsPlaced, Roles
  <2>3. \A c \in Crons : /\ \A o \in batch[c] : o \in Orders /\ Placed(o)
                         /\ pc[c] \in {"cancel", "fail", "restore"} =>
                                target[c] \in Orders /\ Placed(target[c])
    BY <1>0 DEF Joined, TargetsPlaced, Roles, TypeOK
  <2>4. \A a \in Cancels : pc'[a] # "idle" => Placed(target[a])'
    BY <1>1, <1>4, <2>1 DEF Placed
  <2>5. \A d \in Deliveries : pc'[d] # "idle" => Answered(target[d])'
    BY <1>1, <1>2, <2>2 DEF Answered
  <2>6. \A c \in Crons : /\ \A o \in batch'[c] : Placed(o)'
                         /\ pc'[c] \in {"cancel", "fail", "restore"} => Placed(target[c])'
    BY <1>1, <1>4, <2>3 DEF Placed
  <2> QED
    BY <2>4, <2>5, <2>6 DEF TargetsPlaced
<1>6. OrdersHaveItems'
  <2>1. CASE UNCHANGED <<orderItems, orderStatus>>
    BY <1>0, <2>1 DEF Joined, OrdersHaveItems, ProductsIn, Placed
  <2>2. CASE P!Commit(r) /\ orderStatus' = [orderStatus EXCEPT ![r] = "PENDING"]
    <3>1. /\ P!Wanted(r) # {} /\ orderItems' = [orderItems EXCEPT ![r] = items[r]]
          /\ DOMAIN orderItems = Orders /\ DOMAIN orderStatus = Orders
      BY <1>0, <2>2, PlaceTakes DEF TypeOK
    <3>2. \A o \in Orders \ {r} : /\ Placed(o)' <=> Placed(o)
                                  /\ ProductsIn(o)' = ProductsIn(o)
      BY <2>2, <3>1 DEF Placed, ProductsIn
    <3>3. ProductsIn(r)' # {}
      BY <3>1 DEF ProductsIn, P!Wanted
    <3> QED
      BY <1>0, <3>2, <3>3 DEF Joined, OrdersHaveItems
  <2> QED
    BY <1>3, <2>1, <2>2
<1>7. LocksTyped'
  <2>1. ASSUME NEW p \in Products
        PROVE  stockLock'[p] \in {stockLock[p], r, NoTx}
    BY <1>0, ShopFacts, CheckoutIsSale, P!HandlerLocks DEF P!Core
  <2> QED
    BY <1>0, <2>1 DEF Joined, LocksTyped
<1>8. AppliedAnswered'
  <2>1. \A t \in Transactions : applied[t] > 0 => Answered(OrderOf[t])
    BY <1>0 DEF Joined, AppliedAnswered
  <2>2. \A t \in Transactions : applied'[t] > 0 => Answered(OrderOf[t])'
    BY <1>1, <1>2, <2>1 DEF Answered
  <2> QED
    BY <2>2 DEF AppliedAnswered
<1>9. UnresolvedReplaced'
  BY <1>0, <1>1 DEF Joined, UnresolvedReplaced, Replaced
<1> QED
  BY <1>5, <1>6, <1>7, <1>8, <1>9 DEF Joined

(* A step of one actor is a step of no other.                              *)
LEMMA SettlementMoves ==
  ASSUME TypeOK, Roles, NEW a \in Actors, Progress(a) \/ GiveUp(a)
  PROVE  /\ \A b \in Actors \ {a} : /\ pc'[b] = pc[b] /\ target'[b] = target[b]
                                    /\ answer'[b] = answer[b]
         /\ \A c \in Crons \ {a} : batch'[c] = batch[c]
<1>1. UNCHANGED pc \/ \E l : Goto(a, l)
  BY DEF Progress, GiveUp, Cancel, RefuseCancel, Acquire, AlreadyProcessed, Resolve, Unresolved,
     ReadOrder, NothingToDo, WritePayment, WriteOrder, CommitPaid, Scan, NextExpired, ScanEnds,
     CancelExpired, FailPayment, CommitCancelled, RestoreRow, StartRestore, Answer
<1>2. UNCHANGED answer \/ \E w : answer' = [answer EXCEPT ![a] = w]
  BY DEF Progress, GiveUp, Cancel, RefuseCancel, Acquire, AlreadyProcessed, Resolve, Unresolved,
     ReadOrder, NothingToDo, WritePayment, WriteOrder, CommitPaid, Scan, NextExpired, ScanEnds,
     CancelExpired, FailPayment, CommitCancelled, RestoreRow, StartRestore, Answer
<1>3. UNCHANGED target \/ \E o : target' = [target EXCEPT ![a] = o]
  BY DEF Progress, GiveUp, Cancel, RefuseCancel, Acquire, AlreadyProcessed, Resolve, Unresolved,
     ReadOrder, NothingToDo, WritePayment, WriteOrder, CommitPaid, Scan, NextExpired, ScanEnds,
     CancelExpired, FailPayment, CommitCancelled, RestoreRow, local
<1>4. UNCHANGED batch \/ \E b : batch' = [batch EXCEPT ![a] = b]
  BY DEF Progress, GiveUp, Cancel, RefuseCancel, Acquire, AlreadyProcessed, Resolve, Unresolved,
     ReadOrder, NothingToDo, WritePayment, WriteOrder, CommitPaid, Scan, NextExpired, ScanEnds,
     CancelExpired, FailPayment, CommitCancelled, RestoreRow, local
<1> QED
  BY <1>1, <1>2, <1>3, <1>4 DEF TypeOK, Goto

(* The cleanup job takes up only orders it has found pending.              *)
LEMMA CronTakesPending ==
  ASSUME TypeOK, Roles, NEW c \in Crons, Progress(c) \/ GiveUp(c)
  PROVE  /\ \A o \in batch'[c] : o \in batch[c] \/ orderStatus[o] = "PENDING"
         /\ pc'[c] \in {"cancel", "fail", "restore"} =>
                \/ target'[c] \in batch[c]
                \/ target'[c] = target[c] /\ pc[c] \in {"cancel", "fail", "restore"}
<1>1. CASE Scan(c) \/ ScanEnds(c) \/ GiveUp(c)
  BY <1>1 DEF Scan, ScanEnds, GiveUp, Goto, TypeOK, local
<1>2. CASE NextExpired(c)
  BY <1>2 DEF NextExpired, Goto, TypeOK
<1>3. CASE CancelExpired(c) \/ FailPayment(c) \/ (\E p \in Products : RestoreRow(c, p))
  BY <1>3 DEF CancelExpired, FailPayment, RestoreRow, StartRestore, Goto, TypeOK, local
<1>4. CASE CommitCancelled(c)
  BY <1>4 DEF CommitCancelled, Answer, Goto, TypeOK, local
<1>5. c \notin Cancels /\ c \notin Deliveries
  BY ActorsAssumption
<1>6. pc[c] \in CronPlaces
  BY DEF Roles
<1> QED
  BY <1>1, <1>2, <1>3, <1>4, <1>5, <1>6
     DEF CronPlaces, Progress, Cancel, RefuseCancel, Acquire, AlreadyProcessed, Resolve, Unresolved,
         ReadOrder, NothingToDo, WritePayment, WriteOrder, CommitPaid

(* A callback that cannot resolve its order finds another transaction's id *)
(* in the payment.                                                         *)
LEMMA ResolveFails ==
  ASSUME SystemInv, NEW d \in Deliveries, Started(d), Resolve(d), pc'[d] = "unresolved"
  PROVE  Replaced(target[d])
<1>0. TypeOK /\ Roles /\ RefsApplied /\ P!Core
  BY DEF SystemInv, Settling
<1>1. ~ Resolvable(TxnOf[d])
  BY <1>0 DEF Resolve, Goto, TypeOK
<1> DEFINE o == OrderOf[TxnOf[d]]
<1>2. o \in Orders /\ Answered(o) /\ MethodOf[o] = "CREDIT_CARD" /\ target[d] = o
  BY <1>0, ActorsAssumption DEF Started, Roles
<1>3. PaymentOf(o) = "linked"
  <2> HIDE DEF o
  <2> QED
    BY <1>0, <1>2, AnsweredLinked
<1>4. paymentRef[o] # NoRef /\ paymentRef[o] # IntentionId
  BY <1>1, <1>3 DEF PaymentOf, Resolvable
<1>5. paymentRef[o] \in Transactions
  BY <1>0, <1>2, <1>4 DEF TypeOK
<1> HIDE DEF o
<1> QED
  BY <1>0, <1>2, <1>5 DEF RefsApplied, Replaced

(* A settlement keeps what joins the two.                                  *)
LEMMA SettlementKeepsJoined ==
  ASSUME SystemInv, NEW a \in Actors, SettlementStep(a)
  PROVE  Joined'
<1>0. TypeOK /\ Roles /\ StockHeld /\ P!Core /\ Joined
  BY DEF SystemInv, Settling
<1>1. Started(a) /\ (Progress(a) \/ GiveUp(a)) /\ [Next]_vars /\ UNCHANGED checkoutVars
  BY SettlementStarts
<1>2. Roles'
  BY <1>0, <1>1, NextTypeOK
<1>3. \A o \in Orders : Placed(o)' <=> Placed(o)
  BY <1>1, SettlementLinks
<1>4. \A o \in Orders : Answered(o)' <=> Answered(o)
  BY <1>1 DEF Answered, checkoutVars
<1>5. /\ \A b \in Actors \ {a} : /\ pc'[b] = pc[b] /\ target'[b] = target[b]
                                 /\ answer'[b] = answer[b]
      /\ \A c \in Crons \ {a} : batch'[c] = batch[c]
  BY <1>0, <1>1, SettlementMoves
<1>6. TargetsPlaced'
  <2>1. ASSUME NEW b \in Cancels, pc'[b] # "idle" PROVE Placed(target[b])'
    <3>1. target'[b] = CancelOf[b] /\ target[b] = CancelOf[b] /\ CancelOf[b] \in Orders
      BY <1>0, <1>2 DEF Roles
    <3>2. Placed(CancelOf[b])
      BY <1>0, <1>1, <1>5, <2>1, <3>1 DEF Started, Joined, TargetsPlaced
    <3> QED
      BY <1>3, <3>1, <3>2 DEF Placed
  <2>2. ASSUME NEW d \in Deliveries, pc'[d] # "idle" PROVE Answered(target[d])'
    <3>1. /\ target'[d] = OrderOf[TxnOf[d]] /\ target[d] = OrderOf[TxnOf[d]]
          /\ OrderOf[TxnOf[d]] \in Orders
      BY <1>0, <1>2 DEF Roles
    <3>2. Answered(OrderOf[TxnOf[d]])
      BY <1>0, <1>1, <1>5, <2>2, <3>1 DEF Started, Joined, TargetsPlaced
    <3> QED
      BY <1>4, <3>1, <3>2 DEF Answered
  <2>3. ASSUME NEW c \in Crons
        PROVE  /\ \A o \in batch'[c] : Placed(o)'
               /\ pc'[c] \in {"cancel", "fail", "restore"} => Placed(target[c])'
    <3>1. \A o \in batch[c] : o \in Orders /\ Placed(o)
      BY <1>0 DEF Joined, TargetsPlaced, TypeOK
    <3>2. pc[c] \in {"cancel", "fail", "restore"} => target[c] \in Orders /\ Placed(target[c])
      BY <1>0 DEF Joined, TargetsPlaced, Roles
    <3>3. TypeOK'
      BY <1>0, <1>1, NextTypeOK
    <3>4. batch'[c] \subseteq Orders
      BY <3>3 DEF TypeOK
    <3>5. CASE c # a
      BY <1>3, <1>5, <3>1, <3>2, <3>5 DEF Placed
    <3>6. CASE c = a
      <4>1. /\ \A o \in batch'[c] : o \in batch[c] \/ orderStatus[o] = "PENDING"
            /\ pc'[c] \in {"cancel", "fail", "restore"} =>
                   \/ target'[c] \in batch[c]
                   \/ target'[c] = target[c] /\ pc[c] \in {"cancel", "fail", "restore"}
        BY <1>0, <1>1, <3>6, CronTakesPending
      <4>2. \A o \in Orders : orderStatus[o] = "PENDING" => Placed(o)
        BY DEF Placed
      <4>3. \A o \in batch'[c] : Placed(o)'
        BY <1>3, <3>1, <3>4, <4>1, <4>2
      <4>4. pc'[c] \in {"cancel", "fail", "restore"} => target'[c] \in Orders /\ Placed(target'[c])
        BY <3>1, <3>2, <4>1
      <4>5. pc'[c] \in {"cancel", "fail", "restore"} => Placed(target[c])'
        BY <1>3, <4>4 DEF Placed
      <4> QED
        BY <4>3, <4>5
    <3> QED
      BY <3>5, <3>6
  <2> QED
    BY <2>1, <2>2, <2>3 DEF TargetsPlaced
<1>7. OrdersHaveItems' /\ LocksTyped'
  BY <1>0, <1>1, <1>3, SettlementRows DEF Joined, OrdersHaveItems, LocksTyped, ProductsIn
<1>8. /\ \A t \in Transactions : applied[t] > 0 => applied'[t] > 0
      /\ \A t \in Transactions : applied'[t] > 0 => applied[t] > 0 \/ Answered(OrderOf[t])
  <2>1. CASE UNCHANGED applied
    BY <2>1
  <2>2. CASE ~ UNCHANGED applied
    <3>1. /\ Answered(target[a]) /\ TxnOf[a] \in Transactions /\ target[a] = OrderOf[TxnOf[a]]
          /\ \E s \in {"PAID", "FAILED"} : Record(a, s)
      BY <1>1, <2>2, SettlementTarget
    <3>2. \A t \in Transactions :
              applied[t] \in Nat /\ applied'[t] = IF t = TxnOf[a] THEN applied[t] + 1 ELSE applied[t]
      BY <1>0, <3>1 DEF Record, TypeOK
    <3> QED
      BY <3>1, <3>2
  <2> QED
    BY <2>1, <2>2
<1>9. AppliedAnswered'
  <2>1. \A t \in Transactions : applied'[t] > 0 => Answered(OrderOf[t])
    BY <1>0, <1>8 DEF Joined, AppliedAnswered
  <2>2. \A t \in Transactions : applied'[t] > 0 => Answered(OrderOf[t])'
    BY <1>4, <2>1
  <2> QED
    BY <2>2 DEF AppliedAnswered
<1>10. UnresolvedReplaced'
  <2>1. \A o \in Orders : Replaced(o) => Replaced(o)'
    BY <1>8 DEF Replaced
  <2>2. ASSUME NEW d \in Deliveries, pc'[d] = "unresolved" \/ answer'[d] = "unresolved"
        PROVE  Replaced(target[d])'
    <3>1. target'[d] = target[d] /\ target[d] \in Orders
      BY <1>0, <1>2 DEF Roles
    <3>2. Replaced(target[d])
      <4>1. CASE pc[d] = "unresolved" \/ answer[d] = "unresolved"
        BY <1>0, <4>1 DEF Joined, UnresolvedReplaced
      <4>2. CASE ~ (pc[d] = "unresolved" \/ answer[d] = "unresolved")
        <5>1. d = a
          BY <1>5, <2>2, <4>2
        <5>2. Resolve(d) /\ pc'[d] = "unresolved"
          BY <1>0, <1>1, <2>2, <4>2, <5>1
             DEF Progress, GiveUp, Cancel, RefuseCancel, Acquire, AlreadyProcessed, Resolve,
                 Unresolved, ReadOrder, NothingToDo, WritePayment, WriteOrder, CommitPaid, Scan,
                 NextExpired, ScanEnds, CancelExpired, FailPayment, CommitCancelled, RestoreRow,
                 StartRestore, Answer, Goto, TypeOK
        <5> QED
          BY <1>1, <5>1, <5>2, ResolveFails
      <4> QED
        BY <4>1, <4>2
    <3> QED
      BY <2>1, <3>1, <3>2 DEF Replaced
  <2> QED
    BY <2>2 DEF UnresolvedReplaced
<1> QED
  BY <1>6, <1>7, <1>9, <1>10 DEF Joined

(* So does every other step.                                               *)
LEMMA OtherKeepsJoined ==
  ASSUME SystemInv, OtherStep
  PROVE  Joined'
<1>0. TypeOK /\ Roles /\ Joined
  BY DEF SystemInv, Settling
<1>1. /\ UNCHANGED <<orderItems, stockLock, pc, target, batch, answer, applied, checkoutVars>>
      /\ \A o \in Orders : Placed(o)' <=> Placed(o)
  BY <1>0, OtherStays
<1>2. \A o : Answered(o)' <=> Answered(o)
  BY <1>1 DEF Answered, checkoutVars
<1>3. /\ \A a \in Cancels : target[a] \in Orders
      /\ \A c \in Crons : /\ batch[c] \subseteq Orders
                          /\ pc[c] \in {"cancel", "fail", "restore"} => target[c] \in Orders
  BY <1>0 DEF Roles, TypeOK
<1>4. TargetsPlaced'
  <2>1. \A a \in Cancels : pc'[a] # "idle" => Placed(target[a])'
    BY <1>0, <1>1, <1>3 DEF Joined, TargetsPlaced, Placed
  <2>2. \A d \in Deliveries : pc'[d] # "idle" => Answered(target[d])'
    BY <1>0, <1>1, <1>2 DEF Joined, TargetsPlaced, Answered
  <2>3. \A c \in Crons : /\ \A o \in batch'[c] : Placed(o)'
                         /\ pc'[c] \in {"cancel", "fail", "restore"} => Placed(target[c])'
    BY <1>0, <1>1, <1>3 DEF Joined, TargetsPlaced, Placed
  <2> QED
    BY <2>1, <2>2, <2>3 DEF TargetsPlaced
<1>5. OrdersHaveItems' /\ LocksTyped'
  BY <1>0, <1>1 DEF Joined, OrdersHaveItems, LocksTyped, ProductsIn
<1>6. AppliedAnswered'
  <2>1. \A t \in Transactions : applied[t] > 0 => Answered(OrderOf[t])
    BY <1>0 DEF Joined, AppliedAnswered
  <2>2. \A t \in Transactions : applied'[t] > 0 => Answered(OrderOf[t])'
    BY <1>1, <1>2, <2>1
  <2> QED
    BY <2>2 DEF AppliedAnswered
<1>7. UnresolvedReplaced'
  BY <1>0, <1>1 DEF Joined, UnresolvedReplaced, Replaced
<1> QED
  BY <1>4, <1>5, <1>6, <1>7 DEF Joined
-----------------------------------------------------------------------------
(* The invariant holds in every state.                                     *)

(* The four kinds of steps.                                                *)
LEMMA SystemSteps ==
  ASSUME [SystemNext]_systemVars
  PROVE  \/ \E r \in Orders : CheckoutStep(r)
         \/ \E a \in Actors : SettlementStep(a)
         \/ OtherStep
         \/ \E p \in Products : StockSet(p)
  BY DEF SystemNext, CheckoutStep, SettlementStep, OtherStep

(* The invariant holds at the start.                                       *)
LEMMA InitSystemInv == SystemInit => SystemInv
<1> SUFFICES ASSUME SystemInit PROVE SystemInv
  OBVIOUS
<1>1. Init /\ Sales!Init
  BY DEF SystemInit
<1>2. Settling
  BY <1>1, InitTypeOK, InitRowsHeld, InitStockHeld, InitKeysHeld DEF Settling
<1>3. P!Core
  BY <1>1, SalesInit, ShopFacts, P!InitCore
<1>4. \A o \in Orders : ~ Placed(o)
  <2>1. {o \in Orders : Placed(o)} = {}
    BY <1>1 DEF Sales!Init
  <2> QED
    BY <2>1
<1>5. Joined
  BY <1>1, <1>4 DEF Init, Joined, TargetsPlaced, OrdersHaveItems, LocksTyped, AppliedAnswered,
     UnresolvedReplaced
<1> QED
  BY <1>2, <1>3, <1>5 DEF SystemInv

(* The settlement's part of the invariant is inductive by itself.          *)
LEMMA SettlingStays ==
  ASSUME Settling, [Next]_vars
  PROVE  Settling'
  BY NextTypeOK, NextRowsHeld, NextStockHeld, NextRefsApplied DEF Settling

(* Every step keeps the invariant.                                         *)
LEMMA NextSystemInv == SystemInv /\ [SystemNext]_systemVars => SystemInv'
<1> SUFFICES ASSUME SystemInv, [SystemNext]_systemVars PROVE SystemInv'
  OBVIOUS
<1>1. ASSUME NEW r \in Orders, CheckoutStep(r) PROVE SystemInv'
  <2>1. TypeOK' /\ Roles' /\ RowsHeld' /\ StockHeld' /\ RefsApplied'
    BY <1>1, CheckoutKeepsTypes, CheckoutKeepsRows
  <2>2. P!Core' /\ Joined'
    BY <1>1, CheckoutKeepsCore, CheckoutKeepsJoined DEF SystemInv
  <2> QED
    BY <2>1, <2>2 DEF SystemInv, Settling
<1>2. ASSUME NEW a \in Actors, SettlementStep(a) PROVE SystemInv'
  <2>1. Settling'
    BY <1>2, SettlementStarts, SettlingStays DEF SystemInv
  <2>2. P!Core' /\ Joined'
    BY <1>2, SettlementKeepsCore, SettlementKeepsJoined
  <2> QED
    BY <2>1, <2>2 DEF SystemInv
<1>3. CASE OtherStep
  <2>1. Settling'
    BY <1>3, OtherStays, SettlingStays DEF SystemInv, Settling
  <2>2. P!Core' /\ Joined'
    BY <1>3, OtherKeepsCore, OtherKeepsJoined
  <2> QED
    BY <2>1, <2>2 DEF SystemInv
<1>4. ASSUME NEW p \in Products, StockSet(p) PROVE SystemInv'
  BY <1>4, StockSetKeepsCore, StockSetKeepsRest DEF SystemInv
<1> QED
  BY <1>1, <1>2, <1>3, <1>4, SystemSteps

(* The invariants of both components and what joins them hold together.    *)
THEOREM SystemHolds == SystemSpec => []SystemInv
  BY InitSystemInv, NextSystemInv, PTL DEF SystemSpec

(* Every variable of an order's life keeps its type.                       *)
THEOREM SystemTyped == SystemSpec => []TypeOK
<1>1. SystemInv => TypeOK
  BY DEF SystemInv, Settling
<1> QED
  BY <1>1, SystemHolds, PTL

(* order.service.ts:324: whatever cancels, webhooks, cleanup jobs and      *)
(* administrators do, the rows a checkout has locked keep the quantities   *)
(* it has read and validated.                                              *)
THEOREM SystemUndisturbed == SystemSpec => []CheckoutUndisturbed
<1>1. SystemInv => CheckoutUndisturbed
  BY DEF SystemInv, CheckoutUndisturbed, P!Core, P!LockDiscipline, Sales!LockDiscipline,
     P!HeldRowsAreSeen, Sales!HeldRowsAreSeen, P!ValidatedIsCovered, Sales!ValidatedIsCovered,
     P!LocksAscend, Sales!LocksAscend, P!Wanted, Sales!Wanted, P!ToLock, Sales!ToLock,
     P!InStock, Sales!InStock, P!Locking, Sales!Locking, P!Validated, Sales!Validated
<1> QED
  BY <1>1, SystemHolds, PTL

(* README.md:58: the cap of a campaign holds beside everything that ends   *)
(* an order.                                                               *)
THEOREM SystemCampaigns == SystemSpec => []CampaignsStayCapped
<1>1. SystemInv => CampaignsStayCapped
  <2>1. P!CampaignCapped <=> Sales!CampaignCapped
    <3>1. \A c : P!UsagesOf(c) = Sales!UsagesOf(c)
      BY DEF P!UsagesOf, Sales!UsagesOf
    <3>2. \A S : P!Cardinality(S) = Sales!Cardinality(S)
      BY DEF P!Cardinality, Sales!Cardinality
    <3>3. \A c : P!Cardinality(P!UsagesOf(c)) = Sales!Cardinality(Sales!UsagesOf(c))
      BY <3>1, <3>2
    <3> QED
      BY <3>1, <3>3 DEF P!CampaignCapped, Sales!CampaignCapped
  <2> QED
    BY <2>1 DEF SystemInv, CampaignsStayCapped, P!Core, P!Promotions
<1> QED
  BY <1>1, SystemHolds, PTL

(* payment-webhook.service.ts:57: a callback without the order's id misses *)
(* its order only when a transaction has been written to its payment.      *)
THEOREM SystemCallbacks == SystemSpec => []CallbackFindsOrder
<1>1. SystemInv => CallbackFindsOrder
  BY DEF SystemInv, Settling, Roles, Joined, UnresolvedReplaced, Replaced, CallbackFindsOrder
<1> QED
  BY <1>1, SystemHolds, PTL
-----------------------------------------------------------------------------
(* No stock is lost, and no transaction written twice.                     *)

(* What an order takes out of the stock is in the order.                   *)
LEMMA PlaceKeepsStock ==
  ASSUME SystemInv, NEW r \in Orders, P!Commit(r), ~ Placed(r), orderItems[r] = P!NoItems,
         orderStatus' = [orderStatus EXCEPT ![r] = "PENDING"], UNCHANGED withdrawn,
         NEW p \in Products
  PROVE  stock'[p] + Held(p)' = stock[p] + Held(p)
<1>0. TypeOK /\ P!Core
  BY DEF SystemInv, Settling
<1>1. /\ items[r] \in P!Rows /\ orderItems' = [orderItems EXCEPT ![r] = items[r]]
      /\ stock' = [q \in Products |-> stock[q] - Amount(items[r][q])]
  BY <1>0, PlaceTakes
<1>2. Open' = Open /\ r \in Open
  BY <1>0 DEF Open, Placed, TypeOK
<1>3. Out' = Out /\ r \in Out
  BY <1>2 DEF Out
<1> DEFINE f == Pieces(orderItems, p)
           g == Pieces(orderItems, p)'
<1>4. /\ IsFiniteSet(Out) /\ Out \subseteq Orders
      /\ \A o \in Orders : f[o] \in Int /\ f[o] = Amount(orderItems[o][p])
      /\ Held(p) \in Int /\ Held(p) = SumFunctionOnSet(f, Out)
  BY <1>0, PiecesFacts
<1>5. \A o \in Orders : g[o] = Amount(orderItems'[o][p])
  BY DEF Pieces
<1>6. /\ \A o \in Orders \ {r} : g[o] = f[o]
      /\ g[r] = Amount(items[r][p]) /\ f[r] = 0 /\ Amount(items[r][p]) \in Int
  <2>1. /\ \A o \in Orders \ {r} : orderItems'[o] = orderItems[o]
        /\ orderItems'[r] = items[r]
    BY <1>0, <1>1 DEF TypeOK
  <2>2. Amount(orderItems[r][p]) = 0
    BY DEF P!NoItems, Amount
  <2>3. items[r][p] \in Int \cup {NoRow}
    BY <1>1, RowType
  <2>4. Amount(items[r][p]) \in Int
    BY <2>3, AmountType
  <2> HIDE DEF f, g
  <2> QED
    BY <1>4, <1>5, <2>1, <2>2, <2>4
<1>7. Held(p)' = SumFunctionOnSet(g, Out)
  <2>1. Held(p)' = SumFunctionOnSet(g, Out')
    BY DEF Held, Out
  <2> QED
    BY <1>3, <2>1
<1> HIDE DEF f, g
<1>8. \A o \in Out : f[o] \in Int /\ g[o] \in Int
  BY <1>4, <1>6
<1>9. \A o \in Out \ {r} : f[o] = g[o]
  BY <1>4, <1>6
<1>10. SumFunctionOnSet(g, Out) = SumFunctionOnSet(f, Out) + g[r] - f[r]
  BY <1>3, <1>4, <1>8, <1>9, SumChange
<1>11. stock'[p] = stock[p] - Amount(items[r][p]) /\ stock[p] \in Int
  BY <1>0, <1>1 DEF TypeOK
<1> QED
  BY <1>4, <1>6, <1>7, <1>10, <1>11

(* What is counted after a checkout was counted before: the new order has  *)
(* no rows yet, the others keep theirs.                                    *)
LEMMA PlaceCounts ==
  ASSUME TypeOK, NEW r \in Orders, P!Commit(r), orderItems[r] = P!NoItems,
         NEW p \in Products, Countable(p)'
  PROVE  Countable(p)
<1>1. orderItems' = [orderItems EXCEPT ![r] = items[r]]
  BY DEF P!Commit
<1>2. \A o \in Orders \ {r} : orderItems'[o] = orderItems[o]
  BY <1>1 DEF TypeOK
<1>3. Amount(orderItems[r][p]) = 0
  BY DEF P!NoItems, Amount
<1> QED
  BY <1>2, <1>3 DEF Countable

(* A checkout moves pieces from the stock to its order.                    *)
LEMMA CheckoutLosesNoStock ==
  ASSUME SystemInv, NoStockLost, NEW r \in Orders, CheckoutStep(r)
  PROVE  NoStockLost'
<1>0. TypeOK /\ P!Core
  BY DEF SystemInv, Settling
<1>1. UNCHANGED withdrawn
  BY <1>0, CheckoutWrites DEF settlementVars
<1>2. CASE UNCHANGED <<stock, orderItems, orderStatus>>
  BY <1>1, <1>2 DEF NoStockLost, Countable, Held, Total, Pieces, Open
<1>3. CASE /\ P!Commit(r) /\ ~ Placed(r) /\ orderItems[r] = P!NoItems
           /\ orderStatus' = [orderStatus EXCEPT ![r] = "PENDING"]
  <2>1. \A p \in Products : stock'[p] + Held(p)' = stock[p] + Held(p)
    BY <1>1, <1>3, PlaceKeepsStock
  <2>2. \A p \in Products : Countable(p)' => Countable(p)
    BY <1>0, <1>3, PlaceCounts
  <2> QED
    BY <2>1, <2>2 DEF NoStockLost, Total
<1> QED
  BY <1>0, <1>2, <1>3, CheckoutWrites

(* What an administrator sets is counted no more.                          *)
LEMMA StockSetLosesNone ==
  ASSUME TypeOK, NoStockLost, NEW q \in Products, StockSet(q)
  PROVE  NoStockLost'
<1>1. /\ q \in Restocked /\ UNCHANGED <<orderItems, orderStatus, withdrawn>>
      /\ \E n \in 0..MaxStock : stock' = [stock EXCEPT ![q] = n]
  BY StockSetWrites DEF settlementVars
<1>2. ASSUME NEW p \in Products, Countable(p)'
      PROVE  (stock[p] + Held(p) >= Total(p))'
  <2>1. Countable(p) /\ p # q
    BY <1>1, <1>2 DEF Countable
  <2>2. stock'[p] = stock[p]
    BY <1>1, <2>1 DEF TypeOK
  <2>3. Held(p)' = Held(p) /\ Total(p)' = Total(p)
    BY <1>1 DEF Held, Total, Pieces, Open
  <2> QED
    BY <2>1, <2>2, <2>3 DEF NoStockLost
<1> QED
  BY <1>2 DEF NoStockLost

(* The account is inductive.                                               *)
LEMMA SystemLosesNoPiece ==
  SystemInv /\ NoStockLost /\ [SystemNext]_systemVars => NoStockLost'
<1> SUFFICES ASSUME SystemInv, NoStockLost, [SystemNext]_systemVars PROVE NoStockLost'
  OBVIOUS
<1>1. ASSUME [Next]_vars PROVE NoStockLost'
  BY <1>1, NextNoStockLost DEF SystemInv, Settling
<1>2. ASSUME NEW a \in Actors, SettlementStep(a) PROVE NoStockLost'
  BY <1>1, <1>2, SettlementStarts
<1>3. CASE OtherStep
  BY <1>1, <1>3, OtherStays DEF SystemInv, Settling
<1>4. ASSUME NEW p \in Products, StockSet(p) PROVE NoStockLost'
  BY <1>4, StockSetLosesNone DEF SystemInv, Settling
<1> QED
  BY <1>2, <1>3, <1>4, CheckoutLosesNoStock, SystemSteps

(* README.md:48 and 54: checkouts, cancels, webhook calls, cleanup runs    *)
(* and administrators, whatever statuses they set, together lose no piece  *)
(* of what is counted: what is not in the stock is in an order that is not *)
(* cancelled, or that an administrator cancelled.                          *)
THEOREM SystemLosesNoStock == SystemSpec => []NoStockLost
<1>1. SystemInit => NoStockLost
  BY InitNoStockLost DEF SystemInit
<1> QED
  BY <1>1, SystemHolds, SystemLosesNoPiece, PTL DEF SystemSpec

(* A checkout writes an intention's id before its customer can pay, so it  *)
(* overwrites no transaction's.                                            *)
LEMMA CheckoutKeepsKeys ==
  ASSUME SystemInv, KeysHeld, NEW r \in Orders, CheckoutStep(r)
  PROVE  KeysHeld'
<1>0. TypeOK /\ P!Core /\ AppliedAnswered
  BY DEF SystemInv, Settling, Joined
<1>1. UNCHANGED <<keys, pc, applied, echoed, lapsed>>
  BY <1>0, CheckoutWrites DEF settlementVars
<1>2. ASSUME NEW t \in Transactions, applied[t] > 0
      PROVE  paymentRef'[OrderOf[t]] = paymentRef[OrderOf[t]]
  <2>1. OrderOf[t] \in Orders /\ Answered(OrderOf[t]) /\ MethodOf[OrderOf[t]] = "CREDIT_CARD"
    BY <1>0, <1>2, ActorsAssumption DEF AppliedAnswered
  <2>2. at[OrderOf[t]] \notin P!Unpaid
    BY <1>0, <2>1, AnsweredLinked
  <2>3. \/ UNCHANGED paymentRef
        \/ (at[r] = "link" /\ paymentRef' = [paymentRef EXCEPT ![r] = IntentionId])
    BY <1>0, CheckoutWrites
  <2>4. at[OrderOf[t]] # "link"
    BY <2>2 DEF P!Unpaid
  <2> QED
    BY <1>0, <2>1, <2>3, <2>4 DEF TypeOK
<1>3. ASSUME NEW t \in Transactions PROVE AppliedKey(t)'
  BY <1>1, <1>2 DEF KeysHeld, AppliedKey, Spent
<1>4. (\A d \in Deliveries : DeliveryKey(d))' /\ OneInFlight'
  BY <1>1 DEF KeysHeld, DeliveryKey, OneInFlight, InFlight, Resolved, Spent
<1> QED
  BY <1>3, <1>4 DEF KeysHeld

(* A stock level has no part in the keys.                                  *)
LEMMA StockSetKeepsKeys ==
  ASSUME KeysHeld, NEW p \in Products, StockSet(p)
  PROVE  KeysHeld'
<1>1. UNCHANGED <<keys, pc, applied, echoed, lapsed, paymentRef>>
  BY StockSetWrites DEF settlementVars
<1> QED
  BY <1>1 DEF KeysHeld, DeliveryKey, OneInFlight, AppliedKey, InFlight, Resolved, Spent

(* The keys are inductive.                                                 *)
LEMMA SystemKeysHeld == SystemInv /\ KeysHeld /\ [SystemNext]_systemVars => KeysHeld'
<1> SUFFICES ASSUME SystemInv, KeysHeld, [SystemNext]_systemVars
             PROVE  KeysHeld'
  OBVIOUS
<1>1. ASSUME [Next]_vars PROVE KeysHeld'
  BY <1>1, NextKeysHeld DEF SystemInv, Settling
<1>2. ASSUME NEW a \in Actors, SettlementStep(a) PROVE KeysHeld'
  BY <1>1, <1>2, SettlementStarts
<1>3. CASE OtherStep
  BY <1>1, <1>3, OtherStays DEF SystemInv, Settling
<1> QED
  BY <1>2, <1>3, CheckoutKeepsKeys, StockSetKeepsKeys, SystemSteps

(* README.md:53 and 164: a Paymob transaction is written at most once for  *)
(* every time its key is set, also to a payment that its checkout is still *)
(* creating; and once for ever when its callback does not name the order.  *)
THEOREM SystemAppliesOnce == SystemSpec => []AppliedOncePerKey
<1>1. SystemInit => KeysHeld
  BY InitKeysHeld DEF SystemInit
<1>2. KeysHeld => AppliedOncePerKey
  BY DEF KeysHeld, AppliedKey, AppliedOncePerKey, Spent
<1> QED
  BY <1>1, <1>2, SystemHolds, SystemKeysHeld, PTL DEF SystemSpec
-----------------------------------------------------------------------------
(* What a step may never do.                                               *)

(* What a customer has paid stays paid when the job cancels the order,     *)
(* also when the checkout creates the payment at the same time.            *)
THEOREM SystemSparesPaid == SystemSpec => CleanupKeepsPaid
<1>1. SystemInv /\ [SystemNext]_systemVars =>
      [\A c \in Crons, o \in Orders :
           pc[c] = "restore" /\ pc'[c] = "next" /\ payment[o] = "PAID" => payment'[o] = "PAID"]_vars
  <2> SUFFICES ASSUME SystemInv, [SystemNext]_systemVars, NEW c \in Crons, NEW o \in Orders,
                      pc[c] = "restore", pc'[c] = "next", payment[o] = "PAID"
               PROVE  payment'[o] = "PAID"
    OBVIOUS
  <2>0. TypeOK /\ Roles /\ RowsHeld /\ P!Core
    BY DEF SystemInv, Settling
  <2>1. CASE [Next]_vars
    BY <2>0, <2>1, CleanupFailsPending
  <2>2. ASSUME NEW r \in Orders, CheckoutStep(r) PROVE FALSE
    BY <2>0, <2>2, CheckoutWrites DEF settlementVars
  <2>3. ASSUME NEW p \in Products, StockSet(p) PROVE FALSE
    BY <2>3, StockSetWrites DEF settlementVars
  <2> QED
    BY <2>0, <2>1, <2>2, <2>3, SystemSteps, SettlementStarts, OtherStays
<1> QED
  BY <1>1, SystemHolds, PTL DEF SystemSpec, CleanupKeepsPaid

(* order.service.ts:219: when a cancel commits, the order is PENDING.      *)
THEOREM SystemCancelsPending == SystemSpec => CancelEndsPending
<1>1. SystemInv /\ [SystemNext]_systemVars =>
      [\A a \in Cancels :
           answer[a] # "cancelled" /\ answer'[a] = "cancelled"
               => orderStatus[target[a]] = "PENDING"]_systemVars
  <2> SUFFICES ASSUME SystemInv, [SystemNext]_systemVars, NEW a \in Cancels,
                      answer[a] # "cancelled", answer'[a] = "cancelled"
               PROVE  orderStatus[target[a]] = "PENDING"
    OBVIOUS
  <2>0. TypeOK /\ Roles /\ RowsHeld /\ P!Core
    BY DEF SystemInv, Settling
  <2>1. ASSUME NEW r \in Orders, CheckoutStep(r) PROVE FALSE
    BY <2>0, <2>1, CheckoutWrites DEF settlementVars
  <2>2. ~ OtherStep /\ ~ \E p \in Products : StockSet(p)
    BY <2>0, OtherStays, StockSetWrites DEF settlementVars
  <2>3. PICK b \in Actors : SettlementStep(b)
    BY <2>1, <2>2, SystemSteps
  <2>4. Progress(b) \/ GiveUp(b)
    BY <2>3, SettlementStarts
  <2>5. b = a
    BY <2>0, <2>4, SettlementMoves
  <2>6. pc[a] = "restore"
    BY <2>0, <2>4, <2>5
       DEF Progress, GiveUp, Cancel, RefuseCancel, Acquire, AlreadyProcessed, Unresolved, Resolve,
           ReadOrder, NothingToDo, WritePayment, WriteOrder, CommitPaid, Scan, NextExpired,
           ScanEnds, CancelExpired, FailPayment, CommitCancelled, RestoreRow, StartRestore, Answer,
           TypeOK
  <2> QED
    BY <2>0, <2>6 DEF RowsHeld
<1> QED
  BY <1>1, SystemHolds, PTL DEF SystemSpec, CancelEndsPending
-----------------------------------------------------------------------------
(* The refinement: an order's life is the ledger of OrderLedger.           *)

(* The initial states are initial states of the ledger.                    *)
LEMMA LifeInitially == SystemInit => Life!LedgerInit
<1> SUFFICES ASSUME SystemInit PROVE Life!LedgerInit
  OBVIOUS
<1>1. stock \in [Products -> Sales!Quantities] /\ orderItems = [o \in Orders |-> Sales!NoItems]
  BY DEF SystemInit, Sales!Init
<1> QED
  BY <1>1 DEF Life!LedgerInit, Life!NoItems, Sales!NoItems, Sales!Quantities

(* A commit reserves the rows it has validated.                            *)
LEMMA PlaceReserves ==
  ASSUME SystemInv, NEW r \in Orders, P!Commit(r), orderItems[r] = P!NoItems
  PROVE  Life!Reserve(r)
<1>0. P!Core
  BY DEF SystemInv
<1>1. /\ P!Wanted(r) # {} /\ at[r] = "commit" /\ items[r] \in P!Rows
      /\ orderItems' = [orderItems EXCEPT ![r] = items[r]]
      /\ stock' = [p \in Products |-> stock[p] - Amount(items[r][p])]
  BY <1>0, PlaceTakes
<1>2. \A p \in P!Wanted(r) : items[r][p] <= stock[p]
  BY <1>0, <1>1, ShopFacts, P!Covered DEF P!Core, P!Validated
<1>3. \A p \in Products : items[r][p] # NoRow => items[r][p] <= stock[p]
  BY <1>2 DEF P!Wanted
<1>4. items[r] \in [Products -> Sales!Amounts \cup {NoRow}]
  BY <1>1 DEF P!Rows, P!Amounts, Sales!Amounts
<1>5. items[r] # Life!NoItems
  <2>1. PICK p \in Products : items[r][p] # NoRow
    BY <1>1 DEF P!Wanted
  <2> QED
    BY <2>1 DEF Life!NoItems
<1>6. orderItems[r] = Life!NoItems
  BY DEF P!NoItems, Life!NoItems
<1>7. \A q : Life!Taken(q) = Amount(q)
  BY DEF Life!Taken, Amount
<1> QED
  BY <1>1, <1>3, <1>4, <1>5, <1>6, <1>7 DEF Life!Reserve

(* A cancellation gives back everything, of an order that has something.   *)
LEMMA CancelledGives ==
  ASSUME SystemInv, NEW a \in Actors, Started(a), CommitCancelled(a)
  PROVE  target[a] \in Orders /\ Life!GiveBack(target[a])
<1>0. TypeOK /\ Roles /\ OrdersHaveItems
  BY DEF SystemInv, Settling, Joined
<1>1. target[a] \in Orders /\ stock' = Returned(target[a]) /\ UNCHANGED orderItems
  BY <1>0, TargetIsOrder DEF CommitCancelled, orders
<1>2. Placed(target[a])
  <2>1. orderStatus'[target[a]] = "CANCELLED"
    BY <1>0, <1>1 DEF CommitCancelled, TypeOK
  <2>2. Progress(a)
    BY DEF Progress
  <2>3. Placed(target[a])' <=> Placed(target[a])
    <3>1. \A o \in Orders : Placed(o)' <=> Placed(o)
      BY <2>2, SettlementLinks
    <3>2. target'[a] = target[a]
      BY DEF CommitCancelled, local
    <3> QED
      BY <1>1, <3>1, <3>2 DEF Placed
  <2>4. target'[a] = target[a]
    BY DEF CommitCancelled, local
  <2> QED
    BY <2>1, <2>3, <2>4 DEF Placed
<1>3. PICK p \in Products : orderItems[target[a]][p] # NoRow
  BY <1>0, <1>1, <1>2 DEF OrdersHaveItems, ProductsIn
<1>4. orderItems[target[a]] # Life!NoItems
  BY <1>3 DEF Life!NoItems
<1>5. \A q : Life!Taken(q) = Amount(q)
  BY DEF Life!Taken, Amount
<1> QED
  BY <1>1, <1>4, <1>5 DEF Life!GiveBack, Returned

(* A stock level that is set is a restocking of the ledger.                *)
LEMMA StockSetRestocks ==
  ASSUME NEW p \in Products, StockSet(p)
  PROVE  Life!Restock(p)
  BY StockSetWrites DEF Life!Restock

(* Every step is a step of the ledger or leaves it alone.                  *)
LEMMA LifeStep == SystemInv /\ [SystemNext]_systemVars => [Life!OrderNext]_Life!ledgerVars
<1> SUFFICES ASSUME SystemInv, [SystemNext]_systemVars
             PROVE  Life!OrderNext \/ UNCHANGED <<stock, orderItems>>
  BY DEF Life!ledgerVars
<1>0. TypeOK /\ P!Core
  BY DEF SystemInv, Settling
<1>1. ASSUME NEW r \in Orders, CheckoutStep(r)
      PROVE  Life!OrderNext \/ UNCHANGED <<stock, orderItems>>
  <2>1. \/ P!Commit(r) /\ orderItems[r] = P!NoItems
        \/ UNCHANGED <<stock, orderItems>>
    BY <1>0, <1>1, CheckoutWrites
  <2> QED
    BY <2>1, PlaceReserves DEF Life!OrderNext, Life!LedgerNext
<1>2. ASSUME NEW a \in Actors, SettlementStep(a)
      PROVE  Life!OrderNext \/ UNCHANGED <<stock, orderItems>>
  <2>1. Started(a) /\ (Progress(a) \/ GiveUp(a))
    BY <1>2, SettlementStarts
  <2>2. CASE CommitCancelled(a)
    BY <2>1, <2>2, CancelledGives DEF Life!OrderNext
  <2>3. CASE ~ CommitCancelled(a)
    BY <2>1, <2>3 DEF Progress, GiveUp, Cancel, RefuseCancel, Acquire, AlreadyProcessed,
       Unresolved, Resolve, ReadOrder, NothingToDo, WritePayment, WriteOrder, CommitPaid, Scan,
       NextExpired, ScanEnds, CancelExpired, FailPayment, RestoreRow, orders, rows
  <2> QED
    BY <2>2, <2>3
<1>3. CASE OtherStep
  BY <1>0, <1>3, OtherStays
<1>4. ASSUME NEW p \in Products, StockSet(p)
      PROVE  Life!OrderNext \/ UNCHANGED <<stock, orderItems>>
  BY <1>4, StockSetRestocks DEF Life!OrderNext, Life!LedgerNext
<1> QED
  BY <1>1, <1>2, <1>3, <1>4, SystemSteps

(* With every lock, statement and failure left out, checkouts, cancels,    *)
(* webhooks, cleanup jobs and administrators do three things to the stock: *)
(* an order takes all its rows while the stock has what each asks, an      *)
(* order gives all of them back, and an administrator sets a level.        *)
THEOREM LifeRefines == SystemSpec => LifeImplemented
<1>1. SystemSpec => Life!LedgerInit /\ [][Life!OrderNext]_Life!ledgerVars
  BY SystemHolds, LifeInitially, LifeStep, PTL DEF SystemSpec
<1> QED
  BY <1>1 DEF LifeImplemented, Life!OrderSpec
=============================================================================
