----------------------------- MODULE Settlement -----------------------------
(***************************************************************************)
(* What ends a pending order: the customer cancels it, Paymob reports a    *)
(* transaction, the cleanup job finds it expired, an administrator sets    *)
(* its status.  Each of them is a transaction that locks the rows it       *)
(* writes, in its own order, and reads some of them before it locks them.  *)
(*                                                                         *)
(* The orders that have items at the start are pending, their items        *)
(* already out of the stock; the others are not placed: OrderSystem adds   *)
(* the checkouts that place them.  As in Checkout a transaction's writes   *)
(* appear when it commits, and its locks are all that is seen before.      *)
(***************************************************************************)
EXTENDS Integers, FiniteSets, Functions

CONSTANTS
    Orders, Products,
    Items, NoRow,      \* the row of each product in each order at the start, if any
    MethodOf,          \* paymentMethod of each order
    Cancels, CancelOf,             \* cancel requests and their orders
    Transactions, OrderOf,         \* Paymob transactions and their orders
    Echoes,            \* which of them may have a callback that names the order
    Deliveries, TxnOf, \* webhook calls and the transactions they report
    Crons,             \* servers that run the cleanup job
    InitialStock,
    Restocked,         \* products whose stock an administrator sets (OrderSystem)
    AdminStatuses,     \* the statuses an administrator sets
    ExpiringKeys,      \* transactions whose Redis key may reach its hour
    Ageing,            \* orders whose thirty minutes may pass
    Failing,           \* the actors whose statements may fail
    NoTx, NoOrder, NoRef, IntentionId  \* no lock, order, id; an intention's id

Actors == Cancels \cup Deliveries \cup Crons
Statuses == {"PENDING", "PROCESSING", "SHIPPED", "DELIVERED", "CANCELLED"}

ASSUME OrdersAssumption ==
    /\ IsFiniteSet(Orders) /\ AdminStatuses \subseteq Statuses
    /\ Items \in [Orders -> [Products -> Int \cup {NoRow}]] /\ NoRow \notin Int
    /\ InitialStock \in [Products -> Int]
    /\ MethodOf \in [Orders -> {"CASH", "CREDIT_CARD"}]
ASSUME ActorsAssumption ==
    /\ CancelOf \in [Cancels -> Orders]
    /\ TxnOf \in [Deliveries -> Transactions]
    /\ Echoes \subseteq SUBSET Transactions
    /\ OrderOf \in [Transactions -> {o \in Orders : MethodOf[o] = "CREDIT_CARD"}]
    /\ Cancels \cap Deliveries = {} /\ Crons \cap (Cancels \cup Deliveries) = {}
    /\ NoTx \notin Actors /\ NoOrder \notin Orders /\ Failing \subseteq Actors
    /\ NoRef # IntentionId /\ {NoRef, IntentionId} \cap Transactions = {}

VARIABLES
    charged,           \* the transactions that succeed
    echoed,            \* those whose callback names the order
    orderItems,        \* the OrderItem rows
    orderStatus, payment,  \* Order.orderStatus, Payment.status
    paymentRef,        \* Payment.providerPaymentId
    stock,
    orderLock, paymentLock, stockLock,   \* the transaction that holds each row
    keys,              \* the transactions with a key in Redis
    expired,           \* orders older than 30 minutes
    pc, target,        \* where each actor is, with which order
    todo,              \* the products it has still to put back
    batch,             \* the orders a cleanup run has still to cancel
    answer,            \* what a cancel request or webhook call was answered
    applied,           \* how often each transaction was written to the database
    lapsed,            \* how often the key of each has reached its hour
    withdrawn          \* orders an administrator cancelled, still not given back

rows == <<orderStatus, payment, paymentRef, stock, withdrawn>>
locks == <<orderLock, paymentLock, stockLock>>
local == <<target, todo, batch>>
orders == <<charged, echoed, lapsed, orderItems>>
vars == <<orders, rows, locks, local, keys, expired, pc, answer, applied>>

InTx == {"read", "payment", "order", "settle", "cancel", "fail", "restore"}

ProductsIn(o) == {p \in Products : orderItems[o][p] # NoRow}
PlacedAtStart(o) == \E p \in Products : Items[o][p] # NoRow
PaidAtStart(o) == PlacedAtStart(o) /\ MethodOf[o] = "CREDIT_CARD"

Init ==
    /\ charged \in SUBSET Transactions
    /\ echoed \in Echoes
    /\ orderItems = Items
    /\ orderStatus = [o \in Orders |-> IF PlacedAtStart(o) THEN "PENDING" ELSE "none"]
    /\ payment = [o \in Orders |-> IF PaidAtStart(o) THEN "PENDING" ELSE "none"]
    /\ paymentRef = [o \in Orders |-> IF PaidAtStart(o) THEN IntentionId ELSE NoRef]
    /\ stock = InitialStock
    /\ orderLock = [o \in Orders |-> NoTx]
    /\ paymentLock = [o \in Orders |-> NoTx]
    /\ stockLock = [p \in Products |-> NoTx]
    /\ keys = {}
    /\ expired = {}
    /\ pc = [a \in Actors |-> "idle"]
    /\ target = [a \in Actors |->
           IF a \in Cancels THEN CancelOf[a]
           ELSE IF a \in Deliveries THEN OrderOf[TxnOf[a]] ELSE NoOrder]
    /\ todo = [a \in Actors |-> {}]
    /\ batch = [c \in Crons |-> {}]
    /\ answer = [a \in Actors |-> "none"]
    /\ applied = [t \in Transactions |-> 0]
    /\ lapsed = [t \in Transactions |-> 0]
    /\ withdrawn = {}
-----------------------------------------------------------------------------
Goto(a, l) == pc' = [pc EXCEPT ![a] = l]
Answer(a, what) == Goto(a, "done") /\ answer' = [answer EXCEPT ![a] = what]

Without(lock, a) == [x \in DOMAIN lock |-> IF lock[x] = a THEN NoTx ELSE lock[x]]
Unlock(a) ==
    /\ orderLock' = Without(orderLock, a)
    /\ paymentLock' = Without(paymentLock, a)
    /\ stockLock' = Without(stockLock, a)

OrderFree(a) == orderLock[target[a]] = NoTx
LockOrder(a) ==
    /\ OrderFree(a)
    /\ orderLock' = [orderLock EXCEPT ![target[a]] = a]
LockPayment(a) ==
    /\ paymentLock[target[a]] = NoTx
    /\ paymentLock' = [paymentLock EXCEPT ![target[a]] = a]

(* From here on the actor puts the items of its order back.                *)
StartRestore(a) ==
    /\ todo' = [todo EXCEPT ![a] = ProductsIn(target[a])]
    /\ Goto(a, "restore")
-----------------------------------------------------------------------------
(* cancelOrder: SELECT ... FOR UPDATE, and the status it returns.          *)

Cancellable(o) == orderStatus[o] = "PENDING"

MutantSelectOrder(a) == UNCHANGED orderLock
SelectOrder(a) == LockOrder(a)

Cancel(a) ==
    /\ a \in Cancels /\ pc[a] = "idle"
    /\ Cancellable(target[a])
    /\ SelectOrder(a)
    /\ StartRestore(a)
    /\ UNCHANGED <<orders, rows, paymentLock, stockLock, target, batch, keys, expired, answer, applied>>

RefuseCancel(a) ==
    /\ a \in Cancels /\ pc[a] = "idle"
    /\ OrderFree(a)
    /\ ~ Cancellable(target[a])
    /\ Answer(a, "refused")
    /\ UNCHANGED <<orders, rows, locks, local, keys, expired, applied>>
-----------------------------------------------------------------------------
(* handlePaymobWebhook and handleWebhookTransaction.                       *)

MutantIsNew(t) == TRUE
IsNew(t) == t \notin keys

(* SET ... EX 3600 NX                                                      *)
Acquire(d) ==
    /\ d \in Deliveries /\ pc[d] = "idle"
    /\ IsNew(TxnOf[d])
    /\ keys' = keys \cup {TxnOf[d]}
    /\ Goto(d, "resolve")
    /\ UNCHANGED <<orders, rows, locks, local, expired, answer, applied>>

AlreadyProcessed(d) ==
    /\ d \in Deliveries /\ pc[d] = "idle"
    /\ ~ IsNew(TxnOf[d])
    /\ Answer(d, "duplicate")
    /\ UNCHANGED <<orders, rows, locks, local, keys, expired, applied>>

(* The order is named in the callback, or found by the intention's id      *)
(* while the payment still has it.                                         *)
Resolvable(t) == t \in echoed \/ paymentRef[OrderOf[t]] = IntentionId

Resolve(d) ==
    /\ pc[d] = "resolve"
    /\ Goto(d, IF Resolvable(TxnOf[d]) THEN "read" ELSE "unresolved")
    /\ UNCHANGED <<orders, rows, locks, local, keys, expired, answer, applied>>

Unresolved(d) ==
    /\ pc[d] = "unresolved"
    /\ keys' = keys \ {TxnOf[d]}
    /\ Answer(d, "unresolved")
    /\ UNCHANGED <<orders, rows, locks, local, expired, applied>>

(* findUnique, without a lock; the decision is not taken again.            *)
ReadOrder(d) ==
    /\ pc[d] = "read"
    /\ orderStatus[target[d]] \notin {"PROCESSING", "SHIPPED"}
    /\ Goto(d, "payment")
    /\ UNCHANGED <<orders, rows, locks, local, keys, expired, answer, applied>>

NothingToDo(d) ==
    /\ pc[d] = "read"
    /\ orderStatus[target[d]] \in {"PROCESSING", "SHIPPED"}
    /\ Answer(d, "handled")
    /\ UNCHANGED <<orders, rows, locks, local, keys, expired, applied>>

WritePayment(d) ==
    /\ pc[d] = "payment"
    /\ LockPayment(d)
    /\ Goto(d, "order")
    /\ UNCHANGED <<orders, rows, orderLock, stockLock, local, keys, expired, answer, applied>>

WriteOrder(d) ==
    /\ pc[d] = "order"
    /\ LockOrder(d)
    /\ IF TxnOf[d] \in charged
       THEN Goto(d, "settle") /\ UNCHANGED todo
       ELSE StartRestore(d)
    /\ UNCHANGED <<orders, rows, paymentLock, stockLock, target, batch, keys, expired, answer, applied>>

MutantRecord(d, status) ==
    /\ payment' = [payment EXCEPT ![target[d]] = status]
    /\ paymentRef' = [paymentRef EXCEPT ![target[d]] = target[d]]
    /\ applied' = [applied EXCEPT ![TxnOf[d]] = @ + 1]
Record(d, status) ==
    /\ payment' = [payment EXCEPT ![target[d]] = status]
    /\ paymentRef' = [paymentRef EXCEPT ![target[d]] = TxnOf[d]]
    /\ applied' = [applied EXCEPT ![TxnOf[d]] = @ + 1]

CommitPaid(d) ==
    /\ pc[d] = "settle"
    /\ Record(d, "PAID")
    /\ orderStatus' = [orderStatus EXCEPT ![target[d]] = "PROCESSING"]
    /\ Unlock(d)
    /\ Answer(d, "handled")
    /\ UNCHANGED <<orders, stock, withdrawn, local, keys, expired>>
-----------------------------------------------------------------------------
(* cancelExpiredPendingOrders: one query, then a transaction per order.    *)

Scan(c) ==
    /\ c \in Crons /\ pc[c] = "idle"
    /\ batch' = [batch EXCEPT ![c] = {o \in expired :
           orderStatus[o] = "PENDING" /\ MethodOf[o] = "CREDIT_CARD"}]
    /\ Goto(c, "next")
    /\ UNCHANGED <<orders, rows, locks, target, todo, keys, expired, answer, applied>>

NextExpired(c) ==
    /\ pc[c] = "next"
    /\ \E o \in batch[c] :
        /\ batch' = [batch EXCEPT ![c] = @ \ {o}]
        /\ target' = [target EXCEPT ![c] = o]
    /\ Goto(c, "cancel")
    /\ UNCHANGED <<orders, rows, locks, todo, keys, expired, answer, applied>>

ScanEnds(c) ==
    /\ pc[c] = "next"
    /\ batch[c] = {}
    /\ Goto(c, "idle")
    /\ UNCHANGED <<orders, rows, locks, local, keys, expired, answer, applied>>

(* order.update has no condition on the status.                            *)
CancelExpired(c) ==
    /\ pc[c] = "cancel"
    /\ LockOrder(c)
    /\ Goto(c, "fail")
    /\ UNCHANGED <<orders, rows, paymentLock, stockLock, local, keys, expired, answer, applied>>

MutantStillPending(o) == TRUE
StillPending(o) == payment[o] = "PENDING"

(* payment.updateMany where status = PENDING: no row, no lock.             *)
FailPayment(c) ==
    /\ pc[c] = "fail"
    /\ IF StillPending(target[c]) THEN LockPayment(c) ELSE UNCHANGED paymentLock
    /\ StartRestore(c)
    /\ UNCHANGED <<orders, rows, orderLock, stockLock, target, batch, keys, expired, answer, applied>>
-----------------------------------------------------------------------------
(* The stock updates of all three, one row at a time in the order the      *)
(* items come out of the database, and their commits.                      *)

MutantStockFree(p) == TRUE
StockFree(p) == stockLock[p] = NoTx

RestoreRow(a, p) ==
    /\ pc[a] = "restore"
    /\ p \in todo[a]
    /\ StockFree(p)
    /\ stockLock' = [stockLock EXCEPT ![p] = a]
    /\ todo' = [todo EXCEPT ![a] = @ \ {p}]
    /\ UNCHANGED <<orders, rows, orderLock, paymentLock, target, batch, keys, expired, pc, answer, applied>>

Amount(q) == IF q = NoRow THEN 0 ELSE q
MutantReturned(o) == stock

Returned(o) == [p \in Products |-> stock[p] + Amount(orderItems[o][p])]

CommitCancelled(a) ==
    /\ pc[a] = "restore"
    /\ todo[a] = {}
    /\ orderStatus' = [orderStatus EXCEPT ![target[a]] = "CANCELLED"]
    /\ stock' = Returned(target[a])
    /\ withdrawn' = withdrawn \ {target[a]}
    /\ Unlock(a)
    /\ \/ /\ a \in Cancels
          /\ Answer(a, "cancelled")
          /\ UNCHANGED <<payment, paymentRef, applied>>
       \/ /\ a \in Deliveries
          /\ Record(a, "FAILED")
          /\ Answer(a, "handled")
       \/ /\ a \in Crons
          /\ payment' = [o \in Orders |-> IF paymentLock[o] = a THEN "FAILED" ELSE payment[o]]
          /\ Goto(a, "next")
          /\ UNCHANGED <<paymentRef, applied, answer>>
    /\ UNCHANGED <<orders, local, keys, expired>>
-----------------------------------------------------------------------------
(* Failures.  A transaction rolls back; the cleanup job leaves its loop,   *)
(* and the webhook keeps its key.                                          *)

MutantGiveUp(a) ==
    /\ Unlock(a)
    /\ todo' = [todo EXCEPT ![a] = {}]
    /\ Answer(a, "failed")
    /\ UNCHANGED <<orders, rows, target, batch, keys, expired, applied>>
GiveUp(a) ==
    /\ Unlock(a)
    /\ todo' = [todo EXCEPT ![a] = {}]
    /\ IF a \in Crons
       THEN /\ Goto(a, "idle")
            /\ batch' = [batch EXCEPT ![a] = {}]
            /\ UNCHANGED answer
       ELSE Answer(a, "failed") /\ UNCHANGED batch
    /\ UNCHANGED <<orders, rows, target, keys, expired, applied>>

Abort(a) ==
    /\ a \in Failing
    /\ pc[a] \in InTx \cup {"resolve", "unresolved"}
    /\ GiveUp(a)

(* The next statement of a is at a row that another transaction has locked. *)
MutantWaits(a) == FALSE
Waits(a) ==
    \/ /\ pc[a] \in {"order", "cancel"} \/ (a \in Cancels /\ pc[a] = "idle")
       /\ ~ OrderFree(a)
    \/ /\ pc[a] = "payment" \/ (pc[a] = "fail" /\ StillPending(target[a]))
       /\ paymentLock[target[a]] # NoTx
    \/ /\ pc[a] = "restore"
       /\ todo[a] # {} /\ \A p \in todo[a] : ~ StockFree(p)

(* PostgreSQL ends one transaction of a deadlock, and Prisma every         *)
(* interactive transaction after 5 seconds.                                *)
TimeOut(a) == Waits(a) /\ GiveUp(a)
-----------------------------------------------------------------------------
(* Time, and the administrator.                                            *)

ThirtyMinutesPass(o) ==
    /\ o \in Ageing \ expired
    /\ expired' = expired \cup {o}
    /\ UNCHANGED <<orders, rows, locks, local, keys, pc, answer, applied>>

(* The hour of a key is longer than any delivery takes.                    *)
KeyExpires(t) ==
    /\ t \in ExpiringKeys \cap keys
    /\ \A d \in Deliveries : TxnOf[d] = t => pc[d] \in {"idle", "done"}
    /\ keys' = keys \ {t}
    /\ lapsed' = [lapsed EXCEPT ![t] = @ + 1]
    /\ UNCHANGED <<charged, echoed, orderItems, rows, locks, local, expired, pc, answer, applied>>

(* updateOrderStatus writes any status over any other, and nothing else: a *)
(* CANCELLED it writes gives nothing back.                                 *)
SetStatus(o) ==
    /\ orderStatus[o] \in Statuses /\ orderLock[o] = NoTx
    /\ \E s \in AdminStatuses :
        /\ orderStatus' = [orderStatus EXCEPT ![o] = s]
        /\ withdrawn' = IF s = "CANCELLED" /\ orderStatus[o] # s
                        THEN withdrawn \cup {o} ELSE withdrawn
    /\ UNCHANGED <<orders, payment, paymentRef, stock, locks, local, keys, expired, pc, answer, applied>>
-----------------------------------------------------------------------------
Progress(a) ==
    \/ Cancel(a) \/ RefuseCancel(a)
    \/ Acquire(a) \/ AlreadyProcessed(a) \/ Resolve(a) \/ Unresolved(a)
    \/ ReadOrder(a) \/ NothingToDo(a) \/ WritePayment(a) \/ WriteOrder(a) \/ CommitPaid(a)
    \/ Scan(a) \/ NextExpired(a) \/ ScanEnds(a) \/ CancelExpired(a) \/ FailPayment(a)
    \/ \E p \in Products : RestoreRow(a, p)
    \/ CommitCancelled(a)

Next ==
    \/ \E a \in Actors : Progress(a) \/ Abort(a) \/ TimeOut(a)
    \/ \E o \in Orders : ThirtyMinutesPass(o) \/ SetStatus(o)
    \/ \E t \in Transactions : KeyExpires(t)

Spec == Init /\ [][Next]_vars
-----------------------------------------------------------------------------
(* Each variable ranges over the values the code gives it.                 *)
TypeOK ==
    /\ charged \subseteq Transactions /\ echoed \subseteq Transactions
    /\ orderItems \in [Orders -> [Products -> Int \cup {NoRow}]]
    /\ orderStatus \in [Orders -> Statuses \cup {"none"}]
    /\ payment \in [Orders -> {"none", "PENDING", "PAID", "FAILED"}]
    /\ paymentRef \in [Orders -> Transactions \cup {IntentionId, NoRef}]
    /\ stock \in [Products -> Int]
    /\ orderLock \in [Orders -> Actors \cup {NoTx}]
    /\ paymentLock \in [Orders -> Actors \cup {NoTx}]
    /\ keys \subseteq Transactions
    /\ expired \subseteq Orders
    /\ pc \in [Actors -> InTx \cup {"idle", "resolve", "unresolved", "next", "done"}]
    /\ target \in [Actors -> Orders \cup {NoOrder}]
    /\ todo \in [Actors -> SUBSET Products]
    /\ batch \in [Crons -> SUBSET Orders]
    /\ answer \in [Actors -> {"none", "refused", "cancelled", "duplicate", "unresolved",
                              "handled", "failed"}]
    /\ applied \in [Transactions -> Nat]
    /\ lapsed \in [Transactions -> Nat]
    /\ withdrawn \subseteq Orders

(* The items that are out of the stock: those of the orders that are not   *)
(* cancelled, or only by an administrator's word.                          *)
Open == {o \in Orders : orderStatus[o] # "CANCELLED"}
Pieces(ordered, p) == [o \in Orders |-> Amount(ordered[o][p])]
Held(p) == SumFunctionOnSet(Pieces(orderItems, p), Open \cup withdrawn)
Total(p) == InitialStock[p] + SumFunctionOnSet(Pieces(Items, p), Orders)

(* What is counted: nobody sets the stock to a number of his own, and no   *)
(* order has a row below zero, whose return takes from the stock.          *)
Countable(p) ==
    p \notin Restocked /\ \A o \in Orders : Amount(orderItems[o][p]) >= 0

(* README.md:48 and 54: an order that a cancel, a failed payment or the    *)
(* cleanup cancels has its items back in the stock, all of them, also when *)
(* an administrator had set it to CANCELLED, which gives nothing back, or  *)
(* out of it again.                                                        *)
NoStockLost == \A p \in Products : Countable(p) => stock[p] + Held(p) >= Total(p)

(* README.md:48, 54 and 68: and only once, so that stock and open orders   *)
(* together stay what they were.                                           *)
StockConserved == \A p \in Products : Countable(p) => stock[p] + Held(p) = Total(p)

(* README.md:53 and 164: however often Paymob delivers a transaction, it   *)
(* is written at most once in each hour of its key                         *)
(* (payment-webhook-idempotency.service.ts:23), and at most once for ever  *)
(* when the callback names only the intention.                             *)
AppliedOncePerKey ==
    \A t \in Transactions :
        applied[t] <= IF t \in echoed THEN 1 + lapsed[t] ELSE 1

(* payment-webhook.service.ts:35 answers 'Webhook already processed': some *)
(* call has handled the transaction or is still at it.                     *)
AlreadyMeansProcessed ==
    \A d \in Deliveries : answer[d] = "duplicate" =>
        \E e \in Deliveries \ {d} :
            /\ TxnOf[e] = TxnOf[d]
            /\ answer[e] = "handled" \/ pc[e] \notin {"idle", "done"}

(* order-cleanup.service.ts:33: the cleanup fails only pending payments,   *)
(* so what a customer paid stays paid.                                     *)
CleanupKeepsPaid ==
    [][\A c \in Crons, o \in Orders :
           pc[c] = "restore" /\ pc'[c] = "next" /\ payment[o] = "PAID" => payment'[o] = "PAID"]_vars

(* README.md:68: the cleanup cancels pending orders.                       *)
CleanupCancelsPending ==
    [][\A c \in Crons :
           pc[c] = "restore" /\ pc'[c] = "next" => orderStatus[target[c]] = "PENDING"]_vars

(* README.md:33: an abandoned card order does not stay pending.            *)
ExpiredReclaimed ==
    \A o \in Orders : MethodOf[o] = "CREDIT_CARD" =>
        []<>(o \in expired => orderStatus[o] # "PENDING")
=============================================================================
