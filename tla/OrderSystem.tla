---------------------------- MODULE OrderSystem ----------------------------
(***************************************************************************)
(* The life of an order, from its checkout to its settlement: Checkout and *)
(* Settlement over one stock, one set of orders and one set of row locks.  *)
(*                                                                         *)
(* A request of Checkout is the order it places.  What Checkout knows of   *)
(* an order's row and of its payment follows from the columns Settlement   *)
(* keeps.  Carts and campaigns are changed by nobody else here: Checkout   *)
(* alone is checked with that.                                             *)
(***************************************************************************)
EXTENDS Settlement

CONSTANTS
    Users, Keys, Campaigns, UserOf, KeyOf, PromoOf, NoPromo, UsageLimit,
    Absent, Processing, NoReply, Conflict, Rejected, RedisError, Expiring, Removable,
    Faults, MaxProductId, CartQuantities, MaxStock,   \* those of Checkout
    InitialCarts       \* what may be in the carts at the start

(* Those of Checkout, about the orders; nothing that takes a lock or is a  *)
(* value of its own is an order.                                           *)
ASSUME ShopAssumption ==
    /\ MaxProductId \in Nat /\ Products \subseteq 0..MaxProductId
    /\ MaxStock \in Nat /\ CartQuantities \in [Products -> SUBSET Int]
    /\ UserOf \in [Orders -> Users] /\ KeyOf \in [Orders -> Keys]
    /\ PromoOf \in [Orders -> Campaigns \cup {NoPromo}] /\ NoPromo \notin Campaigns
    /\ UsageLimit \in [Campaigns -> Nat]
    /\ {NoTx, Absent, Processing, NoReply, Conflict, Rejected, RedisError} \cap Orders = {}
    /\ RedisError \notin {NoReply, Conflict, Rejected}
    /\ Absent # Processing /\ Actors \cap Orders = {}

VARIABLES
    at,                \* where each checkout is
    cart, deleted, active, redis, items, seen, used, usages, reply

checkoutVars == <<at, cart, deleted, active, redis, items, seen, used, usages, reply>>
settlementVars == <<charged, echoed, lapsed, withdrawn, orderLock, paymentLock,
                    local, keys, expired, pc, answer, applied>>
systemVars == <<vars, checkoutVars>>

Placed(o) == orderStatus[o] # "none"
PaymentOf(o) ==
    IF payment[o] = "none" THEN "none"
    ELSE IF paymentRef[o] = NoRef THEN "pending" ELSE "linked"

Sales == INSTANCE Checkout WITH
    Requests <- Orders,
    placed <- {o \in Orders : Placed(o)},
    payment <- [o \in Orders |-> PaymentOf(o)],
    pc <- at

SystemInit == Init /\ cart \in InitialCarts /\ Sales!Init
-----------------------------------------------------------------------------
(* The checkouts: the transaction inserts the order, PENDING by default,   *)
(* and what follows it a pending payment that gets its intention's id.     *)

Place(r) ==
    /\ orderStatus' = [orderStatus EXCEPT ![r] = "PENDING"]
    /\ UNCHANGED <<payment, paymentRef>>
    /\ Sales!Commit(r)

(* The foreign key of the payment needs the row of the order, which the    *)
(* FOR UPDATE of a cancel keeps.                                           *)
CreatePayment(r) ==
    /\ orderLock[r] \notin Cancels
    /\ payment' = [payment EXCEPT ![r] = "PENDING"]
    /\ UNCHANGED <<orderStatus, paymentRef>>
    /\ Sales!InsertPayment(r)

StoreIntention(r) ==
    /\ paymentLock[r] = NoTx
    /\ paymentRef' = [paymentRef EXCEPT ![r] = IntentionId]
    /\ UNCHANGED <<orderStatus, payment>>
    /\ Sales!LinkPayment(r)

CheckoutProgress(r) ==
    /\ \/ Place(r) \/ CreatePayment(r) \/ StoreIntention(r)
       \/ UNCHANGED <<orderStatus, payment, paymentRef>> /\ Sales!Progress(r)
    /\ UNCHANGED settlementVars

CheckoutFails(r) ==
    /\ UNCHANGED <<orderStatus, payment, paymentRef>>
    /\ Sales!Fault(r)
    /\ UNCHANGED settlementVars

(* The deadlock detection and the 5 seconds hold for a checkout too.       *)
CheckoutTimesOut(r) ==
    /\ at[r] = "lock"
    /\ \E p \in Products : Sales!IsNextRow(r, p) /\ ~ Sales!RowFree(p)
    /\ UNCHANGED <<orderStatus, payment, paymentRef>>
    /\ Sales!RollBack(r)
    /\ UNCHANGED settlementVars
-----------------------------------------------------------------------------
(* The settlement.  A customer cancels an order that is there, and pays at *)
(* an address that only the answer to the checkout contains.               *)
Answered(o) == \E r \in Orders : reply[r] = o

Started(a) ==
    /\ a \in Cancels => Placed(CancelOf[a])
    /\ a \in Deliveries => Answered(OrderOf[TxnOf[a]])

SettlementProgress(a) == Started(a) /\ Progress(a) /\ UNCHANGED checkoutVars
SettlementFails(a) == Started(a) /\ (Abort(a) \/ TimeOut(a)) /\ UNCHANGED checkoutVars

(* No checkout takes thirty minutes: an order is young while its own runs. *)
OrderAges(o) ==
    /\ Placed(o) /\ at[o] \in {"done", "crashed"}
    /\ ThirtyMinutesPass(o)
    /\ UNCHANGED checkoutVars

StatusSet(o) == SetStatus(o) /\ UNCHANGED checkoutVars

(* An administrator sets a stock level, beside checkouts and restores.     *)
StockSet(p) ==
    /\ p \in Restocked
    /\ UNCHANGED <<orderStatus, payment, paymentRef>>
    /\ Sales!SetStock(p)
    /\ UNCHANGED settlementVars

KeyEnds(t) == KeyExpires(t) /\ UNCHANGED checkoutVars

SystemNext ==
    \/ \E r \in Orders : CheckoutProgress(r) \/ CheckoutFails(r) \/ CheckoutTimesOut(r)
    \/ \E a \in Actors : SettlementProgress(a) \/ SettlementFails(a)
    \/ \E o \in Orders : OrderAges(o) \/ StatusSet(o)
    \/ \E t \in Transactions : KeyEnds(t)
    \/ \E p \in Products : StockSet(p)

SystemSpec == SystemInit /\ [][SystemNext]_systemVars

(* The customers need not order or cancel, nor Paymob call; whoever has    *)
(* begun goes on, and the job is started again.                            *)
Sent(r) == at[r] # "start"
Begun(a) == a \in Crons \/ pc[a] # "idle"

(* PostgreSQL queues the transactions that wait for a row, so a handler    *)
(* that could take it again and again does: its steps are strongly fair.   *)
(* No wait is for ever.                                                    *)
SystemFairness ==
    /\ \A r \in Orders :
        /\ SF_systemVars(Sent(r) /\ CheckoutProgress(r))
        /\ WF_systemVars(CheckoutTimesOut(r))
    /\ \A a \in Actors :
        /\ SF_systemVars(Begun(a) /\ SettlementProgress(a))
        /\ WF_systemVars(TimeOut(a) /\ UNCHANGED checkoutVars)

FairSystem == SystemSpec /\ SystemFairness
-----------------------------------------------------------------------------
(* Settlement puts items back beside the checkouts, and what a checkout    *)
(* has locked and validated stays as it saw it (order.service.ts:324).     *)
CheckoutUndisturbed == Sales!LockDiscipline

(* README.md:58: the cap of a campaign holds beside cancellations, which   *)
(* give no use back.                                                       *)
CampaignsStayCapped == Sales!CampaignCapped

(* The stock of both changes as OrderLedger says: by whole orders, taken   *)
(* when everything was there, or given back; and when it is set.           *)
Life == INSTANCE OrderLedger WITH
    available <- stock, reservation <- orderItems,
    Quantities <- 0..MaxStock, Amounts <- Sales!Amounts
LifeImplemented == Life!OrderSpec

(* order.service.ts:219: an order is cancelled by its customer only while  *)
(* it is PENDING, at the moment of the commit, whatever webhooks, cleanup  *)
(* jobs and administrators do meanwhile.                                   *)
CancelEndsPending ==
    [][\A a \in Cancels :
           answer[a] # "cancelled" /\ answer'[a] = "cancelled"
               => orderStatus[target[a]] = "PENDING"]_systemVars

(* payment-webhook.service.ts:57: a callback that names only its intention *)
(* finds its order as long as no transaction has replaced the intention's  *)
(* id, for who was sent to pay had an order with a linked payment.         *)
CallbackFindsOrder ==
    \A d \in Deliveries : answer[d] = "unresolved" =>
        \E t \in Transactions : OrderOf[t] = OrderOf[TxnOf[d]] /\ applied[t] > 0

(* Checkouts, cancels and webhooks that have begun end, although they and  *)
(* the cleanup job take their rows in different orders.                    *)
ActorsEnd ==
    /\ Sales!RequestsAnswered
    /\ \A a \in Cancels \cup Deliveries : []<>(pc[a] \in {"idle", "done"})
=============================================================================
