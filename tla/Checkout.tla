------------------------------ MODULE Checkout ------------------------------
(***************************************************************************)
(* POST /orders: the idempotency key in Redis, the checkout transaction    *)
(* and the payment of a card order, for any number of concurrent requests. *)
(*                                                                         *)
(* A request is named once and names the order it may create.  The         *)
(* transaction reads committed rows; what it writes is invisible until it  *)
(* commits, so the writes are in Commit, and what other transactions see   *)
(* before that is the locks it holds.  Carts, stock levels, products and   *)
(* campaigns are changed by other handlers at any time.                    *)
(***************************************************************************)
EXTENDS Integers, FiniteSets

CONSTANTS
    Users, Products, Keys, Requests, Campaigns,
    UserOf, KeyOf, MethodOf, PromoOf,  \* functions of the requests
    NoPromo,           \* the request carries no promo code
    UsageLimit,        \* the cap of each campaign
    NoTx,              \* a row that no transaction has locked
    Absent, Processing,            \* a key that is not set; a claimed key
    NoReply, Conflict, Rejected, RedisError,   \* answers that are not an order
    Expiring,          \* the keys whose time to live may end during the run
    Removable,         \* the products an administrator may delete
    Faults,            \* the faults of this run, a subset of FaultKinds
    MaxProductId,      \* the largest id a product may have
    NoRow,             \* no active row of a product
    CartQuantities,    \* bound: the quantities of the rows of each product in carts
    MaxStock           \* bound: the quantities an administrator sets

FaultKinds == {"abort", "crash", "redis", "gateway"}

(* Product ids are numbers, which lockStockRows sorts, of a bounded width.  *)
ASSUME ProductsAssumption ==
    MaxProductId \in Nat /\ Products \subseteq 0..MaxProductId
(* A row of a cart may hold any number: removals that race leave it at zero *)
(* or below, still active (see Cart).                                       *)
ASSUME BoundsAssumption ==
    /\ MaxStock \in Nat /\ NoRow \notin Int
    /\ CartQuantities \in [Products -> SUBSET Int]
ASSUME RequestsAssumption ==
    /\ UserOf \in [Requests -> Users]
    /\ KeyOf \in [Requests -> Keys]
    /\ MethodOf \in [Requests -> {"CASH", "CREDIT_CARD"}]
    /\ PromoOf \in [Requests -> Campaigns \cup {NoPromo}]
    /\ UsageLimit \in [Campaigns -> Nat]
ASSUME DistinctAssumption ==
    /\ NoTx \notin Requests
    /\ NoPromo \notin Campaigns
    /\ {Absent, Processing, NoReply, Conflict, Rejected, RedisError} \cap Requests = {}
    /\ Absent # Processing
    /\ RedisError \notin {NoReply, Conflict, Rejected}

VARIABLES
    stock,       \* Stock.quantity of each product
    stockLock,   \* the request whose transaction holds the Stock row
    deleted,     \* products with isDeleted
    cart,        \* quantity of the active row of each product in each user's cart
    redis,       \* the value of each idempotency key
    pc,          \* where each request's handler is
    items,       \* the cart a transaction has read
    seen,        \* the quantities a transaction got from FOR UPDATE
    placed,      \* the orders committed
    orderItems,  \* their OrderItem rows
    used,        \* PromoCampaign.usedCount
    usages,      \* PromoUsage rows: <<campaign, user, order>>
    active,      \* campaigns that are active and within their dates
    payment,     \* each order's Payment row
    reply        \* what each request was answered

shop == <<stock, deleted, cart, active>>
orders == <<placed, orderItems, used, usages>>
tx == <<stockLock, items, seen>>
vars == <<shop, orders, tx, redis, pc, payment, reply>>

Quantities == 0..MaxStock
NoItems == [p \in Products |-> NoRow]
NothingSeen == [p \in Products |-> 0]

(* Rows of a cart or of an order, and what a row takes out of the stock.   *)
Amounts == UNION {CartQuantities[p] : p \in Products}
Rows == {row \in [Products -> Amounts \cup {NoRow}] :
            \A p \in Products : row[p] \in CartQuantities[p] \cup {NoRow}}
Amount(q) == IF q = NoRow THEN 0 ELSE q

InTx == {"read", "lock", "validate", "promo", "usage", "count", "commit"}
Ended == {"done", "crashed"}

(* order.controller.ts: `idempotency:order:${userId}:${idempotencyKey}`    *)
CacheKey(r) == <<UserOf[r], KeyOf[r]>>

Init ==
    /\ stock \in [Products -> Quantities]
    /\ cart \in [Users -> Rows]
    /\ active \in SUBSET Campaigns
    /\ deleted = {}
    /\ stockLock = [p \in Products |-> NoTx]
    /\ redis = [k \in Users \X Keys |-> Absent]
    /\ pc = [r \in Requests |-> "start"]
    /\ items = [r \in Requests |-> NoItems]
    /\ seen = [r \in Requests |-> NothingSeen]
    /\ placed = {}
    /\ orderItems = [r \in Requests |-> NoItems]
    /\ used = [c \in Campaigns |-> 0]
    /\ usages = {}
    /\ payment = [r \in Requests |-> "none"]
    /\ reply = [r \in Requests |-> NoReply]
-----------------------------------------------------------------------------
(* The idempotency key, before the service is called.                      *)

Goto(r, l) == pc' = [pc EXCEPT ![r] = l]
Answer(r, a) == Goto(r, "done") /\ reply' = [reply EXCEPT ![r] = a]
SetKey(r, v) == redis' = [redis EXCEPT ![CacheKey(r)] = v]

FindClaimed(r) ==
    /\ pc[r] = "start"
    /\ redis[CacheKey(r)] = Processing
    /\ Answer(r, Conflict)
    /\ UNCHANGED <<shop, orders, tx, redis, payment>>

Replay(r) ==
    /\ pc[r] = "start"
    /\ redis[CacheKey(r)] \in Requests
    /\ Answer(r, redis[CacheKey(r)])
    /\ UNCHANGED <<shop, orders, tx, redis, payment>>

FindFree(r) ==
    /\ pc[r] = "start"
    /\ redis[CacheKey(r)] = Absent
    /\ Goto(r, "claim")
    /\ UNCHANGED <<shop, orders, tx, redis, payment, reply>>

(* The SETEX is a second command: it overwrites what the key holds by now. *)
Claim(r) ==
    /\ pc[r] = "claim"
    /\ SetKey(r, Processing)
    /\ Goto(r, "read")
    /\ UNCHANGED <<shop, orders, tx, payment, reply>>
-----------------------------------------------------------------------------
(* The checkout transaction.                                               *)

Unlocked(r) == [p \in Products |-> IF stockLock[p] = r THEN NoTx ELSE stockLock[p]]

(* The transaction ends: its locks and its local values are gone.          *)
EndTx(r, l) ==
    /\ stockLock' = Unlocked(r)
    /\ items' = [items EXCEPT ![r] = NoItems]
    /\ seen' = [seen EXCEPT ![r] = NothingSeen]
    /\ Goto(r, l)

RollBack(r) ==
    /\ EndTx(r, "release")
    /\ UNCHANGED <<shop, orders, redis, payment, reply>>

InCart(u) == {p \in Products : cart[u][p] # NoRow}

Orderable(u) == InCart(u) # {} /\ InCart(u) \cap deleted = {}

ReadCart(r) ==
    /\ pc[r] = "read"
    /\ Orderable(UserOf[r])
    /\ items' = [items EXCEPT ![r] = cart[UserOf[r]]]
    /\ Goto(r, "lock")
    /\ UNCHANGED <<shop, orders, stockLock, seen, redis, payment, reply>>

RefuseCart(r) ==
    /\ pc[r] = "read"
    /\ ~ Orderable(UserOf[r])
    /\ RollBack(r)

Wanted(r) == {p \in Products : items[r][p] # NoRow}
ToLock(r) == {p \in Wanted(r) : stockLock[p] # r}

MutantIsNextRow(r, p) == p \in ToLock(r)

(* ORDER BY "productId" ASC FOR UPDATE                                     *)
IsNextRow(r, p) == p \in ToLock(r) /\ \A q \in ToLock(r) : p <= q

MutantRowFree(p) == TRUE

RowFree(p) == stockLock[p] = NoTx

LockRow(r, p) ==
    /\ pc[r] = "lock"
    /\ IsNextRow(r, p)
    /\ RowFree(p)
    /\ stockLock' = [stockLock EXCEPT ![p] = r]
    /\ seen' = [seen EXCEPT ![r][p] = stock[p]]
    /\ Goto(r, IF ToLock(r) = {p} THEN "validate" ELSE "lock")
    /\ UNCHANGED <<shop, orders, items, redis, payment, reply>>

MutantInStock(r) == \E p \in Wanted(r) : seen[r][p] >= items[r][p]
MutantInStockUnchecked(r) == TRUE

InStock(r) == \A p \in Wanted(r) : seen[r][p] >= items[r][p]

Validate(r) ==
    /\ pc[r] = "validate"
    /\ InStock(r)
    /\ Goto(r, IF PromoOf[r] = NoPromo THEN "commit" ELSE "promo")
    /\ UNCHANGED <<shop, orders, tx, redis, payment, reply>>

RefuseStock(r) ==
    /\ pc[r] = "validate"
    /\ ~ InStock(r)
    /\ RollBack(r)

(* validatePromoCampaign reads committed rows and locks none of them.      *)
PromoValid(r) ==
    /\ PromoOf[r] \in active
    /\ used[PromoOf[r]] < UsageLimit[PromoOf[r]]
    /\ \A o \in placed : <<PromoOf[r], UserOf[r], o>> \notin usages

CheckPromo(r) ==
    /\ pc[r] = "promo"
    /\ PromoValid(r)
    /\ Goto(r, "usage")
    /\ UNCHANGED <<shop, orders, tx, redis, payment, reply>>

RefusePromo(r) ==
    /\ pc[r] = "promo"
    /\ ~ PromoValid(r)
    /\ RollBack(r)

(* The uncommitted writes of promotions by other transactions.             *)
HoldsUsage(q, r) ==
    /\ pc[q] \in {"count", "commit"}
    /\ PromoOf[q] = PromoOf[r]
    /\ UserOf[q] = UserOf[r]
HoldsCampaign(q, c) == pc[q] = "commit" /\ PromoOf[q] = c

(* UNIQUE (campaignId, userId): the INSERT waits for an uncommitted row    *)
(* with the same key and fails on a committed one.                         *)
UsageFree(r) == \A q \in Requests \ {r} : ~ HoldsUsage(q, r)
MutantUsageTaken(r) == FALSE

UsageTaken(r) == \E o \in placed : <<PromoOf[r], UserOf[r], o>> \in usages

InsertUsage(r) ==
    /\ pc[r] = "usage"
    /\ UsageFree(r)
    /\ ~ UsageTaken(r)
    /\ Goto(r, "count")
    /\ UNCHANGED <<shop, orders, tx, redis, payment, reply>>

DuplicateUsage(r) ==
    /\ pc[r] = "usage"
    /\ UsageFree(r)
    /\ UsageTaken(r)
    /\ RollBack(r)

(* updateMany ... where usedCount < usageLimit, evaluated once the row of  *)
(* the campaign is free.                                                   *)
CampaignFree(c) == \A q \in Requests : ~ HoldsCampaign(q, c)
MutantBelowLimit(r) == TRUE

BelowLimit(r) == used[PromoOf[r]] < UsageLimit[PromoOf[r]]

CountUsage(r) ==
    /\ pc[r] = "count"
    /\ CampaignFree(PromoOf[r])
    /\ IF BelowLimit(r)
       THEN Goto(r, "commit") /\ UNCHANGED <<shop, orders, tx, redis, payment, reply>>
       ELSE RollBack(r)

MutantCounted(c) == used[c]
Counted(c) == used[c] + 1

MutantAfterCommit(r) == "cache"
AfterCommit(r) == IF MethodOf[r] = "CREDIT_CARD" THEN "pay" ELSE "cache"

(* Everything the transaction wrote becomes visible; a row below zero adds *)
(* to the stock; clearCart empties the cart as it is now, not as it was    *)
(* read.                                                                   *)
Commit(r) ==
    /\ pc[r] = "commit"
    /\ stock' = [p \in Products |-> stock[p] - Amount(items[r][p])]
    /\ cart' = [cart EXCEPT ![UserOf[r]] = NoItems]
    /\ placed' = placed \cup {r}
    /\ orderItems' = [orderItems EXCEPT ![r] = items[r]]
    /\ IF PromoOf[r] = NoPromo
       THEN UNCHANGED <<used, usages>>
       ELSE /\ used' = [used EXCEPT ![PromoOf[r]] = Counted(PromoOf[r])]
            /\ usages' = usages \cup {<<PromoOf[r], UserOf[r], r>>}
    /\ EndTx(r, AfterCommit(r))
    /\ UNCHANGED <<deleted, active, redis, payment, reply>>
-----------------------------------------------------------------------------
(* The payment of a card order, after the transaction.                     *)

InsertPayment(r) ==
    /\ pc[r] = "pay"
    /\ payment' = [payment EXCEPT ![r] = "pending"]
    /\ Goto(r, "gateway")
    /\ UNCHANGED <<shop, orders, tx, redis, reply>>

Intention(r) ==
    /\ pc[r] = "gateway"
    /\ Goto(r, "link")
    /\ UNCHANGED <<shop, orders, tx, redis, payment, reply>>

MutantGatewayFails(r) ==
    /\ "gateway" \in Faults
    /\ pc[r] = "gateway"
    /\ Answer(r, Rejected)
    /\ UNCHANGED <<shop, orders, tx, redis, payment>>

GatewayFails(r) ==
    /\ "gateway" \in Faults
    /\ pc[r] = "gateway"
    /\ Goto(r, "release")
    /\ UNCHANGED <<shop, orders, tx, redis, payment, reply>>

LinkPayment(r) ==
    /\ pc[r] = "link"
    /\ payment' = [payment EXCEPT ![r] = "linked"]
    /\ Goto(r, "cache")
    /\ UNCHANGED <<shop, orders, tx, redis, reply>>
-----------------------------------------------------------------------------
(* The idempotency key, after the service has returned or thrown.          *)

CacheReply(r) ==
    /\ pc[r] = "cache"
    /\ SetKey(r, r)
    /\ Answer(r, r)
    /\ UNCHANGED <<shop, orders, tx, payment>>

Release(r) ==
    /\ pc[r] = "release"
    /\ SetKey(r, Absent)
    /\ Answer(r, Rejected)
    /\ UNCHANGED <<shop, orders, tx, payment>>
-----------------------------------------------------------------------------
(* Faults.                                                                 *)

(* A statement fails, the address or the user is missing, or the 5 seconds *)
(* of an interactive transaction are over.                                 *)
Abort(r) ==
    /\ "abort" \in Faults
    /\ pc[r] \in InTx
    /\ RollBack(r)

(* An INSERT or UPDATE of the payment fails.                               *)
PaymentFails(r) ==
    /\ "abort" \in Faults
    /\ pc[r] \in {"pay", "link"}
    /\ Goto(r, "release")
    /\ UNCHANGED <<shop, orders, tx, redis, payment, reply>>

(* The server stops: the database rolls back, nobody deletes the key.      *)
Crash(r) ==
    /\ "crash" \in Faults
    /\ pc[r] \notin Ended \cup {"start"}
    /\ EndTx(r, "crashed")
    /\ UNCHANGED <<shop, orders, redis, payment, reply>>

(* A Redis command ends with an error, applied or not.  Outside the try    *)
(* block, and in the catch block, the error is the answer, a status 500;   *)
(* the SETEX of the result is in the try block.                            *)
RedisFails(r) ==
    /\ "redis" \in Faults
    /\ \/ /\ pc[r] = "start"
          /\ UNCHANGED redis
          /\ Answer(r, RedisError)
       \/ /\ pc[r] = "claim"
          /\ SetKey(r, Processing) \/ UNCHANGED redis
          /\ Answer(r, RedisError)
       \/ /\ pc[r] = "cache"
          /\ SetKey(r, r) \/ UNCHANGED redis
          /\ Goto(r, "release")
          /\ UNCHANGED reply
       \/ /\ pc[r] = "release"
          /\ SetKey(r, Absent) \/ UNCHANGED redis
          /\ Answer(r, RedisError)
    /\ UNCHANGED <<shop, orders, tx, payment>>
-----------------------------------------------------------------------------
(* The rest of the shop.                                                   *)

(* A key's time to live ends: 5 minutes for a claim, 24 hours for an order. *)
Expire(k) ==
    /\ k[2] \in Expiring
    /\ redis[k] # Absent
    /\ redis' = [redis EXCEPT ![k] = Absent]
    /\ UNCHANGED <<shop, orders, tx, pc, payment, reply>>

(* The cart endpoints: they add, change and remove items.                  *)
ChangeCart(u, p) ==
    /\ \E q \in CartQuantities[p] \cup {NoRow} : cart' = [cart EXCEPT ![u][p] = q]
    /\ UNCHANGED <<stock, deleted, active, orders, tx, redis, pc, payment, reply>>

(* updateStock and the quantity of update: an absolute value, written when *)
(* the row is free.  updateStock looks for the product in a statement of   *)
(* its own, so the product may be deleted by then.                         *)
SetStock(p) ==
    /\ RowFree(p)
    /\ \E q \in Quantities : stock' = [stock EXCEPT ![p] = q]
    /\ UNCHANGED <<deleted, cart, active, orders, tx, redis, pc, payment, reply>>

RemoveProduct(p) ==
    /\ p \in Removable
    /\ deleted' = deleted \cup {p}
    /\ UNCHANGED <<stock, cart, active, orders, tx, redis, pc, payment, reply>>

(* updateCampaignStatus, or the dates of the campaign.                     *)
SwitchCampaign(c) ==
    /\ CampaignFree(c)
    /\ active' = IF c \in active THEN active \ {c} ELSE active \cup {c}
    /\ UNCHANGED <<stock, deleted, cart, orders, tx, redis, pc, payment, reply>>
-----------------------------------------------------------------------------
(* What a handler does by itself, once nothing it waits for is taken.      *)
Progress(r) ==
    \/ FindClaimed(r) \/ Replay(r) \/ FindFree(r) \/ Claim(r)
    \/ ReadCart(r) \/ RefuseCart(r)
    \/ \E p \in Products : LockRow(r, p)
    \/ Validate(r) \/ RefuseStock(r)
    \/ CheckPromo(r) \/ RefusePromo(r)
    \/ InsertUsage(r) \/ DuplicateUsage(r)
    \/ CountUsage(r) \/ Commit(r)
    \/ InsertPayment(r) \/ Intention(r) \/ LinkPayment(r)
    \/ CacheReply(r) \/ Release(r)

Fault(r) == Abort(r) \/ PaymentFails(r) \/ GatewayFails(r) \/ Crash(r) \/ RedisFails(r)

Environment ==
    \/ \E k \in Users \X Keys : Expire(k)
    \/ \E u \in Users, p \in Products : ChangeCart(u, p)
    \/ \E p \in Products : SetStock(p) \/ RemoveProduct(p)
    \/ \E c \in Campaigns : SwitchCampaign(c)

Next == Environment \/ \E r \in Requests : Progress(r) \/ Fault(r)

Spec == Init /\ [][Next]_vars

(* A handler that can run does.                                            *)
Fairness == \A r \in Requests : WF_vars(Progress(r))

FairSpec == Spec /\ Fairness
-----------------------------------------------------------------------------
(* Each variable ranges over the values the code gives it.                 *)
TypeOK ==
    /\ stock \in [Products -> Nat]
    /\ stockLock \in [Products -> Requests \cup {NoTx}]
    /\ deleted \subseteq Products
    /\ cart \in [Users -> Rows]
    /\ redis \in [Users \X Keys -> Requests \cup {Absent, Processing}]
    /\ pc \in [Requests -> InTx \cup Ended \cup
          {"start", "claim", "pay", "gateway", "link", "cache", "release"}]
    /\ items \in [Requests -> Rows]
    /\ seen \in [Requests -> [Products -> Nat]]
    /\ placed \subseteq Requests
    /\ orderItems \in [Requests -> Rows]
    /\ used \in [Campaigns -> Nat]
    /\ usages \subseteq Campaigns \X Users \X Requests
    /\ active \subseteq Campaigns
    /\ payment \in [Requests -> {"none", "pending", "linked"}]
    /\ reply \in [Requests -> Requests \cup {NoReply, Conflict, Rejected, RedisError}]

Locking == {"lock", "validate", "promo", "usage", "count", "commit"}
Validated == {"promo", "usage", "count", "commit"}

(* The locks: a row a transaction holds is one it wants and still has the  *)
(* quantity it saw; beyond the locking a transaction holds all its rows,   *)
(* and beyond the validation they cover its items; while it locks, the     *)
(* rows it holds come before those it has still to lock.                   *)
HeldRowsAreSeen ==
    \A r \in Requests, p \in Products : stockLock[p] = r =>
        /\ pc[r] \in Locking
        /\ p \in Wanted(r)
        /\ seen[r][p] = stock[p]
ValidatedIsCovered ==
    \A r \in Requests :
        /\ pc[r] \in Locking \ {"lock"} => ToLock(r) = {}
        /\ pc[r] \in Validated => InStock(r)
LocksAscend ==
    \A r \in Requests : pc[r] = "lock" =>
        \A p \in Products, q \in ToLock(r) : stockLock[p] = r => p < q
LockDiscipline == HeldRowsAreSeen /\ ValidatedIsCovered /\ LocksAscend

(* The uncommitted writes of promotions: one per user and campaign, none   *)
(* where a usage is committed, and one per campaign that may increment.    *)
WithPromo(r) == PromoOf[r] # NoPromo
UsageInserted(r) == pc[r] \in {"count", "commit"} /\ WithPromo(r)
PromoCounted(r) == pc[r] = "commit" /\ WithPromo(r)
PromotionsHeld ==
    /\ \A r \in Requests :
        /\ pc[r] \in {"promo", "usage", "count"} => WithPromo(r)
        /\ UsageInserted(r) => \A x \in usages : <<x[1], x[2]>> # <<PromoOf[r], UserOf[r]>>
        /\ PromoCounted(r) => used[PromoOf[r]] < UsageLimit[PromoOf[r]]
    /\ \A r, q \in Requests : r # q /\ PromoOf[r] = PromoOf[q] =>
        /\ UsageInserted(r) /\ UsageInserted(q) => UserOf[r] # UserOf[q]
        /\ ~ (PromoCounted(r) /\ PromoCounted(q))

(* README.md:157: concurrent checkouts never sell what is not there.       *)
NeverOversold == \A p \in Products : stock[p] >= 0

(* Every order is one step of the ledger: all its rows leave the stock     *)
(* together, at a moment when it has what each of them asks, and never     *)
(* again.                                                                  *)
Ledger == INSTANCE StockLedger WITH
    available <- stock, reservation <- orderItems,
    Orders <- Requests
LedgerImplemented == Ledger!LedgerSpec

(* README.md:58: a campaign's counter counts its usages, one for each      *)
(* committed order, and stays within the limit.                            *)
UsagesOf(c) == {x \in usages : x[1] = c}
CampaignCapped ==
    \A c \in Campaigns :
        /\ used[c] = Cardinality(UsagesOf(c))
        /\ used[c] <= UsageLimit[c]
        /\ \A x \in UsagesOf(c) : x[3] \in placed

(* README.md:58: no user benefits from a campaign in two orders.           *)
OneUsePerUser ==
    \A x, y \in usages : x[1] = y[1] /\ x[2] = y[2] => x = y

(* r cannot continue before q's transaction ends.                          *)
WaitsFor(r, q) ==
    \/ pc[r] = "lock" /\ \E p \in Products : IsNextRow(r, p) /\ stockLock[p] = q
    \/ pc[r] = "usage" /\ q # r /\ HoldsUsage(q, r)
    \/ pc[r] = "count" /\ HoldsCampaign(q, PromoOf[r])

(* README.md:29 and 159: sorted locking leaves no cycle of transactions    *)
(* that wait for each other, through stock, usage and campaign rows.       *)
NoWaitCycle ==
    \A S \in (SUBSET Requests) \ {{}} :
        \E r \in S : \A q \in S : ~ WaitsFor(r, q)

(* Whoever is answered with an order, at once or from the key, is answered *)
(* with a committed order of the same user and key, and a card order can   *)
(* be paid by then.                                                        *)
AnswerIsOwn ==
    \A r \in Requests : reply[r] \in Requests =>
        /\ UserOf[reply[r]] = UserOf[r]
        /\ KeyOf[reply[r]] = KeyOf[r]
        /\ reply[r] \in placed
        /\ MethodOf[reply[r]] = "CREDIT_CARD" => payment[reply[r]] = "linked"

(* README.md:163: PROCESSING blocks concurrent executions of one key.      *)
OneOrderPerKey ==
    \A r, q \in placed : CacheKey(r) = CacheKey(q) => r = q

(* No handler is for ever between its start and its end: a request that    *)
(* was sent is answered, unless its server crashes.                        *)
RequestsAnswered ==
    \A r \in Requests : []<>(pc[r] \in Ended \cup {"start"})

(* order.controller.ts:46 and 53: a key is PROCESSING only because of a    *)
(* request that is still at work, or whose server or Redis failed; every   *)
(* other request has released its key by the time it is answered, so that  *)
(* a retry is never refused for nothing.                                   *)
AtWork == InTx \cup {"pay", "gateway", "link", "cache", "release"}
ClaimsAreOwned ==
    \A k \in Users \X Keys : redis[k] = Processing =>
        \E r \in Requests :
            /\ CacheKey(r) = k
            /\ pc[r] \in AtWork \cup {"crashed"} \/ reply[r] = RedisError
=============================================================================
