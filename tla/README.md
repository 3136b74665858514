# Verification of Dukaan's order system

TLA+ specifications of the Dukaan e-commerce API (NestJS, PostgreSQL through
Prisma, Redis, Paymob), checked with TLC and proved with TLAPS: every safety
invariant, action property and refinement of the passing runs is a theorem.
Paths below are relative to the repository root; `order.service.ts:324` is line
324 of `src/modules/order/order.service.ts`, and so on.

    tlc -config MCCheckoutLive.cfg MCCheckout     # MCCheckout*.cfg
    tlc -config MCOrderRaces.cfg MCOrderSystem    # MCOrder*.cfg
    tlc -config MCSettleTwice.cfg MCSettlement    # MCSettle*.cfg
    tlc -config MCPricing.cfg MCPricing
    tlc -config MCAuthRaces.cfg MCAuthSession     # MCAuth*.cfg
    tlc -config MCStorefront.cfg MCStorefront
    tlapm SumTheorems.tla                         # and each *Proofs.tla

## 1. Inventory

All state is in three places: PostgreSQL (`prisma/schema.prisma`), Redis, and
the local variables of the handlers, which run interleaved at every `await` and
on any number of servers.

| Component (code) | State | Operations | Hard behaviour | What makes it correct |
| --- | --- | --- | --- | --- |
| Checkout: `order.controller.ts:22`, `order.service.ts:23` | `Order`, `OrderItem`, `Stock`, `CartItem`, `PromoUsage`, `PromoCampaign`, `Payment`; Redis `idempotency:order:<user>:<key>` | claim the key, read the cart, lock stock rows, validate, apply a promotion, write the order, clear the cart, create the payment, cache or delete the key | races for stock and promotions, deadlock, duplicated requests, a crash or an error between any two steps, expiry of the key | never oversold; an order is atomic; a promotion is capped and used once per user; no wait cycle; an answer is one's own order; a claimed key has an owner; everybody is answered |
| Promotions: `promo.service.ts` | `PromoCode`, `PromoCampaign`, `PromoUsage` | validate, use, create, switch on and off | a check before the write, saved by a unique index and a conditional update | as above |
| Amounts: `promo.service.ts:63-86`, `order.service.ts:44,349`, `paymob.gateway.ts:47-63` | columns of `Product`, `Order`, `OrderItem`, `Payment` | sum, discount, store, convert to cents | decimals that are rounded, a product of floating-point numbers, prices that change meanwhile | charged to the cent; a total between nothing and the subtotal; an order adds up from its own rows |
| Cancellation and status: `order.service.ts:194,203` | `Order.orderStatus`, `Stock` | cancel a pending order, set any status | races with the webhook and the cleanup job; a status that restores nothing | items come back, and a cancel ends only what is pending |
| Payment settlement: `payment.service.ts:42`, `payment-webhook.service.ts`, `payment-webhook-idempotency.service.ts` | `Payment`, `Order`, `Stock`; Redis `payment:webhook:paymob:<txn>` | acquire the key, find the order, mark paid, or mark failed and restore | at-least-once delivery, late and reordered callbacks, failures after the key is set | a transaction is applied once in each hour of its key; items never get lost |
| Cleanup job: `order-cleanup.service.ts` | `Order`, `Payment`, `Stock` | every 10 minutes, cancel card orders pending for 30 | the scan is outside the transactions; one failure ends the run; several servers | only pending orders; paid stays paid; abandoned orders are reclaimed |
| Payment creation: `payment.service.ts:18`, `paymob.gateway.ts`, `paymob.client.ts` | `Payment`; Redis `paymob:intention:<order>` | insert, ask Paymob, store its id | failure in the middle, after the order is committed; conversion to cents | an answered card order can be paid |
| Products and stock: `products.service.ts` | `Product`, `Stock`, `ProductImage`; Cloudinary files | create with images, update, set stock, soft delete | partial uploads and their compensation; absolute stock writes during checkouts | no recorded file is left behind by a failed insertion |
| Cart: `cart.service.ts`, `cart-item.service.ts` | `Cart`, `CartItem` | add (with a retry on a unique violation), update, remove one, clear | read-then-write without locks | no addition or removal is lost while nobody overwrites the row |
| Sessions and sign-up: `auth.service.ts`, `user.service.ts:17` | Redis `tempUser:<email>`, `session:<id>`; `User` | sign up, verify, sign in, change the password, refresh, log out | reuse of a rotated token, concurrent refreshes and log-outs, expiry, data staged twice, two shapes of one record | a used token and a closed session admit nobody; a changed password opens nothing more; an access token names its user |
| Users, addresses: `user.service.ts` | `User`, `UserAddress` | single-row operations by owner (the password: see above) | none | - |
| Categories, reviews | `Category`, `ProductReview` | single-row operations | cycles of parents | - |
| Redis client: `redis.service.ts` | connection | GET, SET, SETEX, SET NX, DEL | errors that may or may not have been applied | - |
| Guards, pipes, interceptors, logging, mail, HMAC, bootstrap, `api/index.ts` | none | check or format one request | none | - |
| `src/generated/prisma` | none | generated client | - | - |

How they interact.  The order controller calls the order service, which calls
the promotion service inside its transaction and the payment service after it.
Paymob later calls the webhook, which settles the order the checkout placed.
The cleanup job and the cancel endpoint settle orders too.  All of them share
the rows of `Stock`, `Order` and `Payment`, and nothing else coordinates them:
the interactions are row locks, committed rows, and Redis keys.

`PROJECT.json` lists the hazards line by line, with the properties aimed at each.

## 2. Modules

| Module | Models |
| --- | --- |
| `StockLedger` | What an order promises: all its rows leave the stock at once, when all are there, once. |
| `Checkout` | POST /order from the idempotency key to the answer, for a set of requests. |
| `CheckoutProofs` | Theorems about `Checkout`. |
| `Settlement` | Cancel, webhook, cleanup job and administrator on placed orders. |
| `OrderLedger` | What checkout and settlement promise together: the stock changes by whole orders, taken or given back, or is set. |
| `SettlementProofs` | Theorems about `Settlement`. |
| `OrderSystem` | `Checkout` and `Settlement` over one stock, one set of orders, payments and row locks. |
| `OrderSystemProofs` | Theorems about `OrderSystem`. |
| `Pricing` | The amounts of one order: prices, subtotal, discount, stored total, intention. |
| `PricingProofs` | Theorems about `Pricing`. |
| `AuthSession` | Sign-up, verification, sign-in, changes of passwords, rotation of refresh tokens and the access tokens it signs, log-out. |
| `AuthProofs` | Theorems about `AuthSession`. |
| `ProductImages` | The creation of a product: parallel uploads, the insertion, the compensation. |
| `Cart` | The requests that change the rows of a cart. |
| `CartProofs` | Lemmas about `Cart`: its invariant, step by step. |
| `Storefront` | `ProductImages` and `Cart` over one table of products. |
| `StorefrontProofs` | Theorems about `Storefront`. |
| `SumTheorems` | Lemmas about sums over finite sets, for the proofs about stock, receipts and carts. |
| `MCCheckout`, `MCSettlement`, `MCOrderSystem`, `MCPricing`, `MCAuthSession`, `MCStorefront` | Values of the constants for the runs. |

### Checkout

A request is an identifier that also names the order it may create; `pc` says
where its handler is.  The actions follow the code in its order:

| Step (`pc`) | Code | Actions |
| --- | --- | --- |
| start | `order.controller.ts:36-44` | `FindClaimed`, `Replay`, `FindFree` |
| claim | `:46` | `Claim` - a second command, which overwrites |
| read | `order.service.ts:286-319` | `ReadCart`, `RefuseCart` |
| lock | `:321-334` | `LockRow`, one row at a time in ascending id |
| validate | `:336-347` | `Validate`, `RefuseStock` |
| promo | `promo.service.ts:11-61` | `CheckPromo`, `RefusePromo` |
| usage | `:88-95` and the unique index | `InsertUsage`, `DuplicateUsage` |
| count | `:97-110` | `CountUsage`, which counts or finds the limit reached |
| commit | `order.service.ts:68-93` | `Commit` |
| pay, gateway, link | `payment.service.ts:18-40` | `InsertPayment`, `Intention`, `GatewayFails`, `LinkPayment` |
| cache | `order.controller.ts:50` | `CacheReply` |
| release | `:53-55` | `Release` |

PostgreSQL runs at READ COMMITTED: a statement sees committed rows, a row that
is written stays locked until the transaction ends, and nobody sees the write
before.  So the writes of a transaction are all in `Commit`, and what its
locks and uncommitted rows do to others meanwhile is in `stockLock`,
`HoldsUsage` and `HoldsCampaign`.  `seen` is what FOR UPDATE returned; it is
separate from `stock` because the code validates what it was returned.

A row of a cart has any quantity.  `getUserCart` takes every row with `isDeleted =
false` (`order.service.ts:287`), and the races of `Cart` leave such rows with 0 or
less.  An order of such rows passes the validation (`:344`), and the decrement
(`:378`) of a row below zero adds to the stock; so does `Commit`, and
`CartQuantities` has a negative quantity in the run.  `NoRow`, which is
not a quantity, stands for no active row.

The environment does what the rest of the API may do meanwhile: change any
cart, set a stock level when its row is free, delete a product, switch a
campaign.  Redis ends keys.  The faults are constants of a run: a statement
that fails or a timeout of the transaction (`Abort`, `PaymentFails`), a server
that stops (`Crash`), a Redis command that fails, applied or not
(`RedisFails`), a gateway that fails.

`updateStock` looks for the product in one statement and writes the row in
another (`products.service.ts:145`), so `SetStock` is the write alone: it may come
after the product was deleted.

Abstracted: prices and discounts, which are in `Pricing`, and addresses; the
order's columns other than its items; the order of the inserts inside the
transaction (the order row is inserted before the usage, but nobody can wait for
it or see it).  Two campaigns of one code are one campaign here: the code takes
the first active one, and every request names the one it will be given.

### Settlement

The actors are cancel requests, webhook deliveries and servers that run the
cleanup job.  Orders that have items at the start are pending, with their items
out of the stock; the others are not placed yet (`"none"`), which only
`OrderSystem` changes.  Locks are explicit (`orderLock`, `paymentLock`,
`stockLock`) because here the order in which they are taken is not one order: a
cancel locks the order and then stock, a webhook the payment, the order and
stock, the cleanup job the order, the payment and stock, each the stock rows in
the order in which its items come out of the database - any order, since no
query sorts them. `ReadOrder` and `Scan` read without a lock, and what they read
is not read again; `StillPending` is evaluated where the code has it in the
WHERE clause. `TimeOut` is PostgreSQL's deadlock detection and Prisma's limit of
5 seconds. `README.md:159` says that transactions lock in sorted order; only the
checkout does (`order.service.ts:322`).  The loops that restore items do not,
and cycles of waiting transactions are reachable; `TimeOut` ends them
(`ActorsEnd`).

A webhook's callback either names the order (`echoed`) or only the intention, in
which case `Resolvable` looks for the id that a handled transaction overwrites.
The former is the usual one, since the gateway sends the order's id with the
intention (`paymob.gateway.ts:65`, `payment-webhook.service.ts:42`); `Echoes` says
which a run starts with.  `lapsed` counts how often the key of a transaction has
reached its hour (`payment-webhook-idempotency.service.ts:6`).

`SetStatus` writes any status of `AdminStatuses` over any other
(`order.service.ts:194`).  CANCELLED is among them, and gives nothing back;
`withdrawn` remembers the orders that were cancelled so, until a transaction that
fails or the cleanup job gives their items back.

Abstracted: a cancel of somebody else's or an unknown order and a callback with
a bad signature, which change nothing; the error of a Redis command in
`acquire`, which is a delivery that was not made or, if it was applied, one that
aborted.

### OrderSystem and OrderLedger

`OrderSystem` extends `Settlement` and instantiates `Checkout` (`Sales`) over the
same `stock`, `stockLock` and `orderItems`.  A request of the checkout is the
order it places.  What `Checkout` calls `placed` and `payment` is not kept twice:
it is read off the columns of `Settlement` (an order is placed when it has a
status, a payment is linked when it has a provider's id), so `Place`,
`CreatePayment` and `StoreIntention` write those columns and `Sales!Commit`,
`Sales!InsertPayment` and `Sales!LinkPayment` have to agree with them.
`orderStatus` starts as PENDING at the commit of the checkout, and from then on
the settlement may touch it.

`Started` is what the two halves know of each other: a customer can cancel an
order that is committed, and can pay only at the `checkoutUrl` of the answer
(`order.service.ts:117`), so no callback comes before the answer.  A payment
needs its order's row (foreign key), which the FOR UPDATE of a cancel keeps.

`StockSet` is the administrator's stock level, beside checkouts and restores
(`Restocked`).  In `OrderSystem` alone the stock may become negative, by the return
of a row below zero: its order added to the stock, a checkout sold that, and the
cancel takes it back.

`OrderLedger` adds to `StockLedger` the step in which an order gives all its rows
back, and `LifeImplemented` says that checkout and settlement together, with the
administrator's levels, do nothing else to the stock: no part of an order, never
more of a row than is there, never
anybody else's quantity.  It does not say how often an order gives back;
`NoStockLost` bounds that from one side, and the other side, `StockConserved`, is
violated (see below).

### Pricing

One request, from the prices its transaction reads (`ReadCart`) through the sum
line by line (`AddLine`), the discount (`Discount`), the rounding of the stored
total (`CreateOrder`, or `Overflow` of the column) and the items
(`CreateOrderItems`), to the payment row and the intention (`CreatePayment`,
`CreateIntention`).  Meanwhile an administrator changes prices (`SetPrice`).
Everything is an integer: money in cents, a total before it is stored in parts of
a cent.  PostgreSQL rounds half away from zero; `Math.round` rounds half up; the
floating-point product `Number(total) * 100` is within a hundredth of a cent of
the amount, in either direction (for a `Decimal(10,2)` it is within a millionth).
Quantities are any integers, because concurrent removals can leave a row of a
cart with less than one (see `Cart`).  The discount is the one of a code that was
found valid; which codes are valid is in `Checkout`.

### AuthSession

Each handler is one or two reads followed by one write, and whatever happens
between them is possible: `CheckAddress` and `Stage`, `ReadStaged`, `CreateUser`
and `ForgetStaged`, `MatchPassword` and `SignIn`, `MatchOld` and
`ChangePassword` (which records in `ahead` the sign-ins that had compared their
password by then), `Present` (the read of the session and the comparison) and
`Rotate` or `Purge`.  A token is the request that it was issued to, a hash is
the token it was made from, a password is the sign-up or the change that set it.
A refresh may carry any cookie that was issued for its session (`Issued`), which
includes the ones that were rotated away, or what is left of one (`Damaged`).  A
session record is what was written, under the name it was written with: `signIn`
writes `[userId, hashedToken]` (`auth.service.ts:83`), `refreshToken` reads
`hashedToken` (`:107`) and `sub` (`:117`) and writes `[userId, tokenHash]`
(`:124`); `Field` is `undefined` for a name the record does not have.  `sub` is
the claim of the access token that a refresh has signed. Redis ends both kinds
of keys at any time.  `Fail` ends a handler before its write, and the deletion
of staged data, which is not awaited, may be lost (`ForgetFails`).

Abstracted: the access tokens of a sign-in, profiles, the mail, and malformed
cookies, which are refused without a change.

### ProductImages, Cart and Storefront

`ProductImages` follows `ProductsService.create`: `UploadMany` starts all
uploads; `Promise.all` either resolves with all of them (`UploadResolves`) or
rejects with the first that fails (`UploadRejects`), while the others go on
(`FileStored`, `FileFails` need nobody who waits).  The insertion succeeds, is
rejected, or is committed without the server learning of it
(`AcknowledgementLost`); the catch block deletes `uploadedFiles`, all at once,
and waits for every answer (`AllSettled`).  A server stops at any point.

`Cart` keeps the `CartItem` row of each user and product, deleted ones too.  A
request reads the row without a lock (`FindItem`, `ReadQuantity`, `CheckItem`)
and then writes it with the statement it has chosen (`CreateItem`,
`RestoreItem`, `IncrementItem`, `Decrement`, `UpdateItem`); the arithmetic of an
increment is the database's, on the row as it is then.  A new cart and its first
item are one transaction, seen at its commit.  `Retry` is the second attempt
after P2002.  `OrderCart` is the `clearCart` of a checkout, which spares deleted
rows, unlike `ClearCart`.  The dto of an update is partial: one that carries
another `productId` moves the row (`MovesTo`), one that carries no quantity
(`Partial`) keeps the quantity it has.

`Checkout` has carts too, as quantities that its environment sets.  The races of
`Cart` can leave an active item with a quantity of 0 or less (two removals, or a
removal beside a clearing or an update); `Checkout`, `OrderSystem` and `Pricing`
take such rows.

`Storefront` puts both over one set of products: an item can be inserted when
the row of its product exists, however its creation was answered.

## 3. Runs

Every passing run explores all reachable states of its instance.

| Run | Instance | Shows |
| --- | --- | --- |
| `MCCheckoutLive` | 2 duplicate requests (one cash, one card) with a promo code, 2 products, of one of which the cart may hold 1 or -1, all faults, an expiring key, a product that may be deleted, fairness | `TypeOK`, `NeverOversold`, `LockDiscipline`, `NoWaitCycle`, `CampaignCapped`, `OneUsePerUser`, `PromotionsHeld`, `AnswerIsOwn`, `ClaimsAreOwned`, `LedgerImplemented`, `RequestsAnswered` |
| `MCCheckoutTwice` | 2 duplicate requests | `OneOrderPerKey` is violated |
| `MCOrderRaces` | 2 checkouts of 2 customers for different products and for the one use of a campaign; for the first order a cancel, 2 deliveries of one transaction (of either outcome, naming the order or not), the cleanup job, an administrator who ships and cancels; a failing gateway, failing statements, a key that reaches its hour | `TypeOK`, `NoStockLost`, `AppliedOncePerKey`, `CallbackFindsOrder`, `CampaignsStayCapped`, `CleanupKeepsPaid`, `CancelEndsPending` |
| `MCOrderLive` | 2 checkouts for the last piece of a product, one with a row of -1 of another, whose level an administrator sets; a cancel, a delivery and the cleanup job for the first; crashes, a failing gateway; fairness | `CheckoutUndisturbed`, `LifeImplemented`, `ExpiredReclaimed`, `ActorsEnd` |
| `MCSettleTwice` | 2 transactions of one order, whose callbacks name it | `StockConserved` is violated |
| `MCSettleCleanup` | a payment and the cleanup job | `CleanupCancelsPending` is violated |
| `MCSettleKey` | 2 deliveries of one transaction, a failing statement | `AlreadyMeansProcessed` is violated |
| `MCPricing` | 2 products, prices that percentages do not divide and a free one, codes above the subtotal and above 100 %, a column that the largest carts overflow | `TypeOK`, `ChargedExactly`, `TotalInBounds`, `ReceiptAddsUp` |
| `MCAuthRaces` | 1 address, 2 sign-ups, 2 verifications, a sign-in, 2 changes of the password, 3 refreshes, a log-out, failures and expiry | `TypeOK`, `SpentStaysSpent`, `ClosedStaysClosed`, `ChangedPasswordEnds` |
| `MCAuthReuse` | 1 account, 1 session, 2 refreshes | `ReusePurges` is violated |
| `MCAuthClaims` | 1 account, 1 session, 1 refresh | `TokensNameTheirUser` is violated |
| `MCStorefront` | a product with 2 images, all faults; one cart with 2 additions, a removal, an update, a clearing and a checkout; fairness of the creation | `TypeOK`, `CompensationComplete`, `CreatedIsComplete`, `QuantityAccounts`, `PairsOfAddsSucceed`, `CreationsAnswered` |

### Bounds

* The safety properties are theorems for any number of everything (section 4), so
  the runs need not grow with it: they show that the formulas are the ones meant,
  that the interesting cases are reached, and that the liveness properties hold.
* Requests: two are the least that race for a row, a usage, a campaign and a key,
  and the least with a wait cycle.
* Products: two are the least with an order of locking.  `MaxStock` is 1 in
  `MCCheckoutLive`: what matters is whether a quantity covers another, and with 1
  the last piece is always contested.  `CartQuantities` are 1, and for one product
  -1 as well, the least that adds to the stock.  Every initial cart and stock level
  within the bounds is a start, and both change during the run.
* `UsageLimit` is 2 in `MCCheckoutLive`, so that the cap does not hide a second
  use by one user, and 1 in `MCOrderRaces`, where two users with different
  products race for it: there one of them passes the check of the limit and finds
  it reached at the update.
* `MCOrderRaces`: two pieces of each product, so that both checkouts may succeed
  and a restored piece is visible beside a held one.  The first order is
  contested by everybody, the second shows that nobody touches another order's
  rows.  The administrator sets SHIPPED, which ends the webhook early, and
  CANCELLED, which gives nothing back (`order.service.ts:194`).  PENDING is left
  out: set over CANCELLED it lets the cleanup job give the items back without end,
  which makes the states infinite; the theorems have every status.  Both kinds of
  callback are a start (`Echoes`), and with the key that ends a failed transaction
  that names its order is written twice, and `applied` is 2.  The statements of one
  delivery and of the cleanup job may fail (`Failing`).  In `MCOrderLive` there is
  one piece of each product, so that the second checkout waits for, or lives on,
  what the first gives back.
* `KeyExpires`: an hour outlasts a delivery, so a key ends only while no delivery
  of its transaction is in progress.  `OrderAges`: thirty minutes outlast a
  checkout, so an order is young until its own has ended.
* Settlement alone: the violated properties need one order only.  Two
  transactions of one order are what a customer produces who tries to pay twice.
* Pricing: two products make a sum and let one price change while the other has
  been read.  The percentages (10.50, 33.33 and 120) leave parts of a cent; the
  theorems have no bound.  `MaxAmount` stands for 99,999,999.99 in cents.
* `Ageing` are the orders whose thirty minutes may pass in a run.
* Sessions: one, since nothing relates two; three refreshes are one that rotates,
  one that read before it, and one that comes after both.  Two changes of the
  password carry the same old one, so that one may follow or overtake the other,
  and the sign-in carries it too.  The refreshes, the verifications and the changes
  are interchangeable (`SYMMETRY`), as `MCAuthRaces` checks invariants and action
  properties only.
* Storefront: one cart and one product, because requests for different rows do
  not meet, with one request of every kind and the second addition that the
  retry is about.  Two images let one fail while the other goes on.
  Outside these bounds, and covered by the theorems: a second conflict of one
  addition, which takes three requests, and an update that moves its row or
  carries no quantity.
* Deadlock checking is on for `Checkout`, whose environment never stops, and for
  `Pricing`, whose administrator does not.  It is off elsewhere: the requests and
  deliveries are finitely many, and a behaviour where all have ended is
  complete.  A wait cycle is not a deadlock for TLC in `Settlement` and
  `OrderSystem`, because a timeout ends it.

### Fairness

`Checkout`: a handler that can take its next step does (the Node.js event loop
and PostgreSQL run).  Faults are not fair, and neither is anything in the
environment, the end of a key's time to live included.  Weak fairness suffices: a
row that a checkout waits for is either freed, or its holder runs.  Liveness is stated as
"again and again not waiting" (`[]<>`), which for handlers that never return to
their start is the same as "started leads to ended".

`OrderSystem`: strong fairness of every handler that has begun.  One that waits
for a row may find it free and taken again any number of times; PostgreSQL queues
the transactions that wait for a row, so it gets it.  Timeouts are weakly fair:
no wait is for ever.  Customers need not order, cancel or pay, Paymob need not
call, servers need not fail; the cleanup job is started again every ten minutes.
`ExpiredReclaimed` is checked without failing statements (`Failing = {}`): a
database that fails every transaction of the job keeps the order pending.

`Storefront`: weak fairness of a creation's handler and of each upload, which
Cloudinary answers in one way or the other.  A server that stops is not fair, and
a creation it has stopped is not owed an answer.

`AuthSession` and `Pricing` state no liveness: their handlers wait for nobody.

### What the violated properties say

1. `OneOrderPerKey` (`order.controller.ts:46`): GET and SETEX are two commands.
   The README's "An initial status of `PROCESSING` blocks concurrent executions"
   holds only for requests that come after the SETEX.
2. `StockConserved` (`payment.service.ts:67`): the check at line 54 ends the
   handler early for PROCESSING and SHIPPED, not for CANCELLED or DELIVERED, it is
   made without a lock, and the updates after it have no condition.  In the run one
   transaction of an order fails, which cancels the order and restores its items,
   and another one succeeds, which makes the order PROCESSING: the items are in the
   stock and in an open order.  The same code lets a second failed transaction, or
   one after a cancel or the cleanup job, put the items back again.
3. `CleanupCancelsPending` (`order-cleanup.service.ts:27`): the update repeats
   none of the scan's conditions; an order that was paid in between is cancelled,
   its items sold again, while its payment stays PAID (`CleanupKeepsPaid`).
4. `AlreadyMeansProcessed` (`payment-webhook.service.ts:91`): a failed delivery
   leaves its key, and Paymob's retries within the hour are told that it was
   processed.
5. `ReusePurges` (`auth.service.ts:124`): the rotated record has its hash under
   another name than the one line 108 looks for.  So after one refresh every
   later one, reused or not, is answered "hashed token not found"; the purge
   happens only before the first rotation, when no token has been rotated away
   yet and only a damaged one differs.
   `SpentStaysSpent` and `ClosedStaysClosed` hold all the same, and partly for
   this reason: with the names in agreement a refresh that read its session
   before a log-out would write back a record that admits its new token.
6. `TokensNameTheirUser` (`auth.service.ts:118`): a refresh signs its access token
   with the `sub` of the session record, and no record has one, so the token of
   every accepted refresh has none, while the interface of an access token
   declares it and the controllers act for `user.sub`.

## 4. Proofs

Each component's theorems are in a module of their own.  The argument is the same
everywhere: an inductive invariant, checked by TLC on the component's run before
it was proved, holds initially and is preserved by every step (one lemma per
conjunct or per group of actions); the properties follow from it, in a state or
in a step.  The assumptions are the named ones of each module, which TLC
evaluates in every run; no theorem has a hypothesis of its own.

### Checkout

`CheckoutProofs` proves, for all values of the constants under the named
assumptions of `Checkout`:

| Theorem | States |
| --- | --- |
| `Invariance` | `IInv`, the inductive invariant |
| `TypeCorrect` | `TypeOK` |
| `LocksDisciplined` | `LockDiscipline` |
| `NoOversell` | `NeverOversold` |
| `PromotionsCapped`, `PromotionsOnce` | `CampaignCapped`, `OneUsePerUser` |
| `PromotionsReserved` | `PromotionsHeld` |
| `ClaimsOwned` | `ClaimsAreOwned` |
| `AnswersOwn` | `AnswerIsOwn` |
| `Refinement` | `LedgerImplemented` |
| `DeadlockFree` | `NoWaitCycle` |

The argument.  `IInv` is `TypeOK /\ LockDiscipline /\ UncommittedIsFresh /\
Promotions /\ Replies /\ Claims`; every property of the table except the refinement
follows from it in a state, and the refinement in a step.

`NeverOversold` is not inductive: nothing in it says that a
commit finds the quantities it validated.  The invariant therefore says what the
locks are for.  A row that a transaction holds still has the quantity it saw
(`HeldRowsAreSeen`: everybody who writes a stock row needs it free); past the
locking it holds every row it wants, and past the validation what it saw covers
its items (`ValidatedIsCovered`).  So at `Commit` the stock covers the items,
which is both the type of `stock` and the guard of the ledger's reservation; a row
of 0 or less is covered by any stock.  Refinement needs besides that an order is
committed at most once and with at least one row, of whatever quantity
(`UncommittedIsFresh`).

For promotions the invariant says who may be between the insert and the commit:
at most one transaction per user and campaign, none where a usage is committed
(`PromotionsHeld`), at most one per campaign that may increment, with the
counter below the limit.

For answers, `AnswerIsOwn` is about what was answered; what will be answered is in
the keys and in the handlers (`Replies`).  Whatever a key holds was committed by a
request of that user and that key and, for a card order, linked; a handler is at
`cache` only when that is true of its own order; and a payment is written only by
its own handler, before it gets there, so that what a key promises is not undone.
This holds through a key that expires, is overwritten by a second claim, or is
written by a command that reports an error.

For claimed keys, `Claims` says of every key that is PROCESSING which request it
belongs to: the handler passes on every way to its end through `cache` or `release`,
both of which overwrite the key, whoever has claimed it meanwhile.

Absence of wait cycles: `LocksAscend` says that the rows a transaction holds
while it locks come before those it waits for.  Stages (locking before usage
before count before commit) order the waiting between them; among the locking
ones, the transaction that waits for the greatest row waits for no other member
of the set.  That there is a greatest needs `MaxProductId`: ids are bounded
integers in the database, and bounded sets of numbers have a maximum without an
induction over data.

The assumptions: product ids are numbers up to `MaxProductId`; the constants are
functions of the right type; the markers are distinct.  TLC evaluates them in
every run.

`OrderSystemProofs` uses `Core`, which is `IInv` without the bound on the stock
(there the settlement puts items back beside the checkouts).

### Pricing

`PricingProofs` proves, for all prices, carts, codes and column widths:

| Theorem | States |
| --- | --- |
| `PricingInvariant` | `PInv`, the inductive invariant |
| `PricingTypeCorrect` | `TypeOK` |
| `OrdersChargedExactly` | `ChargedExactly` |
| `TotalsInBounds` | `TotalInBounds` |
| `ReceiptsAddUp` | `ReceiptAddsUp` |

`PInv` is `TypeOK /\ SumInBounds /\ PaymentOfTotal /\ ChargedExactly /\
TotalInBounds`.  `SumInBounds` (the sum of positive lines is not negative) is what
the cap of the discount is applied to, and `PaymentOfTotal` (the payment row has the
stored total) what the intention is made from.  The lemmas carry the arithmetic:
a discount is between nothing and the sum, the rounding of a part of whole cents
does not leave them, and `Math.round` undoes an error of a hundredth.
`ReceiptAddsUp` needs that the running sum is the cost of the lines it has
passed (`SumSoFar`), and that the stored items are those lines at the prices
that were read (`ItemsKept`), while `SetPrice` goes on.
The assumption: products are finitely many, prices and values of codes are not
negative.

### Sums

`SumTheorems` has what the stock, the receipts and the carts are accounted with:
the sum of a function over a finite set of integers exists, is an integer, grows
by the value of an element that is added, and is unchanged by what happens
outside of the set.  The community modules define the sum as a fold, a recursive
function; the library's induction theorems take operators, which the provers
cannot instantiate, so `InductiveSet` and `InductiveFamily` state the two
inductions (over numbers, over the subsets of a finite set) for sets, from the
well-founded orders of the library.

### Settlement and the life of an order

| `SettlementProofs` | `OrderSystemProofs` | States |
| --- | --- | --- |
| `SettlementHolds` | `SystemHolds` | the inductive invariant |
| `SettlementTyped` | `SystemTyped` | `TypeOK` |
| `SettlementLosesNoStock` | `SystemLosesNoStock` | `NoStockLost` |
| `SettlementAppliesOnce` | `SystemAppliesOnce` | `AppliedOncePerKey` |
| `CleanupSparesPaid` | `SystemSparesPaid` | `CleanupKeepsPaid` |
| | `SystemCancelsPending` | `CancelEndsPending` |
| | `SystemUndisturbed`, `SystemCampaigns` | `CheckoutUndisturbed`, `CampaignsStayCapped` |
| | `SystemCallbacks` | `CallbackFindsOrder` |
| | `LifeRefines` | `LifeImplemented` |

`SettlementInv` says whose rows are whose.  An actor that has decided holds the row of
its order (`RowsHeld`), a delivery also that of the payment; while items are put
back, the stock rows that are done are held (`StockHeld`), and no one else commits
to that order.  So the commit finds the status it decided on, which is
`CancelEndsPending`, and, for the cleanup job, a payment that is not PAID.  None
of this is in a property, and none of the properties is inductive without it.

`NoStockLost` is a sum over all orders; a commit moves the items of one, so
what has to be known is that the order is there and that `todo` is empty.  What is
out of the stock is what the orders hold that are not CANCELLED, and those that
only an administrator's word has cancelled (`withdrawn`): `SetStatus` moves an order
from one of these sets to the other and changes no sum.  The balance is drawn for
the products that can be counted (`Countable`): nobody sets their level, and no row
of them is below zero, whose return would take from the stock.

`AppliedOncePerKey` has two reasons, and the invariant (`KeysHeld`) has both.  Among
the deliveries of a transaction only the one that took the key is past `Acquire`, so
each key allows one write, and there is a new key only after the old one has lapsed.
A callback without the order's id needs no key: it finds its payment by the
intention's id, which the first write replaces, and a payment that names a
transaction names one that was applied to it (`RefsApplied`).

"Exactly once" (`README.md:53`, `:164`) is more than that, and more than the code
gives: a key lasts an hour, the usual callback names its order, and a failed
transaction that is delivered again after the hour finds an order that is neither
PROCESSING nor SHIPPED, is written again and gives the items back again.
`MCOrderRaces` has such behaviours, and the property says that there are no others.

`OrderSystem`'s invariant is `Settling /\ P!Core /\ Joined`: that of the
settlement, that of the checkout, and what joins them (`Joined`): the settlement
works on orders that were placed, a placed order has items, a row is held by one
of either kind, and a transaction that was applied belongs to an order whose
customer was answered.  `CheckoutProofs` is instantiated (`P`) with the columns of the
settlement for what `Checkout` keeps, so a step of a checkout preserves `P!Core`
by the lemmas proved there; that a step of the settlement preserves it, and a
step of a checkout the settlement's part, is proved here.  The
lemmas `SalesSteps` and so on say that `P`'s copy of a definition is `Sales`'s.

`LifeRefines` maps a `Commit` to the ledger's reservation, a commit that gives
items back to its return, `StockSet` to the ledger's `Restock`, and every other
step to a stutter.  The first needs what `NeverOversold` needed; the second that
all rows of the order are held, so that the whole of it goes back in one step.
Rows may have any quantity, and an administrator may set any level.

### Sessions

| Theorem | States |
| --- | --- |
| `AuthTyped` | `TypeOK` |
| `AuthChangedPasswordEnds` | `ChangedPasswordEnds` |
| `AuthSpentStaysSpent` | `SpentStaysSpent` |
| `AuthClosedStaysClosed` | `ClosedStaysClosed` |

`PasswordInv`: what is staged, found and set for an address was submitted with
that address, and a password that a change replaced is not set again, because a
verification only inserts where there is no account.  Passwords are named by the
request that set them, so two requests that submit the same string are outside of
this: whoever changes back to an old password can use it.  `ChangedPasswordEnds`
itself is inductive beside it.  A sign-in compares the password and opens its
session in two steps (`auth.service.ts:69`, `:85`), so it may do the latter after a
change that it did not see; the property says that this is the only way: every
session that is opened with the old password is one of those in `ahead`.

`SessionInv`: a record holds the hash of its session's first token or none
(`HashesRight`), a refresh that goes on has presented that token
(`RotatesFirst`), and once a session was refreshed, purged or logged out its
record has no such hash again (`BarredUnhashed`), even when it is written back by
a refresh that read it before.  That is the mismatch of names of
section 3 at work: with the names in agreement `HashesRight` would be false.

### Products and carts

| Theorem | States |
| --- | --- |
| `StoreHolds` | the inductive invariant |
| `StoreTyped` | `TypeOK` |
| `StoreCompensates`, `StoreCreates` | `CompensationComplete`, `CreatedIsComplete` |
| `StoreQuantities` | `QuantityAccounts` |
| `StorePairs` | `PairsOfAddsSucceed` |

`ImagesInv`: what a creation has recorded is its own and arrived (`Recorded`), an
image that arrived is there until it is deleted, and only a creation that fails
deletes (`Kept`).  Creations do not share files (`CreationsAssumption`; Cloudinary
names them).

`CartInv`: the quantity of a row is the sum of the answered additions less the
answered removals, also of a row that is not there (`QuantityRight`); a cart
exists before its items (`CartFirst`).  For the retry: whatever an addition was
not the first to write was written by another request, which has ended
(`Overtaken`), so with one other the second attempt is alone with the row
(`SecondTry`).  As in `OrderSystemProofs`, the lemmas are about `Cart` and
instantiated for the store.

### Only model-checked

The liveness properties (`RequestsAnswered`, `ExpiredReclaimed`, `ActorsEnd`,
`CreationsAnswered`): fairness and ENABLED are out of the prover's
reach.  And the violations of section 3, which TLC finds.

## 5. Plan

Done: the modules, runs and theorems above.  What is left:

1. A mark for the images that a failed upload leaves behind
   (`cloudinary.storage.ts:28`), and the upload endpoint.
2. A second order that ages in a run with fairness, for the orders that wait behind
   one the cleanup job fails on (`order-cleanup.service.ts:25`).

## 6. Not modelled

Formatting, logging, validation of inputs, guards, mail, HMAC, configuration and
the serverless entry hold no shared state.  Profiles, addresses, categories and
reviews are operations on single rows, each one read or one statement; nothing
relates their rows to those of the other components except the product of a
review and of a category, which the checkout does not read.  The address of an
order is copied from a row that is read before the transaction; its deletion
fails the insertion, which is one of `Abort`'s failures.

The cache of Paymob's intentions (`paymob.client.ts:29`) is read in `Intention`
and `GatewayFails` as a miss: its key is the id of an order, and an order asks for
one intention.  The items of an intention are listed at full prices beside a
discounted amount (`paymob.gateway.ts:61`); what Paymob makes of that is not in the
repository.

The generated Prisma client (`src/generated/prisma`) is most of the repository's
lines, 29 of 34 thousand, and has no logic of its own; the constraints it enforces
come from `prisma/schema.prisma` and are mapped there.  Of the handwritten code
the modules map about a third.
