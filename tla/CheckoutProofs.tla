--------------------------- MODULE CheckoutProofs ---------------------------
(***************************************************************************)
(* Theorems about Checkout for every set of users, products and requests.  *)
(***************************************************************************)
EXTENDS Checkout, FiniteSetTheorems, WellFoundedInduction, TLAPS

USE RequestsAssumption, BoundsAssumption, DistinctAssumption

(* The conditional update of usePromo counts a use or finds the limit      *)
(* reached, which ends the transaction.                                    *)
UsageCounts(r) ==
    /\ pc[r] = "count"
    /\ CampaignFree(PromoOf[r])
    /\ BelowLimit(r)
    /\ Goto(r, "commit")
    /\ UNCHANGED <<shop, orders, tx, redis, payment, reply>>

LimitReached(r) == pc[r] = "count" /\ ~ BelowLimit(r) /\ RollBack(r)

(* The two outcomes of the increment.                                      *)
LEMMA CountUsageCases ==
  ASSUME NEW r \in Requests, CountUsage(r)
  PROVE  UsageCounts(r) \/ LimitReached(r)
  BY DEF CountUsage, UsageCounts, LimitReached

(* A row is a quantity or absent, and takes an integer out of the stock.   *)
LEMMA RowValues ==
  ASSUME NEW row \in Rows, NEW p \in Products
  PROVE  /\ row[p] \in Amounts \cup {NoRow}
         /\ row[p] # NoRow => row[p] \in Int
         /\ Amount(row[p]) \in Int
  BY DEF Rows, Amount

(* No rows at all are rows.                                                *)
LEMMA NoItemsRow == NoItems \in Rows
  BY DEF NoItems, Rows

(* A row that is added, changed or removed leaves rows.                    *)
LEMMA RowChanged ==
  ASSUME NEW row \in Rows, NEW p \in Products, NEW q \in CartQuantities[p] \cup {NoRow}
  PROVE  [row EXCEPT ![p] = q] \in Rows
<1> DEFINE new == [row EXCEPT ![p] = q]
<1>1. row \in [Products -> Amounts \cup {NoRow}]
  BY DEF Rows
<1>2. q \in Amounts \cup {NoRow}
  BY DEF Amounts
<1>3. new \in [Products -> Amounts \cup {NoRow}]
  BY <1>1, <1>2
<1>4. \A x \in Products : new[x] = IF x = p THEN q ELSE row[x]
  BY <1>1
<1>5. \A x \in Products : new[x] \in CartQuantities[x] \cup {NoRow}
  BY <1>4 DEF Rows
<1> QED
  BY <1>3, <1>5 DEF Rows

(* The types that do not depend on who else changes the stock: how large   *)
(* it is, and which other transactions hold a row, is left open.           *)
Typed ==
    /\ stock \in [Products -> Int]
    /\ DOMAIN stockLock = Products
    /\ deleted \subseteq Products
    /\ cart \in [Users -> Rows]
    /\ redis \in [Users \X Keys -> Requests \cup {Absent, Processing}]
    /\ pc \in [Requests -> InTx \cup Ended \cup
          {"start", "claim", "pay", "gateway", "link", "cache", "release"}]
    /\ items \in [Requests -> Rows]
    /\ seen \in [Requests -> [Products -> Int]]
    /\ placed \subseteq Requests
    /\ orderItems \in [Requests -> Rows]
    /\ used \in [Campaigns -> Nat]
    /\ usages \subseteq Campaigns \X Users \X Requests
    /\ active \subseteq Campaigns
    /\ payment \in [Requests -> {"none", "pending", "linked"}]
    /\ reply \in [Requests -> Requests \cup {NoReply, Conflict, Rejected, RedisError}]

(* In Checkout alone nobody else changes it.                               *)
RowsTyped ==
    /\ stock \in [Products -> Nat]
    /\ stockLock \in [Products -> Requests \cup {NoTx}]
    /\ seen \in [Requests -> [Products -> Nat]]

(* The types of the stock and its locks, apart from the others.            *)
LEMMA TypeOKSplits == TypeOK <=> Typed /\ RowsTyped
<1>1. [Products -> Nat] \subseteq [Products -> Int]
  OBVIOUS
<1>2. TypeOK => Typed
  <2>1. TypeOK => stock \in [Products -> Int] /\ DOMAIN stockLock = Products
    BY <1>1 DEF TypeOK
  <2>2. TypeOK => seen \in [Requests -> [Products -> Int]]
    BY <1>1 DEF TypeOK
  <2> QED
    BY <2>1, <2>2 DEF TypeOK, Typed
<1>3. TypeOK => RowsTyped
  BY DEF TypeOK, RowsTyped
<1>4. Typed /\ RowsTyped => TypeOK
  BY DEF TypeOK, Typed, RowsTyped
<1> QED
  BY <1>2, <1>3, <1>4

(* At the start.                                                           *)
LEMMA InitTypeOK == Init => TypeOK
<1> SUFFICES ASSUME Init PROVE TypeOK
  OBVIOUS
<1>1. stock \in [Products -> Nat]
  BY DEF Init, Quantities
<1>2. items \in [Requests -> Rows] /\ orderItems \in [Requests -> Rows]
  BY NoItemsRow DEF Init
<1>3. seen \in [Requests -> [Products -> Nat]]
  BY DEF Init, NothingSeen
<1> QED
  BY <1>1, <1>2, <1>3 DEF Init, TypeOK, Ended

(* A key holds an order or a marker.                                       *)
LEMMA SetKeyType ==
  ASSUME Typed, NEW r \in Requests, NEW v \in Requests \cup {Absent, Processing},
         SetKey(r, v)
  PROVE  redis' \in [Users \X Keys -> Requests \cup {Absent, Processing}]
  BY DEF Typed, SetKey, CacheKey

(* An answer ends a handler.                                               *)
LEMMA AnswerType ==
  ASSUME Typed, NEW r \in Requests,
         NEW a \in Requests \cup {NoReply, Conflict, Rejected, RedisError},
         Answer(r, a)
  PROVE  /\ pc' \in [Requests -> InTx \cup Ended \cup
               {"start", "claim", "pay", "gateway", "link", "cache", "release"}]
         /\ reply' \in [Requests -> Requests \cup {NoReply, Conflict, Rejected, RedisError}]
  BY DEF Typed, Answer, Goto, Ended

(* The end of a transaction keeps the types.                               *)
LEMMA EndTxType ==
  ASSUME Typed, NEW r \in Requests,
         NEW l \in {"crashed", "release", "pay", "cache"},
         EndTx(r, l)
  PROVE  /\ DOMAIN stockLock' = Products
         /\ items' \in [Requests -> Rows]
         /\ seen' \in [Requests -> [Products -> Int]]
         /\ pc' \in [Requests -> InTx \cup Ended \cup
               {"start", "claim", "pay", "gateway", "link", "cache", "release"}]
  BY NoItemsRow DEF Typed, EndTx, Unlocked, Goto, NothingSeen, Ended, InTx

(* A rollback keeps the types.                                             *)
LEMMA RollBackType ==
  ASSUME Typed, NEW r \in Requests, RollBack(r)
  PROVE  Typed'
<1>1. EndTx(r, "release")
  BY DEF RollBack
<1>2. UNCHANGED <<stock, deleted, cart, active, placed, orderItems, used, usages,
                  redis, payment, reply>>
  BY DEF RollBack, shop, orders
<1> QED
  BY <1>1, <1>2, EndTxType DEF Typed

(* What a validated transaction orders is still in stock.                  *)
LEMMA Covered ==
  ASSUME Typed, LockDiscipline, NEW r \in Requests, pc[r] \in Validated,
         NEW p \in Wanted(r)
  PROVE  items[r][p] \in Int /\ items[r][p] <= stock[p]
<1>1. p \in Products /\ items[r][p] \in Int
  BY RowValues DEF Wanted, Typed
<1>2. stockLock[p] = r
  BY DEF LockDiscipline, ValidatedIsCovered, ToLock, Validated, Locking
<1>3. seen[r][p] = stock[p]
  BY <1>1, <1>2 DEF LockDiscipline, HeldRowsAreSeen
<1>4. seen[r][p] >= items[r][p]
  BY DEF LockDiscipline, ValidatedIsCovered, InStock
<1>5. stock[p] \in Int
  BY <1>1 DEF Typed
<1> QED
  BY <1>1, <1>3, <1>4, <1>5

(* A commit keeps the types.                                               *)
LEMMA CommitType ==
  ASSUME Typed, NEW r \in Requests, Commit(r)
  PROVE  Typed'
<1>1. stock' \in [Products -> Int]
  <2>1. ASSUME NEW p \in Products PROVE stock[p] - Amount(items[r][p]) \in Int
    <3>1. stock[p] \in Int /\ Amount(items[r][p]) \in Int
      BY RowValues DEF Typed
    <3> QED
      BY <3>1
  <2> QED
    BY <2>1 DEF Commit
<1>2. EndTx(r, AfterCommit(r)) /\ AfterCommit(r) \in {"pay", "cache"}
  BY DEF Commit, AfterCommit
<1>3. used' \in [Campaigns -> Nat] /\ usages' \subseteq Campaigns \X Users \X Requests
  <2>1. CASE PromoOf[r] = NoPromo
    BY <2>1 DEF Commit, Typed
  <2>2. CASE PromoOf[r] # NoPromo
    <3>1. /\ used' = [used EXCEPT ![PromoOf[r]] = @ + 1]
          /\ usages' = usages \cup {<<PromoOf[r], UserOf[r], r>>}
          /\ PromoOf[r] \in Campaigns
      BY <2>2 DEF Commit, Counted
    <3> QED
      BY <3>1 DEF Typed
  <2> QED
    BY <2>1, <2>2
<1>4. /\ cart' \in [Users -> Rows]
      /\ orderItems' \in [Requests -> Rows]
      /\ placed' \subseteq Requests
  BY NoItemsRow DEF Commit, Typed
<1>5. UNCHANGED <<deleted, active, redis, payment, reply>>
  BY DEF Commit
<1> QED
  BY <1>1, <1>2, <1>3, <1>4, <1>5, EndTxType DEF Typed

(* The types that do not bound the stock are inductive.                    *)
LEMMA NextTyped == Typed /\ [Next]_vars => Typed'
<1> SUFFICES ASSUME Typed, [Next]_vars PROVE Typed'
  OBVIOUS
<1>1. ASSUME NEW r \in Requests, Progress(r) PROVE Typed'
  <2>1. CASE FindClaimed(r) \/ Replay(r) \/ FindFree(r) \/ Claim(r)
    BY <2>1 DEF FindClaimed, Replay, FindFree, Claim,
         Typed, shop, orders, tx, Goto, Answer, SetKey, CacheKey, InTx, Ended
  <2>2. CASE ReadCart(r)
    BY <2>2 DEF ReadCart, Typed, shop, orders, Goto, InTx
  <2>3. ASSUME NEW p \in Products, LockRow(r, p) PROVE Typed'
    BY <2>3 DEF LockRow, Typed, shop, orders, Goto, InTx
  <2>4. CASE Validate(r) \/ CheckPromo(r) \/ InsertUsage(r) \/ UsageCounts(r)
    BY <2>4 DEF Validate, CheckPromo, InsertUsage, UsageCounts,
         Typed, shop, orders, tx, Goto, InTx
  <2>5. CASE RefuseCart(r) \/ RefuseStock(r) \/ RefusePromo(r) \/ DuplicateUsage(r)
             \/ LimitReached(r)
    BY <2>5, RollBackType
       DEF RefuseCart, RefuseStock, RefusePromo, DuplicateUsage, LimitReached
  <2>6. CASE Commit(r)
    BY <2>6, CommitType
  <2>7. CASE InsertPayment(r) \/ Intention(r) \/ LinkPayment(r)
    BY <2>7 DEF InsertPayment, Intention, LinkPayment, Typed, shop, orders, tx, Goto
  <2>8. CASE CacheReply(r)
    BY <2>8, SetKeyType, AnswerType DEF CacheReply, Typed, shop, orders, tx
  <2>9. CASE Release(r)
    BY <2>9, SetKeyType, AnswerType DEF Release, Typed, shop, orders, tx
  <2> QED
    BY <1>1, <2>1, <2>2, <2>3, <2>4, <2>5, <2>6, <2>7, <2>8, <2>9, CountUsageCases DEF Progress
<1>2. ASSUME NEW r \in Requests, Fault(r) PROVE Typed'
  <2>1. CASE Abort(r)
    BY <2>1, RollBackType DEF Abort
  <2>2. CASE PaymentFails(r) \/ GatewayFails(r)
    BY <2>2 DEF PaymentFails, GatewayFails, Typed, shop, orders, tx, Goto
  <2>3. CASE Crash(r)
    BY <2>3, EndTxType DEF Crash, Typed, shop, orders
  <2>4. CASE RedisFails(r)
    <3>1. redis' \in [Users \X Keys -> Requests \cup {Absent, Processing}]
      BY <2>4, SetKeyType DEF RedisFails, Typed
    <3>2. /\ pc' \in [Requests -> InTx \cup Ended \cup
                {"start", "claim", "pay", "gateway", "link", "cache", "release"}]
          /\ reply' \in [Requests -> Requests \cup {NoReply, Conflict, Rejected, RedisError}]
      <4>1. Answer(r, RedisError) \/ (Goto(r, "release") /\ UNCHANGED reply)
        BY <2>4 DEF RedisFails
      <4> QED
        BY <4>1, AnswerType DEF Goto, Typed
    <3> QED
      BY <2>4, <3>1, <3>2 DEF RedisFails, Typed, shop, orders, tx
  <2> QED
    BY <1>2, <2>1, <2>2, <2>3, <2>4 DEF Fault
<1>3. CASE Environment
  <2>1. ASSUME NEW k \in Users \X Keys, Expire(k) PROVE Typed'
    BY <2>1 DEF Expire, Typed, shop, orders, tx
  <2>2. ASSUME NEW u \in Users, NEW p \in Products, ChangeCart(u, p) PROVE Typed'
    <3>1. PICK q \in CartQuantities[p] \cup {NoRow} : cart' = [cart EXCEPT ![u][p] = q]
      BY <2>2 DEF ChangeCart
    <3>2. [cart[u] EXCEPT ![p] = q] \in Rows
      BY RowChanged DEF Typed
    <3>3. cart' \in [Users -> Rows]
      BY <3>1, <3>2 DEF Typed
    <3> QED
      BY <2>2, <3>3 DEF ChangeCart, Typed, orders, tx
  <2>3. ASSUME NEW p \in Products, SetStock(p) PROVE Typed'
    BY <2>3 DEF SetStock, Typed, Quantities, orders, tx
  <2>5. ASSUME NEW p \in Products, RemoveProduct(p) PROVE Typed'
    BY <2>5 DEF RemoveProduct, Typed, orders, tx
  <2>4. ASSUME NEW c \in Campaigns, SwitchCampaign(c) PROVE Typed'
    BY <2>4 DEF SwitchCampaign, Typed, orders, tx
  <2> QED
    BY <1>3, <2>1, <2>2, <2>3, <2>4, <2>5 DEF Environment
<1>4. CASE UNCHANGED vars
  BY <1>4 DEF vars, shop, orders, tx, Typed
<1> QED
  BY <1>1, <1>2, <1>3, <1>4 DEF Next

(* What a checkout does to the stock and its locks.                        *)
LEMMA NextRowsTyped == TypeOK /\ LockDiscipline /\ [Next]_vars => RowsTyped'
<1> SUFFICES ASSUME TypeOK, LockDiscipline, [Next]_vars PROVE RowsTyped'
  OBVIOUS
<1>1. ASSUME NEW r \in Requests, NEW l, EndTx(r, l), stock' \in [Products -> Nat]
      PROVE  RowsTyped'
  BY <1>1 DEF EndTx, Unlocked, NothingSeen, RowsTyped, TypeOK
<1>2. ASSUME NEW r \in Requests, RollBack(r) PROVE RowsTyped'
  BY <1>1, <1>2 DEF RollBack, shop, TypeOK
<1>3. ASSUME NEW r \in Requests, NEW p \in Products, LockRow(r, p) PROVE RowsTyped'
  BY <1>3 DEF LockRow, RowsTyped, TypeOK, shop
<1>4. ASSUME NEW r \in Requests, Commit(r) PROVE RowsTyped'
  <2>1. ASSUME NEW p \in Products PROVE stock[p] - Amount(items[r][p]) \in Nat
    <3>1. CASE p \in Wanted(r)
      <4>1. items[r][p] \in Int /\ items[r][p] <= stock[p]
        BY <1>4, <3>1, Covered, TypeOKSplits DEF Commit, Validated
      <4> QED
        BY <4>1 DEF TypeOK, Amount
    <3>2. CASE p \notin Wanted(r)
      BY <3>2 DEF Wanted, Amount, TypeOK
    <3> QED
      BY <3>1, <3>2
  <2> QED
    BY <1>1, <1>4, <2>1 DEF Commit
<1>5. ASSUME NEW r \in Requests, Crash(r) PROVE RowsTyped'
  BY <1>1, <1>5 DEF Crash, shop, TypeOK
<1>6. ASSUME NEW p \in Products, SetStock(p) PROVE RowsTyped'
  BY <1>6 DEF SetStock, Quantities, RowsTyped, TypeOK, tx
<1>7. CASE UNCHANGED <<stock, stockLock, seen>>
  BY <1>7 DEF RowsTyped, TypeOK
<1>8. ASSUME NEW r \in Requests, Progress(r) PROVE RowsTyped'
  BY <1>2, <1>3, <1>4, <1>7, <1>8
     DEF Progress, FindClaimed, Replay, FindFree, Claim, ReadCart, RefuseCart, Validate,
         RefuseStock, CheckPromo, RefusePromo, InsertUsage, DuplicateUsage, CountUsage,
         InsertPayment, Intention, LinkPayment, CacheReply, Release, shop, tx
<1>9. ASSUME NEW r \in Requests, Fault(r) PROVE RowsTyped'
  BY <1>2, <1>5, <1>7, <1>9 DEF Fault, Abort, PaymentFails, GatewayFails, RedisFails, shop, tx
<1>10. CASE Environment
  BY <1>6, <1>7, <1>10 DEF Environment, Expire, ChangeCart, RemoveProduct, SwitchCampaign, shop, tx
<1> QED
  BY <1>7, <1>8, <1>9, <1>10 DEF Next, vars, shop, tx

(* Every state of the checkout is well typed.                              *)
LEMMA NextTypeOK == TypeOK /\ LockDiscipline /\ [Next]_vars => TypeOK'
<1> SUFFICES ASSUME TypeOK, LockDiscipline, [Next]_vars PROVE TypeOK'
  OBVIOUS
<1>1. Typed' /\ RowsTyped'
  BY TypeOKSplits, NextTyped, NextRowsTyped
<1> QED
  BY <1>1, TypeOKSplits, PTL
-----------------------------------------------------------------------------
(* The locks.                                                              *)

(* Nobody holds a row at the start.                                        *)
LEMMA InitLockDiscipline == Init => LockDiscipline
  BY DEF Init, LockDiscipline, HeldRowsAreSeen, ValidatedIsCovered, LocksAscend,
         Locking, Validated

(* A handler that moves on without touching locks, and stays on the same   *)
(* side of the locking.                                                    *)
LEMMA LockFrame ==
  ASSUME Typed, LockDiscipline, NEW r \in Requests, NEW l, Goto(r, l),
         UNCHANGED <<stock, stockLock, items, seen>>,
         \/ pc[r] \notin Locking /\ l \notin Locking
         \/ pc[r] \in Locking \ {"lock"} /\ l \in Locking \ {"lock"},
         l \in Validated => InStock(r)
  PROVE  LockDiscipline'
<1>1. \A q \in Requests : /\ pc'[q] = IF q = r THEN l ELSE pc[q]
                          /\ Wanted(q)' = Wanted(q)
                          /\ ToLock(q)' = ToLock(q)
                          /\ InStock(q)' = InStock(q)
  BY DEF Goto, Typed, Wanted, ToLock, InStock
<1>2. HeldRowsAreSeen'
  BY <1>1 DEF LockDiscipline, HeldRowsAreSeen
<1>3. ValidatedIsCovered'
  BY <1>1 DEF LockDiscipline, ValidatedIsCovered, Locking, Validated
<1>4. LocksAscend'
  BY <1>1 DEF LockDiscipline, LocksAscend, Locking
<1> QED
  BY <1>2, <1>3, <1>4 DEF LockDiscipline

(* A transaction ends, and the rows of the others are as they were.        *)
LEMMA LockEnd ==
  ASSUME Typed, LockDiscipline, NEW r \in Requests,
         NEW l \in {"crashed", "release", "pay", "cache"}, EndTx(r, l),
         \A p \in Products : stockLock[p] \in Requests \ {r} => stock'[p] = stock[p]
  PROVE  LockDiscipline'
<1>1. /\ \A q \in Requests : pc'[q] = IF q = r THEN l ELSE pc[q]
      /\ \A q \in Requests \ {r} : items'[q] = items[q] /\ seen'[q] = seen[q]
      /\ \A p \in Products : stockLock'[p] = IF stockLock[p] = r THEN NoTx ELSE stockLock[p]
  BY DEF EndTx, Goto, Typed, Unlocked
<1>2. \A q \in Requests \ {r} : /\ Wanted(q)' = Wanted(q)
                                /\ ToLock(q)' = ToLock(q)
                                /\ InStock(q)' = InStock(q)
  BY <1>1 DEF Wanted, ToLock, InStock
<1>3. HeldRowsAreSeen'
  BY <1>1, <1>2 DEF LockDiscipline, HeldRowsAreSeen
<1>4. ValidatedIsCovered'
  BY <1>1, <1>2 DEF LockDiscipline, ValidatedIsCovered, Locking, Validated
<1>5. LocksAscend'
  BY <1>1, <1>2 DEF LockDiscipline, LocksAscend
<1> QED
  BY <1>3, <1>4, <1>5 DEF LockDiscipline

(* A transaction reads what it wants and has nothing yet.                  *)
LEMMA LockReadCart ==
  ASSUME Typed, LockDiscipline, NEW r \in Requests, ReadCart(r)
  PROVE  LockDiscipline'
<1>1. /\ \A q \in Requests : pc'[q] = IF q = r THEN "lock" ELSE pc[q]
      /\ \A q \in Requests \ {r} : items'[q] = items[q]
      /\ UNCHANGED <<stock, stockLock, seen>>
  BY DEF ReadCart, Goto, Typed, shop
<1>2. \A p \in Products : stockLock[p] # r
  BY DEF LockDiscipline, HeldRowsAreSeen, ReadCart, Locking
<1>3. \A q \in Requests \ {r} : /\ Wanted(q)' = Wanted(q)
                                /\ ToLock(q)' = ToLock(q)
                                /\ InStock(q)' = InStock(q)
  BY <1>1 DEF Wanted, ToLock, InStock
<1>4. HeldRowsAreSeen'
  BY <1>1, <1>2, <1>3 DEF LockDiscipline, HeldRowsAreSeen
<1>5. ValidatedIsCovered'
  BY <1>1, <1>3 DEF LockDiscipline, ValidatedIsCovered, Locking, Validated
<1>6. LocksAscend'
  BY <1>1, <1>2, <1>3 DEF LockDiscipline, LocksAscend
<1> QED
  BY <1>4, <1>5, <1>6 DEF LockDiscipline

(* A transaction takes its next row, and sees its quantity.                *)
LEMMA LockLockRow ==
  ASSUME Typed, LockDiscipline, NEW r \in Requests, NEW p \in Products, LockRow(r, p)
  PROVE  LockDiscipline'
<1>1. /\ \A q \in Requests \ {r} : pc'[q] = pc[q]
      /\ pc'[r] = IF ToLock(r) = {p} THEN "validate" ELSE "lock"
      /\ \A q \in Products : stockLock'[q] = IF q = p THEN r ELSE stockLock[q]
      /\ \A q \in Requests, x \in Products :
            seen'[q][x] = IF q = r /\ x = p THEN stock[p] ELSE seen[q][x]
      /\ UNCHANGED <<stock, items>>
  BY DEF LockRow, Goto, Typed, shop
<1>2. /\ pc[r] = "lock" /\ IsNextRow(r, p)
      /\ stockLock[p] = NoTx
      /\ p \in Wanted(r)
  BY DEF LockRow, IsNextRow, RowFree, ToLock
<1>3. /\ \A q \in Requests : Wanted(q)' = Wanted(q)
      /\ \A q \in Requests \ {r} : ToLock(q)' = ToLock(q)
      /\ \A q \in Requests \ {r} : InStock(q)' = InStock(q)
      /\ ToLock(r)' = ToLock(r) \ {p}
  <2>1. \A q \in Requests : Wanted(q)' = Wanted(q) /\ Wanted(q) \subseteq Products
    BY <1>1 DEF Wanted
  <2>2. \A q \in Requests \ {r} : ToLock(q)' = ToLock(q)
    BY <1>1, <1>2, <2>1 DEF ToLock
  <2> QED
    BY <1>1, <2>1, <2>2 DEF ToLock, InStock, Wanted
<1>4. HeldRowsAreSeen'
  BY <1>1, <1>2, <1>3 DEF LockDiscipline, HeldRowsAreSeen, Locking
<1>5. ValidatedIsCovered'
  BY <1>1, <1>2, <1>3 DEF LockDiscipline, ValidatedIsCovered, Locking, Validated
<1>6. LocksAscend'
  <2>1. \A x \in ToLock(r) \ {p} : p < x
    <3> SUFFICES ASSUME NEW x \in ToLock(r) \ {p} PROVE p < x
      OBVIOUS
    <3>1. p \in Int /\ x \in Int
      BY ProductsAssumption DEF ToLock, Wanted
    <3> QED
      BY <1>2, <3>1 DEF IsNextRow
  <2> QED
    BY <1>1, <1>2, <1>3, <2>1 DEF LockDiscipline, LocksAscend
<1> QED
  BY <1>4, <1>5, <1>6 DEF LockDiscipline

(* A commit changes only rows it holds and gives them up.                  *)
LEMMA LockCommit ==
  ASSUME Typed, LockDiscipline, NEW r \in Requests, Commit(r)
  PROVE  LockDiscipline'
<1>1. ASSUME NEW p \in Products, stockLock[p] \in Requests \ {r}
      PROVE  stock'[p] = stock[p]
  <2>1. p \notin Wanted(r)
    BY <1>1 DEF Commit, LockDiscipline, ValidatedIsCovered, Locking, ToLock
  <2>2. Amount(items[r][p]) = 0
    BY <2>1 DEF Wanted, Amount
  <2> QED
    BY <2>2 DEF Commit, Typed
<1>2. EndTx(r, AfterCommit(r)) /\ AfterCommit(r) \in {"pay", "cache"}
  BY DEF Commit, AfterCommit
<1> QED
  BY <1>1, <1>2, LockEnd

(* A rollback changes no row and gives up its own.                         *)
LEMMA LockRollBack ==
  ASSUME Typed, LockDiscipline, NEW r \in Requests, RollBack(r)
  PROVE  LockDiscipline'
<1>1. EndTx(r, "release") /\ stock' = stock
  BY DEF RollBack, shop
<1> QED
  BY <1>1, LockEnd

(* Changes elsewhere leave the rows that requests have locked alone, and   *)
(* their locks.                                                            *)
LEMMA LockElsewhere ==
  ASSUME LockDiscipline, UNCHANGED <<items, seen, pc>>,
         \A p \in Products : /\ stockLock[p] \in Requests =>
                                    stock'[p] = stock[p] /\ stockLock'[p] = stockLock[p]
                             /\ stockLock'[p] \in Requests => stockLock'[p] = stockLock[p]
  PROVE  LockDiscipline'
<1>1. \A q \in Requests : /\ Wanted(q)' = Wanted(q)
                          /\ ToLock(q)' = ToLock(q)
                          /\ InStock(q)' = InStock(q)
  BY DEF Wanted, ToLock, InStock
<1> QED
  BY <1>1 DEF LockDiscipline, HeldRowsAreSeen, ValidatedIsCovered, LocksAscend

(* The lock discipline is inductive.                                       *)
LEMMA NextLockDiscipline == Typed /\ LockDiscipline /\ [Next]_vars => LockDiscipline'
<1> SUFFICES ASSUME Typed, LockDiscipline, [Next]_vars PROVE LockDiscipline'
  OBVIOUS
<1>1. ASSUME NEW r \in Requests, Progress(r) PROVE LockDiscipline'
  <2>1. CASE FindClaimed(r) \/ Replay(r)
    <3>1. Goto(r, "done") /\ pc[r] = "start" /\ UNCHANGED <<stock, stockLock, items, seen>>
      BY <2>1 DEF FindClaimed, Replay, Answer, shop, tx
    <3> QED
      BY <3>1, LockFrame DEF Locking, Validated
  <2>2. CASE FindFree(r)
    <3>1. Goto(r, "claim") /\ pc[r] = "start" /\ UNCHANGED <<stock, stockLock, items, seen>>
      BY <2>2 DEF FindFree, shop, tx
    <3> QED
      BY <3>1, LockFrame DEF Locking, Validated
  <2>3. CASE Claim(r)
    <3>1. Goto(r, "read") /\ pc[r] = "claim" /\ UNCHANGED <<stock, stockLock, items, seen>>
      BY <2>3 DEF Claim, shop, tx
    <3> QED
      BY <3>1, LockFrame DEF Locking, Validated
  <2>4. CASE ReadCart(r)
    BY <2>4, LockReadCart
  <2>5. ASSUME NEW p \in Products, LockRow(r, p) PROVE LockDiscipline'
    BY <2>5, LockLockRow
  <2>6. CASE Validate(r)
    <3>1. PICK l \in {"commit", "promo"} : Goto(r, l)
      BY <2>6 DEF Validate
    <3>2. InStock(r) /\ pc[r] = "validate" /\ UNCHANGED <<stock, stockLock, items, seen>>
      BY <2>6 DEF Validate, shop, tx
    <3> QED
      BY <3>1, <3>2, LockFrame DEF Locking, Validated
  <2>7. CASE CheckPromo(r) \/ InsertUsage(r) \/ UsageCounts(r)
    <3>1. PICK l \in {"usage", "count", "commit"} : Goto(r, l)
      BY <2>7 DEF CheckPromo, InsertUsage, UsageCounts
    <3>2. pc[r] \in {"promo", "usage", "count"} /\ UNCHANGED <<stock, stockLock, items, seen>>
      BY <2>7 DEF CheckPromo, InsertUsage, UsageCounts, shop, tx
    <3>3. InStock(r)
      BY <3>2 DEF LockDiscipline, ValidatedIsCovered, Validated
    <3> QED
      BY <3>1, <3>2, <3>3, LockFrame DEF Locking, Validated
  <2>8. CASE RefuseCart(r) \/ RefuseStock(r) \/ RefusePromo(r) \/ DuplicateUsage(r)
             \/ LimitReached(r)
    BY <2>8, LockRollBack
       DEF RefuseCart, RefuseStock, RefusePromo, DuplicateUsage, LimitReached
  <2>9. CASE Commit(r)
    BY <2>9, LockCommit
  <2>10. CASE InsertPayment(r) \/ Intention(r) \/ LinkPayment(r) \/ CacheReply(r)
              \/ Release(r)
    <3>1. PICK l \in {"gateway", "link", "cache", "done"} : Goto(r, l)
      BY <2>10 DEF InsertPayment, Intention, LinkPayment, CacheReply, Release, Answer
    <3>2. /\ pc[r] \in {"pay", "gateway", "link", "cache", "release"}
          /\ UNCHANGED <<stock, stockLock, items, seen>>
      BY <2>10 DEF InsertPayment, Intention, LinkPayment, CacheReply, Release, shop, tx
    <3> QED
      BY <3>1, <3>2, LockFrame DEF Locking, Validated
  <2> QED
    BY <1>1, <2>1, <2>2, <2>3, <2>4, <2>5, <2>6, <2>7, <2>8, <2>9, <2>10, CountUsageCases DEF Progress
<1>2. ASSUME NEW r \in Requests, Fault(r) PROVE LockDiscipline'
  <2>1. CASE Abort(r)
    BY <2>1, LockRollBack DEF Abort
  <2>2. CASE PaymentFails(r) \/ GatewayFails(r) \/ RedisFails(r)
    <3>1. PICK l \in {"release", "done"} : Goto(r, l)
      BY <2>2 DEF PaymentFails, GatewayFails, RedisFails, Answer
    <3>2. /\ pc[r] \in {"start", "claim", "pay", "gateway", "link", "cache", "release"}
          /\ UNCHANGED <<stock, stockLock, items, seen>>
      BY <2>2 DEF PaymentFails, GatewayFails, RedisFails, shop, tx
    <3> QED
      BY <3>1, <3>2, LockFrame DEF Locking, Validated
  <2>3. CASE Crash(r)
    <3>1. EndTx(r, "crashed") /\ stock' = stock
      BY <2>3 DEF Crash, shop
    <3> QED
      BY <3>1, LockEnd
  <2> QED
    BY <1>2, <2>1, <2>2, <2>3 DEF Fault
<1>3. CASE Environment
  <2>1. UNCHANGED <<stockLock, items, seen, pc>>
    BY <1>3 DEF Environment, Expire, ChangeCart, SetStock, RemoveProduct, SwitchCampaign, tx
  <2>2. ASSUME NEW p \in Products, stockLock[p] \in Requests PROVE stock'[p] = stock[p]
    <3>1. CASE UNCHANGED stock
      BY <3>1
    <3>2. ASSUME NEW x \in Products, SetStock(x) PROVE stock'[p] = stock[p]
      BY <2>2, <3>2 DEF SetStock, RowFree, Typed
    <3> QED
      BY <1>3, <3>1, <3>2
         DEF Environment, Expire, ChangeCart, RemoveProduct, SwitchCampaign, shop
  <2> QED
    BY <2>1, <2>2, LockElsewhere
<1>4. CASE UNCHANGED vars
  BY <1>4, LockElsewhere DEF vars, shop, tx
<1> QED
  BY <1>1, <1>2, <1>3, <1>4 DEF Next
-----------------------------------------------------------------------------
(* Orders are fresh until they are committed.                              *)

(* A running transaction has read a row at least, of whatever quantity;    *)
(* nobody has seen its order.                                              *)
UncommittedIsFresh ==
    \A r \in Requests :
        /\ pc[r] \in InTx \cup {"start", "claim"} =>
               r \notin placed /\ orderItems[r] = NoItems
        /\ pc[r] \in Locking => Wanted(r) # {}

Early == InTx \cup {"start", "claim"}

(* No order is there at the start.                                         *)
LEMMA InitFresh == Init => UncommittedIsFresh
  BY DEF Init, UncommittedIsFresh, Locking

(* A step that neither begins nor ends a transaction.                      *)
LEMMA FreshFrame ==
  ASSUME Typed, UncommittedIsFresh, NEW r \in Requests, NEW l, Goto(r, l),
         UNCHANGED <<placed, orderItems>>,
         l \in Early => pc[r] \in Early,
         \A q \in Requests : items'[q] = items[q] \/ (q = r /\ l \notin Locking),
         l \in Locking => pc[r] \in Locking
  PROVE  UncommittedIsFresh'
<1>1. \A q \in Requests : pc'[q] = IF q = r THEN l ELSE pc[q]
  BY DEF Goto, Typed
<1>2. ASSUME NEW q \in Requests, pc'[q] \in Early PROVE q \notin placed' /\ orderItems'[q] = NoItems
  BY <1>1, <1>2 DEF UncommittedIsFresh, Early
<1>3. ASSUME NEW q \in Requests, pc'[q] \in Locking PROVE Wanted(q)' # {}
  <2>1. pc[q] \in Locking /\ items'[q] = items[q]
    BY <1>1, <1>3
  <2>2. Wanted(q)' = Wanted(q)
    BY <2>1 DEF Wanted
  <2> QED
    BY <2>1, <2>2 DEF UncommittedIsFresh
<1> QED
  BY <1>2, <1>3 DEF UncommittedIsFresh, Early, NoItems

(* A transaction ends without an order.                                    *)
LEMMA FreshEnd ==
  ASSUME Typed, UncommittedIsFresh, NEW r \in Requests,
         NEW l \in {"crashed", "release", "pay", "cache"}, EndTx(r, l),
         UNCHANGED <<placed, orderItems>>
  PROVE  UncommittedIsFresh'
<1>1. Goto(r, l) /\ \A q \in Requests : items'[q] = items[q] \/ q = r
  BY DEF EndTx, Typed
<1> QED
  BY <1>1, FreshFrame DEF Early, InTx, Locking

(* A transaction that has read its cart wants something.                   *)
LEMMA FreshReadCart ==
  ASSUME Typed, UncommittedIsFresh, NEW r \in Requests, ReadCart(r)
  PROVE  UncommittedIsFresh'
<1>1. /\ \A q \in Requests : pc'[q] = IF q = r THEN "lock" ELSE pc[q]
      /\ \A q \in Requests : items'[q] = IF q = r THEN cart[UserOf[r]] ELSE items[q]
      /\ UNCHANGED <<placed, orderItems>>
  BY DEF ReadCart, Goto, Typed, orders
<1>2. pc[r] = "read" /\ InCart(UserOf[r]) # {}
  BY DEF ReadCart, Orderable
<1>3. \A q \in Requests : Wanted(q)' = IF q = r THEN InCart(UserOf[r]) ELSE Wanted(q)
  BY <1>1 DEF Wanted, InCart
<1> QED
  BY <1>1, <1>2, <1>3 DEF UncommittedIsFresh, InTx, NoItems

(* A commit leaves the transaction behind.                                 *)
LEMMA FreshCommit ==
  ASSUME Typed, UncommittedIsFresh, NEW r \in Requests, Commit(r)
  PROVE  UncommittedIsFresh'
<1>1. /\ pc'[r] \in {"pay", "cache"}
      /\ \A q \in Requests \ {r} : /\ pc'[q] = pc[q]
                                   /\ items'[q] = items[q]
                                   /\ orderItems'[q] = orderItems[q]
      /\ placed' = placed \cup {r}
  BY DEF Commit, EndTx, Goto, AfterCommit, Typed
<1>2. \A q \in Requests \ {r} : Wanted(q)' = Wanted(q)
  BY <1>1 DEF Wanted
<1> QED
  BY <1>1, <1>2 DEF UncommittedIsFresh, InTx, Locking, NoItems

(* That uncommitted orders are fresh is inductive.                         *)
LEMMA NextFresh == Typed /\ UncommittedIsFresh /\ [Next]_vars => UncommittedIsFresh'
<1> SUFFICES ASSUME Typed, UncommittedIsFresh, [Next]_vars PROVE UncommittedIsFresh'
  OBVIOUS
<1>1. ASSUME NEW r \in Requests, Progress(r) \/ Fault(r) PROVE UncommittedIsFresh'
  <2>1. CASE FindClaimed(r) \/ Replay(r) \/ FindFree(r) \/ Claim(r) \/ RedisFails(r)
    <3>1. PICK l \in {"claim", "read", "done", "release"} :
              Goto(r, l) /\ (l \in {"claim", "read"} => pc[r] \in {"start", "claim"})
      BY <2>1 DEF FindClaimed, Replay, FindFree, Claim, RedisFails, Answer
    <3>2. UNCHANGED <<placed, orderItems, items>>
      BY <2>1 DEF FindClaimed, Replay, FindFree, Claim, RedisFails, orders, tx
    <3> QED
      BY <3>1, <3>2, FreshFrame DEF Early, InTx, Locking
  <2>2. CASE ReadCart(r)
    BY <2>2, FreshReadCart
  <2>3. ASSUME NEW p \in Products, LockRow(r, p) PROVE UncommittedIsFresh'
    <3>1. PICK l \in {"lock", "validate"} : Goto(r, l)
      BY <2>3 DEF LockRow
    <3>2. pc[r] = "lock" /\ UNCHANGED <<placed, orderItems, items>>
      BY <2>3 DEF LockRow, orders
    <3> QED
      BY <3>1, <3>2, FreshFrame DEF Early, InTx, Locking
  <2>4. CASE Validate(r) \/ CheckPromo(r) \/ InsertUsage(r) \/ UsageCounts(r)
    <3>1. PICK l : Goto(r, l)
      BY <2>4 DEF Validate, CheckPromo, InsertUsage, UsageCounts
    <3>2. /\ pc[r] \in {"validate", "promo", "usage", "count"}
          /\ UNCHANGED <<placed, orderItems, items>>
      BY <2>4 DEF Validate, CheckPromo, InsertUsage, UsageCounts, orders, tx
    <3> QED
      BY <3>1, <3>2, FreshFrame DEF Early, InTx, Locking
  <2>5. CASE RefuseCart(r) \/ RefuseStock(r) \/ RefusePromo(r) \/ DuplicateUsage(r)
             \/ LimitReached(r) \/ Abort(r) \/ Crash(r)
    <3>1. PICK l \in {"crashed", "release"} : EndTx(r, l)
      BY <2>5 DEF RefuseCart, RefuseStock, RefusePromo, DuplicateUsage, LimitReached,
                  Abort, Crash, RollBack
    <3>2. UNCHANGED <<placed, orderItems>>
      BY <2>5 DEF RefuseCart, RefuseStock, RefusePromo, DuplicateUsage, LimitReached,
                  Abort, Crash, RollBack, orders
    <3> QED
      BY <3>1, <3>2, FreshEnd
  <2>6. CASE Commit(r)
    BY <2>6, FreshCommit
  <2>7. CASE InsertPayment(r) \/ Intention(r) \/ LinkPayment(r) \/ CacheReply(r)
             \/ Release(r) \/ PaymentFails(r) \/ GatewayFails(r)
    <3>1. PICK l \in {"gateway", "link", "cache", "done", "release"} : Goto(r, l)
      BY <2>7 DEF InsertPayment, Intention, LinkPayment, CacheReply, Release,
                  PaymentFails, GatewayFails, Answer
    <3>2. UNCHANGED <<placed, orderItems, items>>
      BY <2>7 DEF InsertPayment, Intention, LinkPayment, CacheReply, Release,
                  PaymentFails, GatewayFails, orders, tx
    <3> QED
      BY <3>1, <3>2, FreshFrame DEF Early, InTx, Locking
  <2> QED
    BY <1>1, <2>1, <2>2, <2>3, <2>4, <2>5, <2>6, <2>7, CountUsageCases DEF Progress, Fault
<1>2. CASE Environment \/ UNCHANGED vars
  <2>1. UNCHANGED <<placed, orderItems, items, pc>>
    BY <1>2 DEF Environment, Expire, ChangeCart, SetStock, RemoveProduct, SwitchCampaign,
                vars, orders, tx
  <2> QED
    BY <2>1 DEF UncommittedIsFresh, Wanted, NoItems
<1> QED
  BY <1>1, <1>2 DEF Next
-----------------------------------------------------------------------------
(* Promotions.                                                             *)

Promotions == PromotionsHeld /\ CampaignCapped /\ OneUsePerUser /\ IsFiniteSet(usages)

(* No promotion is used at the start.                                      *)
LEMMA InitPromotions == Init => Promotions
  BY FS_EmptySet
     DEF Init, Promotions, PromotionsHeld, CampaignCapped, OneUsePerUser, UsagesOf,
         UsageInserted, PromoCounted

(* Nothing of it changes, and the one handler that moves has not inserted  *)
(* a usage when it is done.                                                *)
LEMMA PromotionsFrame ==
  ASSUME Typed, Promotions, NEW r \in Requests, NEW l, Goto(r, l),
         UNCHANGED <<used, usages, placed>>,
         l \notin {"count", "commit"} \/ (l = "commit" /\ ~ WithPromo(r)),
         l \in {"promo", "usage"} => WithPromo(r)
  PROVE  Promotions'
<1>1. \A q \in Requests : pc'[q] = IF q = r THEN l ELSE pc[q]
  BY DEF Goto, Typed
<1>2. \A q \in Requests : /\ WithPromo(q)' = WithPromo(q)
                          /\ UsageInserted(q)' => UsageInserted(q)
                          /\ PromoCounted(q)' => PromoCounted(q)
  BY <1>1 DEF WithPromo, UsageInserted, PromoCounted
<1>3. PromotionsHeld'
  BY <1>1, <1>2 DEF Promotions, PromotionsHeld
<1>4. CampaignCapped' /\ OneUsePerUser' /\ IsFiniteSet(usages)'
  BY DEF Promotions, CampaignCapped, OneUsePerUser, UsagesOf
<1> QED
  BY <1>3, <1>4 DEF Promotions

(* A usage is inserted where no other is, committed or not.                *)
LEMMA PromotionsInsert ==
  ASSUME Typed, Promotions, NEW r \in Requests, InsertUsage(r)
  PROVE  Promotions'
<1>1. /\ \A q \in Requests : pc'[q] = IF q = r THEN "count" ELSE pc[q]
      /\ UNCHANGED <<used, usages, placed>>
      /\ pc[r] = "usage"
  BY DEF InsertUsage, Goto, Typed, orders
<1>2. \A q \in Requests : /\ WithPromo(q)' = WithPromo(q)
                          /\ UsageInserted(q)' => UsageInserted(q) \/ q = r
                          /\ PromoCounted(q)' => PromoCounted(q)
  BY <1>1 DEF WithPromo, UsageInserted, PromoCounted
<1>3. \A x \in usages : <<x[1], x[2]>> # <<PromoOf[r], UserOf[r]>>
  <2> SUFFICES ASSUME NEW x \in usages, x[1] = PromoOf[r], x[2] = UserOf[r] PROVE FALSE
    OBVIOUS
  <2>1. PICK c \in Campaigns, u \in Users, o \in Requests : x = <<c, u, o>>
    BY DEF Typed
  <2>2. o \in placed
    <3>1. x \in UsagesOf(c)
      BY <2>1 DEF UsagesOf
    <3>2. x[3] \in placed
      BY <3>1 DEF Promotions, CampaignCapped
    <3> QED
      BY <2>1, <3>2
  <2> QED
    BY <2>1, <2>2 DEF InsertUsage, UsageTaken
<1>4. \A q \in Requests \ {r} :
         UsageInserted(q) /\ PromoOf[q] = PromoOf[r] => UserOf[q] # UserOf[r]
  BY DEF InsertUsage, UsageFree, HoldsUsage, UsageInserted
<1>5. PromotionsHeld'
  BY <1>1, <1>2, <1>3, <1>4 DEF Promotions, PromotionsHeld
<1>6. CampaignCapped' /\ OneUsePerUser' /\ IsFiniteSet(usages)'
  BY <1>1 DEF Promotions, CampaignCapped, OneUsePerUser, UsagesOf
<1> QED
  BY <1>5, <1>6 DEF Promotions

(* A campaign is incremented by one transaction at a time.                 *)
LEMMA PromotionsCount ==
  ASSUME Typed, Promotions, NEW r \in Requests, UsageCounts(r)
  PROVE  Promotions'
<1>1. /\ \A q \in Requests : pc'[q] = IF q = r THEN "commit" ELSE pc[q]
      /\ UNCHANGED <<used, usages, placed>>
      /\ pc[r] = "count"
  BY DEF UsageCounts, Goto, Typed, orders
<1>2. \A q \in Requests : /\ WithPromo(q)' = WithPromo(q)
                          /\ UsageInserted(q)' = UsageInserted(q)
                          /\ PromoCounted(q)' => PromoCounted(q) \/ q = r
  BY <1>1 DEF WithPromo, UsageInserted, PromoCounted
<1>3. \A q \in Requests : PromoCounted(q) => PromoOf[q] # PromoOf[r]
  BY DEF UsageCounts, CampaignFree, HoldsCampaign, PromoCounted
<1>4. used[PromoOf[r]] < UsageLimit[PromoOf[r]]
  BY DEF UsageCounts, BelowLimit
<1>5. PromotionsHeld'
  BY <1>1, <1>2, <1>3, <1>4 DEF Promotions, PromotionsHeld
<1>6. CampaignCapped' /\ OneUsePerUser' /\ IsFiniteSet(usages)'
  BY <1>1 DEF Promotions, CampaignCapped, OneUsePerUser, UsagesOf
<1> QED
  BY <1>5, <1>6 DEF Promotions

(* A commit counts the usage it inserts.                                   *)
LEMMA PromotionsCommit ==
  ASSUME Typed, UncommittedIsFresh, Promotions, NEW r \in Requests, Commit(r)
  PROVE  Promotions'
<1>1. /\ pc[r] = "commit" /\ r \notin placed
      /\ pc'[r] \in {"pay", "cache"}
      /\ \A q \in Requests \ {r} : pc'[q] = pc[q]
      /\ placed' = placed \cup {r}
  BY DEF Commit, EndTx, Goto, AfterCommit, Typed, UncommittedIsFresh, InTx
<1>2. \A q \in Requests : /\ WithPromo(q)' = WithPromo(q)
                          /\ UsageInserted(q)' => UsageInserted(q) /\ q # r
                          /\ PromoCounted(q)' => PromoCounted(q) /\ q # r
  BY <1>1 DEF WithPromo, UsageInserted, PromoCounted
<1>3. CASE ~ WithPromo(r)
  <2>1. UNCHANGED <<used, usages>>
    BY <1>3 DEF Commit, WithPromo
  <2>2. PromotionsHeld'
    BY <1>1, <1>2, <2>1 DEF Promotions, PromotionsHeld
  <2>3. CampaignCapped' /\ OneUsePerUser' /\ IsFiniteSet(usages)'
    BY <1>1, <2>1 DEF Promotions, CampaignCapped, OneUsePerUser, UsagesOf
  <2> QED
    BY <2>2, <2>3 DEF Promotions
<1>4. CASE WithPromo(r)
  <2> DEFINE c == PromoOf[r]
             x == <<PromoOf[r], UserOf[r], r>>
  <2>1. /\ c \in Campaigns
        /\ used' = [used EXCEPT ![c] = @ + 1]
        /\ usages' = usages \cup {x}
    BY <1>4 DEF Commit, WithPromo, Counted
  <2>2. UsageInserted(r) /\ PromoCounted(r)
    BY <1>1, <1>4 DEF UsageInserted, PromoCounted
  <2>3. /\ \A y \in usages : <<y[1], y[2]>> # <<PromoOf[r], UserOf[r]>>
        /\ used[c] < UsageLimit[c]
        /\ \A q \in Requests \ {r} : PromoOf[q] = PromoOf[r] =>
              /\ UsageInserted(q) => UserOf[q] # UserOf[r]
              /\ ~ PromoCounted(q)
    BY <2>2 DEF Promotions, PromotionsHeld
  <2>4. x \notin usages
    BY <2>3
  <2>5. PromotionsHeld'
    <3>1. ASSUME NEW q \in Requests PROVE
            /\ pc'[q] \in {"promo", "usage", "count"} => WithPromo(q)
            /\ UsageInserted(q)' => \A y \in usages' : <<y[1], y[2]>> # <<PromoOf[q], UserOf[q]>>
      <4>1. pc'[q] \in {"promo", "usage", "count"} => WithPromo(q)
        BY <1>1 DEF Promotions, PromotionsHeld
      <4>2. ASSUME UsageInserted(q)', NEW y \in usages'
            PROVE  <<y[1], y[2]>> # <<PromoOf[q], UserOf[q]>>
        <5>1. UsageInserted(q) /\ q # r
          BY <1>2, <4>2
        <5>2. CASE y \in usages
          BY <5>1, <5>2 DEF Promotions, PromotionsHeld
        <5>3. CASE y = x
          BY <2>3, <5>1, <5>3
        <5> QED
          BY <2>1, <5>2, <5>3
      <4> QED
        BY <4>1, <4>2
    <3>2. ASSUME NEW q \in Requests, PromoCounted(q)'
          PROVE  used'[PromoOf[q]] < UsageLimit[PromoOf[q]]
      <4>1. PromoCounted(q) /\ PromoOf[q] # c
        BY <1>2, <2>3, <3>2
      <4>2. PromoOf[q] \in Campaigns
        BY <4>1 DEF PromoCounted, WithPromo
      <4> QED
        BY <2>1, <4>1, <4>2 DEF Promotions, PromotionsHeld, Typed
    <3> QED
      BY <1>2, <3>1, <3>2 DEF Promotions, PromotionsHeld, WithPromo
  <2>6. CampaignCapped'
    <3> SUFFICES ASSUME NEW d \in Campaigns
                 PROVE  /\ used'[d] = Cardinality(UsagesOf(d)')
                        /\ used'[d] <= UsageLimit[d]
                        /\ \A y \in UsagesOf(d)' : y[3] \in placed'
      BY DEF CampaignCapped
    <3>1. CASE d = c
      <4>1. UsagesOf(d)' = UsagesOf(d) \cup {x}
        BY <2>1, <3>1 DEF UsagesOf
      <4>2. IsFiniteSet(UsagesOf(d)) /\ x \notin UsagesOf(d)
        BY <2>4, FS_Subset DEF Promotions, UsagesOf
      <4>3. Cardinality(UsagesOf(d)') = Cardinality(UsagesOf(d)) + 1
        BY <4>1, <4>2, FS_AddElement
      <4>4. used'[d] = used[d] + 1 /\ used[d] \in Nat /\ UsageLimit[d] \in Nat
        BY <2>1, <3>1 DEF Typed
      <4> QED
        BY <1>1, <2>3, <3>1, <4>1, <4>3, <4>4 DEF Promotions, CampaignCapped
    <3>2. CASE d # c
      <4>1. UsagesOf(d)' = UsagesOf(d) /\ used'[d] = used[d]
        BY <2>1, <3>2 DEF UsagesOf, Typed
      <4> QED
        BY <1>1, <4>1 DEF Promotions, CampaignCapped
    <3> QED
      BY <3>1, <3>2
  <2>7. OneUsePerUser'
    BY <2>1, <2>3 DEF Promotions, OneUsePerUser
  <2>8. IsFiniteSet(usages)'
    BY <2>1, FS_AddElement DEF Promotions
  <2> QED
    BY <2>5, <2>6, <2>7, <2>8 DEF Promotions
<1> QED
  BY <1>3, <1>4

(* The promotions are inductive.                                           *)
LEMMA NextPromotions ==
  Typed /\ UncommittedIsFresh /\ Promotions /\ [Next]_vars => Promotions'
<1> SUFFICES ASSUME Typed, UncommittedIsFresh, Promotions, [Next]_vars PROVE Promotions'
  OBVIOUS
<1> DEFINE Elsewhere == {"claim", "read", "lock", "validate", "release", "gateway",
                         "link", "cache", "done", "crashed"}
<1>1. ASSUME NEW r \in Requests, Progress(r) \/ Fault(r) PROVE Promotions'
  <2>1. CASE FindClaimed(r) \/ Replay(r) \/ FindFree(r) \/ Claim(r) \/ RedisFails(r)
             \/ ReadCart(r)
    <3>1. PICK l \in Elsewhere : Goto(r, l)
      BY <2>1 DEF FindClaimed, Replay, FindFree, Claim, RedisFails, ReadCart, Answer
    <3>2. UNCHANGED <<used, usages, placed>>
      BY <2>1 DEF FindClaimed, Replay, FindFree, Claim, RedisFails, ReadCart, orders
    <3> QED
      BY <3>1, <3>2, PromotionsFrame
  <2>2. ASSUME NEW p \in Products, LockRow(r, p) PROVE Promotions'
    <3>1. PICK l \in Elsewhere : Goto(r, l)
      BY <2>2 DEF LockRow
    <3> QED
      BY <2>2, <3>1, PromotionsFrame DEF LockRow, orders
  <2>3. CASE Validate(r)
    <3>1. CASE WithPromo(r)
      BY <2>3, <3>1, PromotionsFrame DEF Validate, WithPromo, orders
    <3>2. CASE ~ WithPromo(r)
      BY <2>3, <3>2, PromotionsFrame DEF Validate, WithPromo, orders
    <3> QED
      BY <3>1, <3>2
  <2>4. CASE CheckPromo(r)
    <3>1. WithPromo(r)
      BY <2>4 DEF CheckPromo, Promotions, PromotionsHeld
    <3> QED
      BY <2>4, <3>1, PromotionsFrame DEF CheckPromo, orders
  <2>5. CASE InsertUsage(r)
    BY <2>5, PromotionsInsert
  <2>6. CASE UsageCounts(r)
    BY <2>6, PromotionsCount
  <2>7. CASE RefuseCart(r) \/ RefuseStock(r) \/ RefusePromo(r) \/ DuplicateUsage(r)
             \/ LimitReached(r) \/ Abort(r) \/ Crash(r)
    <3>1. PICK l \in Elsewhere : Goto(r, l)
      BY <2>7 DEF RefuseCart, RefuseStock, RefusePromo, DuplicateUsage, LimitReached,
                  Abort, Crash, RollBack, EndTx
    <3>2. UNCHANGED <<used, usages, placed>>
      BY <2>7 DEF RefuseCart, RefuseStock, RefusePromo, DuplicateUsage, LimitReached,
                  Abort, Crash, RollBack, orders
    <3> QED
      BY <3>1, <3>2, PromotionsFrame
  <2>8. CASE Commit(r)
    BY <2>8, PromotionsCommit
  <2>9. CASE InsertPayment(r) \/ Intention(r) \/ LinkPayment(r) \/ CacheReply(r)
             \/ Release(r) \/ PaymentFails(r) \/ GatewayFails(r)
    <3>1. PICK l \in Elsewhere : Goto(r, l)
      BY <2>9 DEF InsertPayment, Intention, LinkPayment, CacheReply, Release,
                  PaymentFails, GatewayFails, Answer
    <3>2. UNCHANGED <<used, usages, placed>>
      BY <2>9 DEF InsertPayment, Intention, LinkPayment, CacheReply, Release,
                  PaymentFails, GatewayFails, orders
    <3> QED
      BY <3>1, <3>2, PromotionsFrame
  <2> QED
    BY <1>1, <2>1, <2>2, <2>3, <2>4, <2>5, <2>6, <2>7, <2>8, <2>9, CountUsageCases DEF Progress, Fault
<1>2. CASE Environment \/ UNCHANGED vars
  <2>1. UNCHANGED <<used, usages, placed, pc>>
    BY <1>2 DEF Environment, Expire, ChangeCart, SetStock, RemoveProduct, SwitchCampaign,
                vars, orders
  <2>2. \A q \in Requests : /\ WithPromo(q)' = WithPromo(q)
                            /\ UsageInserted(q)' = UsageInserted(q)
                            /\ PromoCounted(q)' = PromoCounted(q)
    BY <2>1 DEF WithPromo, UsageInserted, PromoCounted
  <2>3. PromotionsHeld'
    BY <2>1, <2>2 DEF Promotions, PromotionsHeld
  <2>4. CampaignCapped' /\ OneUsePerUser' /\ IsFiniteSet(usages)'
    BY <2>1 DEF Promotions, CampaignCapped, OneUsePerUser, UsagesOf
  <2> QED
    BY <2>3, <2>4 DEF Promotions
<1> QED
  BY <1>1, <1>2 DEF Next
-----------------------------------------------------------------------------
(* Answers.                                                                *)

(* An order a customer may be told of.                                     *)
Settled(r) == r \in placed /\ (MethodOf[r] = "CREDIT_CARD" => payment[r] = "linked")

Unpaid == InTx \cup {"start", "claim", "pay", "gateway", "link"}

(* What a key or an answer names was committed and linked before the       *)
(* handler reached its last step, and no handler links a payment twice.    *)
Replies ==
    /\ \A r \in Requests :
        /\ pc[r] \in {"pay", "gateway", "link"} => r \in placed
        /\ pc[r] = "cache" => Settled(r)
        /\ pc[r] \in Unpaid => payment[r] # "linked"
    /\ \A k \in Users \X Keys : redis[k] \in Requests =>
        CacheKey(redis[k]) = k /\ Settled(redis[k])
    /\ AnswerIsOwn

(* Nothing is answered at the start.                                       *)
LEMMA InitReplies == Init => Replies
  BY DEF Init, Replies, AnswerIsOwn

(* Steps that write no order, no payment, no key and no answer.            *)
LEMMA RepliesFrame ==
  ASSUME Typed, Replies, NEW r \in Requests,
         NEW l \in InTx \cup {"claim", "link", "release", "crashed"}, Goto(r, l),
         l \in InTx \cup {"claim"} => pc[r] \in Unpaid,
         l = "link" => pc[r] = "gateway",
         UNCHANGED <<placed, payment, redis, reply>>
  PROVE  Replies'
<1>1. /\ \A q \in Requests \ {r} : pc'[q] = pc[q]
      /\ pc'[r] = l
  BY DEF Goto, Typed
<1>2. \A q \in Requests : Settled(q)' = Settled(q)
  BY DEF Settled
<1>3. \A q \in Requests :
        /\ pc'[q] \in {"pay", "gateway", "link"} => q \in placed
        /\ pc'[q] = "cache" => Settled(q)
        /\ pc'[q] \in Unpaid => payment[q] # "linked"
  BY <1>1 DEF Replies, Unpaid, InTx
<1>4. AnswerIsOwn'
  BY DEF Replies, AnswerIsOwn
<1>5. \A k \in Users \X Keys : redis'[k] \in Requests =>
        CacheKey(redis'[k]) = k /\ Settled(redis'[k])
  BY DEF Replies
<1> QED
  BY <1>2, <1>3, <1>4, <1>5 DEF Replies, Settled, CacheKey

(* Steps at the key: what is written there is no order, or the settled     *)
(* order of the handler itself.                                            *)
LEMMA RepliesKey ==
  ASSUME Typed, Replies, NEW r \in Requests,
         NEW l \in {"done", "read", "release"}, Goto(r, l),
         l = "read" => pc[r] \in Unpaid,
         NEW v \in Requests \cup {Absent, Processing},
         SetKey(r, v) \/ UNCHANGED redis,
         v \in Requests => v = r /\ pc[r] = "cache",
         NEW a \in Requests \cup {NoReply, Conflict, Rejected, RedisError},
         reply' = [reply EXCEPT ![r] = a] \/ UNCHANGED reply,
         a \in Requests => \/ a = r /\ pc[r] = "cache"
                           \/ redis[CacheKey(r)] = a,
         UNCHANGED <<placed, payment>>
  PROVE  Replies'
<1>1. /\ \A q \in Requests \ {r} : pc'[q] = pc[q]
      /\ pc'[r] = l
  BY DEF Goto, Typed
<1>2. \A q \in Requests : Settled(q)' = Settled(q)
  BY DEF Settled
<1>3. \A q \in Requests :
        /\ pc'[q] \in {"pay", "gateway", "link"} => q \in placed
        /\ pc'[q] = "cache" => Settled(q)
        /\ pc'[q] \in Unpaid => payment[q] # "linked"
  BY <1>1 DEF Replies, Unpaid, InTx
<1>4. CacheKey(r) \in Users \X Keys
  BY DEF CacheKey
<1>5. \A k \in Users \X Keys : redis'[k] \in Requests =>
        CacheKey(redis'[k]) = k /\ Settled(redis'[k])
  <2> SUFFICES ASSUME NEW k \in Users \X Keys, redis'[k] \in Requests
               PROVE  CacheKey(redis'[k]) = k /\ Settled(redis'[k])
    OBVIOUS
  <2>1. CASE redis'[k] = redis[k]
    BY <2>1 DEF Replies
  <2>2. CASE redis'[k] # redis[k]
    <3>1. k = CacheKey(r) /\ redis'[k] = v
      BY <2>2, <1>4 DEF SetKey, Typed
    <3> QED
      BY <3>1 DEF Replies
  <2> QED
    BY <2>1, <2>2
<1>6. AnswerIsOwn'
  <2> SUFFICES ASSUME NEW q \in Requests, reply'[q] \in Requests
               PROVE  /\ CacheKey(reply'[q]) = CacheKey(q)
                      /\ Settled(reply'[q])
    BY <1>2 DEF AnswerIsOwn, Settled, CacheKey
  <2>1. CASE reply'[q] = reply[q]
    BY <2>1 DEF Replies, AnswerIsOwn, Settled, CacheKey
  <2>2. CASE reply'[q] # reply[q]
    <3>1. q = r /\ reply'[q] = a
      BY <2>2 DEF Typed
    <3>2. CASE a = r /\ pc[r] = "cache"
      BY <3>1, <3>2 DEF Replies
    <3>3. CASE redis[CacheKey(r)] = a
      BY <3>1, <3>3, <1>4 DEF Replies
    <3> QED
      BY <3>1, <3>2, <3>3
  <2> QED
    BY <2>1, <2>2
<1> QED
  BY <1>2, <1>3, <1>5, <1>6 DEF Replies, Settled, CacheKey

(* Steps that settle more orders and leave the keys and answers alone.     *)
LEMMA RepliesSettle ==
  ASSUME Typed, Replies, NEW r \in Requests,
         Commit(r) \/ InsertPayment(r) \/ LinkPayment(r)
  PROVE  Replies'
<1>1. /\ pc'[r] \in {"pay", "gateway", "cache"}
      /\ \A q \in Requests \ {r} : pc'[q] = pc[q] /\ payment'[q] = payment[q]
      /\ placed \subseteq placed'
      /\ UNCHANGED <<redis, reply>>
  BY DEF Commit, InsertPayment, LinkPayment, EndTx, AfterCommit, Goto, Typed, orders
<1>2. /\ r \in placed'
      /\ pc'[r] = "cache" => Settled(r)'
      /\ pc'[r] \in {"pay", "gateway"} => payment'[r] # "linked"
  <2>1. CASE Commit(r)
    BY <2>1 DEF Commit, EndTx, AfterCommit, Goto, Typed, Settled, Replies, Unpaid, InTx
  <2>2. CASE InsertPayment(r)
    BY <2>2 DEF InsertPayment, Goto, Typed, Replies, orders
  <2>3. CASE LinkPayment(r)
    BY <2>3 DEF LinkPayment, Goto, Typed, Settled, Replies, orders
  <2> QED
    BY <2>1, <2>2, <2>3
<1>3. \A q \in Requests : Settled(q) => Settled(q)'
  <2>1. \A q \in Requests : payment[q] = "linked" => payment'[q] = "linked"
    BY <1>1 DEF Commit, InsertPayment, LinkPayment, Replies, Unpaid, Typed
  <2> QED
    BY <1>1, <2>1 DEF Settled
<1>4. \A q \in Requests :
        /\ pc'[q] \in {"pay", "gateway", "link"} => q \in placed'
        /\ pc'[q] = "cache" => Settled(q)'
        /\ pc'[q] \in Unpaid => payment'[q] # "linked"
  BY <1>1, <1>2, <1>3 DEF Replies, Unpaid, InTx
<1>5. \A k \in Users \X Keys : redis[k] \in Requests =>
        CacheKey(redis[k]) = k /\ Settled(redis[k])'
  <2> SUFFICES ASSUME NEW k \in Users \X Keys, redis[k] \in Requests
               PROVE  CacheKey(redis[k]) = k /\ Settled(redis[k])'
    BY <1>1
  <2>1. CacheKey(redis[k]) = k /\ Settled(redis[k])
    BY DEF Replies
  <2> QED
    BY <1>1, <1>3, <2>1 DEF Settled
<1>6. AnswerIsOwn'
  <2> SUFFICES ASSUME NEW q \in Requests, reply[q] \in Requests
               PROVE  /\ UserOf[reply[q]] = UserOf[q]
                      /\ KeyOf[reply[q]] = KeyOf[q]
                      /\ Settled(reply[q])'
    BY <1>1 DEF AnswerIsOwn, Settled
  <2>1. Settled(reply[q])
    BY DEF Replies, AnswerIsOwn, Settled
  <2> QED
    BY <1>1, <1>3, <2>1 DEF Settled, Replies, AnswerIsOwn
<1> QED
  BY <1>1, <1>4, <1>5, <1>6 DEF Replies, CacheKey, Settled

(* Every step of a handler answers with settled orders only.               *)
LEMMA ProgressReplies ==
  ASSUME Typed, Replies, NEW r \in Requests, Progress(r)
  PROVE  Replies'
<1>1. CASE FindFree(r) \/ Intention(r)
  BY <1>1, RepliesFrame DEF FindFree, Intention, orders, Unpaid, InTx
<1>2. CASE FindClaimed(r)
  <2>1. Goto(r, "done") /\ reply' = [reply EXCEPT ![r] = Conflict]
        /\ UNCHANGED <<placed, payment, redis>>
    BY <1>2 DEF FindClaimed, Answer, orders
  <2> QED
    BY <2>1, RepliesKey
<1>3. CASE Replay(r)
  <2>1. Goto(r, "done") /\ reply' = [reply EXCEPT ![r] = redis[CacheKey(r)]]
        /\ redis[CacheKey(r)] \in Requests
        /\ UNCHANGED <<placed, payment, redis>>
    BY <1>3 DEF Replay, Answer, orders
  <2> QED
    BY <2>1, RepliesKey
<1>4. CASE Claim(r)
  <2>1. Goto(r, "read") /\ SetKey(r, Processing) /\ pc[r] \in Unpaid
        /\ UNCHANGED <<placed, payment, reply>>
    BY <1>4 DEF Claim, orders, Unpaid
  <2> QED
    BY <2>1, RepliesKey
<1>5. CASE \/ ReadCart(r) \/ Validate(r) \/ CheckPromo(r) \/ InsertUsage(r) \/ UsageCounts(r)
           \/ \E p \in Products : LockRow(r, p)
  <2>1. PICK l \in InTx : Goto(r, l)
    BY <1>5 DEF ReadCart, Validate, CheckPromo, InsertUsage, UsageCounts, LockRow, InTx
  <2>2. pc[r] \in Unpaid
    BY <1>5 DEF ReadCart, Validate, CheckPromo, InsertUsage, UsageCounts, LockRow,
                Unpaid, InTx
  <2>3. UNCHANGED <<placed, payment, redis, reply>>
    BY <1>5 DEF ReadCart, Validate, CheckPromo, InsertUsage, UsageCounts, LockRow, orders
  <2> QED
    BY <2>1, <2>2, <2>3, RepliesFrame DEF InTx
<1>6. CASE RefuseCart(r) \/ RefuseStock(r) \/ RefusePromo(r) \/ DuplicateUsage(r)
           \/ LimitReached(r)
  <2>1. RollBack(r)
    BY <1>6 DEF RefuseCart, RefuseStock, RefusePromo, DuplicateUsage, LimitReached
  <2>2. Goto(r, "release") /\ UNCHANGED <<placed, payment, redis, reply>>
    BY <2>1 DEF RollBack, EndTx, orders
  <2> QED
    BY <2>2, RepliesFrame DEF InTx
<1>7. CASE Commit(r) \/ InsertPayment(r) \/ LinkPayment(r)
  BY <1>7, RepliesSettle
<1>8. CASE CacheReply(r)
  <2>1. Goto(r, "done") /\ SetKey(r, r) /\ reply' = [reply EXCEPT ![r] = r]
        /\ pc[r] = "cache" /\ UNCHANGED <<placed, payment>>
    BY <1>8 DEF CacheReply, Answer, orders
  <2> QED
    BY <2>1, RepliesKey
<1>9. CASE Release(r)
  <2>1. Goto(r, "done") /\ SetKey(r, Absent) /\ reply' = [reply EXCEPT ![r] = Rejected]
        /\ UNCHANGED <<placed, payment>>
    BY <1>9 DEF Release, Answer, orders
  <2> QED
    BY <2>1, RepliesKey
<1> QED
  BY <1>1, <1>2, <1>3, <1>4, <1>5, <1>6, <1>7, <1>8, <1>9, CountUsageCases DEF Progress

(* So does every fault.                                                    *)
LEMMA FaultReplies ==
  ASSUME Typed, Replies, NEW r \in Requests, Fault(r)
  PROVE  Replies'
<1>1. CASE Abort(r) \/ PaymentFails(r) \/ GatewayFails(r) \/ Crash(r)
  <2>1. PICK l \in {"release", "crashed"} : Goto(r, l)
    BY <1>1 DEF Abort, PaymentFails, GatewayFails, Crash, RollBack, EndTx
  <2>2. UNCHANGED <<placed, payment, redis, reply>>
    BY <1>1 DEF Abort, PaymentFails, GatewayFails, Crash, RollBack, orders
  <2> QED
    BY <2>1, <2>2, RepliesFrame DEF InTx
<1>2. CASE RedisFails(r)
  <2>1. UNCHANGED <<placed, payment>>
    BY <1>2 DEF RedisFails, orders
  <2>2. CASE /\ pc[r] \in {"start", "claim", "release"}
             /\ \E v \in {Absent, Processing} : SetKey(r, v) \/ UNCHANGED redis
             /\ Answer(r, RedisError)
    <3>1. PICK v \in {Absent, Processing} : SetKey(r, v) \/ UNCHANGED redis
      BY <2>2
    <3>2. Goto(r, "done") /\ reply' = [reply EXCEPT ![r] = RedisError]
      BY <2>2 DEF Answer
    <3> QED
      BY <2>1, <3>1, <3>2, RepliesKey
  <2>3. CASE /\ pc[r] = "cache"
             /\ SetKey(r, r) \/ UNCHANGED redis
             /\ Goto(r, "release")
             /\ UNCHANGED reply
    BY <2>1, <2>3, RepliesKey
  <2> QED
    BY <1>2, <2>2, <2>3 DEF RedisFails
<1> QED
  BY <1>1, <1>2 DEF Fault

(* The answers are inductive.                                              *)
LEMMA NextReplies == Typed /\ Replies /\ [Next]_vars => Replies'
<1> SUFFICES ASSUME Typed, Replies, [Next]_vars PROVE Replies'
  OBVIOUS
<1>1. ASSUME Environment \/ UNCHANGED vars PROVE Replies'
  <2>1. UNCHANGED <<placed, payment, pc, reply>>
    BY <1>1 DEF Environment, Expire, ChangeCart, SetStock, RemoveProduct, SwitchCampaign,
                vars, orders
  <2>2. \A k \in Users \X Keys : redis'[k] = redis[k] \/ redis'[k] = Absent
    BY <1>1 DEF Environment, Expire, ChangeCart, SetStock, RemoveProduct, SwitchCampaign,
                vars, Typed
  <2>3. \A q \in Requests : Settled(q)' = Settled(q)
    BY <2>1 DEF Settled
  <2>4. \A k \in Users \X Keys : redis'[k] \in Requests =>
          CacheKey(redis'[k]) = k /\ Settled(redis'[k])
    BY <2>2 DEF Replies
  <2>5. AnswerIsOwn'
    BY <2>1 DEF Replies, AnswerIsOwn
  <2> QED
    BY <2>1, <2>3, <2>4, <2>5 DEF Replies, Settled, CacheKey
<1> QED
  BY <1>1, ProgressReplies, FaultReplies DEF Next

-----------------------------------------------------------------------------
(* Claims.                                                                 *)

(* A request that may leave a key PROCESSING.                              *)
Owns(r) == pc[r] \in AtWork \cup {"crashed"} \/ reply[r] = RedisError

(* An error of Redis was the last thing its handler met.                   *)
Claims ==
    /\ ClaimsAreOwned
    /\ \A r \in Requests : reply[r] = RedisError => pc[r] = "done"

(* No key is claimed at the start.                                         *)
LEMMA InitClaims == Init => Claims
  BY DEF Init, Claims, ClaimsAreOwned

(* A handler that claims a key owns it, and one that gives up owning its   *)
(* key leaves it unclaimed.                                                *)
LEMMA ClaimsStep ==
  ASSUME Typed, Claims, NEW r \in Requests,
         \A q \in Requests \ {r} : pc'[q] = pc[q] /\ reply'[q] = reply[q],
         \A k \in Users \X Keys : redis'[k] = Processing =>
             redis[k] = Processing \/ (k = CacheKey(r) /\ Owns(r)'),
         Owns(r) => Owns(r)' \/ redis'[CacheKey(r)] # Processing,
         reply'[r] = RedisError => pc'[r] = "done"
  PROVE  Claims'
<1>1. \A q \in Requests \ {r} : Owns(q)' = Owns(q)
  BY DEF Owns
<1>2. ASSUME NEW k \in Users \X Keys, redis'[k] = Processing
      PROVE  \E q \in Requests : CacheKey(q) = k /\ Owns(q)'
  <2>1. CASE k = CacheKey(r) /\ Owns(r)'
    BY <2>1
  <2>2. CASE redis[k] = Processing
    <3>1. PICK q \in Requests : CacheKey(q) = k /\ Owns(q)
      BY <2>2 DEF Claims, ClaimsAreOwned, Owns
    <3> QED
      BY <1>1, <1>2, <3>1
  <2> QED
    BY <1>2, <2>1, <2>2
<1>3. ClaimsAreOwned'
  BY <1>2 DEF ClaimsAreOwned, Owns, CacheKey
<1>4. \A q \in Requests : reply'[q] = RedisError => pc'[q] = "done"
  BY DEF Claims
<1> QED
  BY <1>3, <1>4 DEF Claims

(* A handler that goes on working, or stops with its server.               *)
LEMMA ClaimsWork ==
  ASSUME Typed, Claims, NEW r \in Requests, pc[r] # "done",
         NEW l \in AtWork \cup {"crashed"}, Goto(r, l), UNCHANGED reply,
         \A k \in Users \X Keys : redis'[k] = Processing =>
             redis[k] = Processing \/ k = CacheKey(r)
  PROVE  Claims'
<1>1. pc'[r] = l /\ \A q \in Requests \ {r} : pc'[q] = pc[q]
  BY DEF Goto, Typed
<1>2. Owns(r)'
  BY <1>1 DEF Owns
<1>3. reply[r] # RedisError
  BY DEF Claims
<1> QED
  BY <1>1, <1>2, <1>3, ClaimsStep

(* A handler that answers: it never claimed the key, it has written it     *)
(* over or deleted it, or Redis has failed.                                *)
LEMMA ClaimsAnswer ==
  ASSUME Typed, Claims, NEW r \in Requests,
         NEW a \in Requests \cup {NoReply, Conflict, Rejected, RedisError}, Answer(r, a),
         \A k \in Users \X Keys : redis'[k] = Processing =>
             redis[k] = Processing \/ (k = CacheKey(r) /\ a = RedisError),
         a = RedisError \/ pc[r] = "start" \/ redis'[CacheKey(r)] # Processing
  PROVE  Claims'
<1>1. /\ pc'[r] = "done" /\ reply'[r] = a
      /\ \A q \in Requests \ {r} : pc'[q] = pc[q] /\ reply'[q] = reply[q]
  BY DEF Answer, Goto, Typed
<1>2. a = RedisError => Owns(r)'
  BY <1>1 DEF Owns
<1>3. pc[r] = "start" => ~ Owns(r)
  BY DEF Claims, Owns, AtWork, InTx
<1> QED
  BY <1>1, <1>2, <1>3, ClaimsStep

(* That every claim has its owner is inductive.                            *)
LEMMA NextClaims == Typed /\ Claims /\ [Next]_vars => Claims'
<1> SUFFICES ASSUME Typed, Claims, [Next]_vars PROVE Claims'
  OBVIOUS
<1>1. ASSUME NEW r \in Requests, Progress(r) \/ Fault(r) PROVE Claims'
  <2>k. CacheKey(r) \in Users \X Keys
    BY DEF CacheKey
  <2>1. CASE FindClaimed(r) \/ Replay(r)
    <3>1. PICK a \in Requests \cup {Conflict} : Answer(r, a)
      BY <2>1 DEF FindClaimed, Replay
    <3>2. pc[r] = "start" /\ UNCHANGED redis
      BY <2>1 DEF FindClaimed, Replay
    <3> QED
      BY <3>1, <3>2, ClaimsAnswer
  <2>2. CASE FindFree(r)
    <3>1. /\ pc[r] = "start" /\ pc'[r] = "claim" /\ UNCHANGED <<redis, reply>>
          /\ \A q \in Requests \ {r} : pc'[q] = pc[q]
      BY <2>2 DEF FindFree, Goto, Typed
    <3>2. reply[r] # RedisError /\ ~ Owns(r)
      BY <3>1 DEF Claims, Owns, AtWork, InTx
    <3> QED
      BY <3>1, <3>2, ClaimsStep
  <2>3. CASE Claim(r)
    <3>1. /\ Goto(r, "read") /\ pc[r] # "done" /\ UNCHANGED reply
          /\ SetKey(r, Processing)
      BY <2>3 DEF Claim
    <3>2. \A k \in Users \X Keys : redis'[k] = redis[k] \/ k = CacheKey(r)
      BY <3>1 DEF SetKey, Typed
    <3> QED
      BY <3>1, <3>2, ClaimsWork DEF AtWork, InTx
  <2>4. CASE \/ ReadCart(r) \/ Validate(r) \/ CheckPromo(r) \/ InsertUsage(r) \/ UsageCounts(r)
             \/ InsertPayment(r) \/ Intention(r) \/ LinkPayment(r)
             \/ PaymentFails(r) \/ GatewayFails(r)
             \/ \E p \in Products : LockRow(r, p)
    <3>1. PICK l \in AtWork : Goto(r, l)
      BY <2>4 DEF ReadCart, Validate, CheckPromo, InsertUsage, UsageCounts, InsertPayment,
                  Intention, LinkPayment, PaymentFails, GatewayFails, LockRow, AtWork, InTx
    <3>2. pc[r] # "done" /\ UNCHANGED <<redis, reply>>
      BY <2>4 DEF ReadCart, Validate, CheckPromo, InsertUsage, UsageCounts, InsertPayment,
                  Intention, LinkPayment, PaymentFails, GatewayFails, LockRow
    <3> QED
      BY <3>1, <3>2, ClaimsWork
  <2>5. CASE RefuseCart(r) \/ RefuseStock(r) \/ RefusePromo(r) \/ DuplicateUsage(r)
             \/ LimitReached(r) \/ Abort(r) \/ Crash(r) \/ Commit(r)
    <3>1. PICK l \in {"release", "crashed", "pay", "cache"} : EndTx(r, l)
      BY <2>5 DEF RefuseCart, RefuseStock, RefusePromo, DuplicateUsage, LimitReached, Abort,
                  Crash, Commit, RollBack, AfterCommit
    <3>2. pc[r] # "done" /\ UNCHANGED <<redis, reply>>
      BY <2>5 DEF RefuseCart, RefuseStock, RefusePromo, DuplicateUsage, LimitReached, Abort,
                  Crash, Commit, RollBack, InTx, Ended
    <3> QED
      BY <3>1, <3>2, ClaimsWork DEF EndTx, AtWork
  <2>6. CASE CacheReply(r) \/ Release(r)
    <3>1. PICK a \in Requests \cup {Rejected} : Answer(r, a)
      BY <2>6 DEF CacheReply, Release
    <3>2. PICK v \in Requests \cup {Absent} : SetKey(r, v)
      BY <2>6 DEF CacheReply, Release
    <3>3. \A k \in Users \X Keys : redis'[k] = IF k = CacheKey(r) THEN v ELSE redis[k]
      BY <3>2 DEF SetKey, Typed
    <3> QED
      BY <2>k, <3>1, <3>3, ClaimsAnswer
  <2>7. CASE RedisFails(r)
    <3>1. \A k \in Users \X Keys : redis'[k] = redis[k] \/ k = CacheKey(r)
      BY <2>7 DEF RedisFails, SetKey, Typed
    <3>2. CASE Answer(r, RedisError)
      BY <3>1, <3>2, ClaimsAnswer
    <3>3. CASE pc[r] = "cache" /\ Goto(r, "release") /\ UNCHANGED reply
      BY <3>1, <3>3, ClaimsWork DEF AtWork
    <3> QED
      BY <2>7, <3>2, <3>3 DEF RedisFails
  <2> QED
    BY <1>1, <2>1, <2>2, <2>3, <2>4, <2>5, <2>6, <2>7, CountUsageCases DEF Progress, Fault
<1>2. CASE Environment \/ UNCHANGED vars
  <2>1. UNCHANGED <<pc, reply>>
    BY <1>2 DEF Environment, Expire, ChangeCart, SetStock, RemoveProduct, SwitchCampaign, vars
  <2>2. \A k \in Users \X Keys : redis'[k] = redis[k] \/ redis'[k] = Absent
    BY <1>2 DEF Environment, Expire, ChangeCart, SetStock, RemoveProduct, SwitchCampaign,
                vars, Typed
  <2> QED
    BY <2>1, <2>2 DEF Claims, ClaimsAreOwned, CacheKey
<1> QED
  BY <1>1, <1>2 DEF Next
-----------------------------------------------------------------------------
(* The inductive invariant: the type invariant needs the locks (what a     *)
(* transaction takes is still there when it commits), the promotions need  *)
(* that no order is committed twice, and the answers what the keys hold.   *)
IInv == TypeOK /\ LockDiscipline /\ UncommittedIsFresh /\ Promotions /\ Replies /\ Claims

(* The inductive invariant holds at the start,                             *)
LEMMA InitIInv == Init => IInv
  BY InitTypeOK, InitLockDiscipline, InitFresh, InitPromotions, InitReplies,
     InitClaims DEF IInv

(* and every step keeps it.                                                *)
LEMMA NextIInv == IInv /\ [Next]_vars => IInv'
  BY TypeOKSplits, NextTypeOK, NextLockDiscipline, NextFresh, NextPromotions, NextReplies,
     NextClaims DEF IInv

(* IInv holds in every reachable state, whatever the constants.            *)
THEOREM Invariance == Spec => []IInv
  BY InitIInv, NextIInv, PTL DEF Spec

(* Every variable keeps its type: the bounds of order.service.ts and       *)
(* promo.service.ts on what they store.                                    *)
THEOREM TypeCorrect == Spec => []TypeOK
<1>1. IInv => TypeOK
  BY DEF IInv
<1> QED
  BY <1>1, Invariance, PTL

(* Concurrent checkouts never sell what is not there: decreaseStock never  *)
(* takes a quantity below zero.                                            *)
THEOREM NoOversell == Spec => []NeverOversold
<1>1. IInv => NeverOversold
  BY DEF IInv, TypeOK, NeverOversold
<1> QED
  BY <1>1, Invariance, PTL

(* lockStockRows and validateStock: between its validation and its commit  *)
(* a transaction holds every row it changes, unchanged.                    *)
THEOREM LocksDisciplined == Spec => []LockDiscipline
<1>1. IInv => LockDiscipline
  BY DEF IInv
<1> QED
  BY <1>1, Invariance, PTL

(* usePromo: a campaign's counter is the number of its usages and stays    *)
(* within the limit, whatever order the transactions interleave in.        *)
THEOREM PromotionsCapped == Spec => []CampaignCapped
<1>1. IInv => CampaignCapped
  BY DEF IInv, Promotions
<1> QED
  BY <1>1, Invariance, PTL

(* usePromo: a user has at most one usage of a campaign.                   *)
THEOREM PromotionsOnce == Spec => []OneUsePerUser
<1>1. IInv => OneUsePerUser
  BY DEF IInv, Promotions
<1> QED
  BY <1>1, Invariance, PTL

(* usePromo: what a transaction has inserted and counted but not committed *)
(* leaves the others no room to exceed the limit or to use a campaign      *)
(* twice.                                                                  *)
THEOREM PromotionsReserved == Spec => []PromotionsHeld
<1>1. IInv => PromotionsHeld
  BY DEF IInv, Promotions
<1> QED
  BY <1>1, Invariance, PTL

(* order.controller.ts: an answer, replayed from a key or not, is an order *)
(* of the user and the key that asks, committed, and payable if by card,   *)
(* through crashes, failing Redis commands and keys that end.              *)
THEOREM AnswersOwn == Spec => []AnswerIsOwn
<1>1. IInv => AnswerIsOwn
  BY DEF IInv, Replies
<1> QED
  BY <1>1, Invariance, PTL

(* order.controller.ts:46 and 53: every path of the handler that ends      *)
(* after the claim writes the order over it or deletes it; a key stays     *)
(* PROCESSING only while a request of that key is at work, or because its  *)
(* server crashed or one of its Redis commands failed.                     *)
THEOREM ClaimsOwned == Spec => []ClaimsAreOwned
<1>1. IInv => ClaimsAreOwned
  BY DEF IInv, Claims
<1> QED
  BY <1>1, Invariance, PTL
-----------------------------------------------------------------------------
(* The checkout implements the ledger of stock and orders.                 *)

(* The initial states are initial states of the ledger.                    *)
LEMMA LedgerInitially == Init => Ledger!LedgerInit
  BY DEF Init, Ledger!LedgerInit, Ledger!NoItems, NoItems

(* A commit is a reservation.                                              *)
LEMMA LedgerCommit ==
  ASSUME IInv, NEW r \in Requests, Commit(r)
  PROVE  Ledger!Reserve(r)
<1>1. \A p \in Products : items[r][p] # NoRow => items[r][p] <= stock[p]
  BY Covered, TypeOKSplits DEF IInv, Commit, Validated, Wanted
<1>2. items[r] \in [Products -> Amounts \cup {NoRow}]
  BY DEF IInv, TypeOK, Rows
<1>3. items[r] # Ledger!NoItems
  <2>1. PICK p \in Products : items[r][p] # NoRow
    BY DEF IInv, UncommittedIsFresh, Commit, Locking, Wanted
  <2> QED
    BY <2>1 DEF Ledger!NoItems
<1>4. orderItems[r] = Ledger!NoItems
  BY DEF IInv, UncommittedIsFresh, Commit, InTx, NoItems, Ledger!NoItems
<1> QED
  BY <1>1, <1>2, <1>3, <1>4 DEF Commit, Ledger!Reserve, Ledger!Taken, Amount

(* Only a commit moves anything from the stock to an order.                *)
LEMMA OnlyCommitTakes ==
  ASSUME NEW r \in Requests, Progress(r) \/ Fault(r) \/ RollBack(r), ~ Commit(r)
  PROVE  UNCHANGED <<stock, orderItems>>
  BY DEF Progress, Fault, FindClaimed, Replay, FindFree, Claim, ReadCart, RefuseCart,
         LockRow, Validate, RefuseStock, CheckPromo, RefusePromo, InsertUsage,
         DuplicateUsage, CountUsage, InsertPayment, Intention, LinkPayment,
         CacheReply, Release, Abort, PaymentFails, GatewayFails, Crash, RedisFails,
         RollBack, shop, orders

(* Every step is a step of the ledger or leaves it alone.                  *)
LEMMA LedgerStep == IInv /\ [Next]_vars => [Ledger!LedgerNext]_Ledger!ledgerVars
<1> SUFFICES ASSUME IInv, [Next]_vars
             PROVE  Ledger!LedgerNext \/ UNCHANGED <<stock, orderItems>>
  BY DEF Ledger!ledgerVars
<1>1. ASSUME NEW r \in Requests, Progress(r) \/ Fault(r), ~ Commit(r)
      PROVE  UNCHANGED <<stock, orderItems>>
  BY <1>1, OnlyCommitTakes
<1>2. ASSUME NEW r \in Requests, Commit(r) PROVE Ledger!LedgerNext
  BY <1>2, LedgerCommit DEF Ledger!LedgerNext
<1>3. ASSUME NEW p \in Products, SetStock(p) PROVE Ledger!LedgerNext
  <2>1. PICK q \in Quantities : stock' = [stock EXCEPT ![p] = q] /\ UNCHANGED orderItems
    BY <1>3 DEF SetStock, orders
  <2> QED
    BY <2>1 DEF Ledger!LedgerNext, Ledger!Restock
<1>4. CASE Environment
  BY <1>3, <1>4
     DEF Environment, Expire, ChangeCart, RemoveProduct, SwitchCampaign, shop, orders
<1>5. CASE UNCHANGED vars
  BY <1>5 DEF vars, shop, orders
<1> QED
  BY <1>1, <1>2, <1>4, <1>5 DEF Next

(* Every order leaves the stock in one step, all its items together, while *)
(* all of them are there: the checkout is the ledger, with the locks, the  *)
(* retries, the rollbacks and the crashes hidden.                          *)
THEOREM Refinement == Spec => LedgerImplemented
<1>1. Spec => Ledger!LedgerInit /\ [][Ledger!LedgerNext]_Ledger!ledgerVars
  BY Invariance, LedgerInitially, LedgerStep, PTL DEF Spec
<1> QED
  BY <1>1 DEF LedgerImplemented, Ledger!LedgerSpec
-----------------------------------------------------------------------------
(* No cycle of waiting transactions.                                       *)

(* A set of product ids that is not empty has a greatest element.          *)
LEMMA GreatestRow ==
  ASSUME NEW Waited, Waited \subseteq Products, Waited # {}
  PROVE  \E p \in Waited : \A q \in Waited : q <= p
<1> DEFINE Below == {n \in Nat : n <= MaxProductId /\ MaxProductId - n \in Waited}
<1>1. \A p \in Waited : MaxProductId - p \in Below
  BY ProductsAssumption
<1>2. Below # {} /\ Below \subseteq Nat
  BY <1>1
<1> HIDE DEF Below
<1> DEFINE Smaller == {ss \in Nat \X Nat : ss[1] < ss[2]}
<1>3. IsWellFoundedOn(Smaller, Nat)
  BY NatLessThanWellFounded DEF OpToRel
<1> HIDE DEF Smaller
<1>4. PICK n \in Below : \A m \in Below : ~ (<<m, n>> \in Smaller)
  BY <1>2, <1>3, WFMin
<1>5. \A m \in Below : ~ (m < n)
  BY <1>2, <1>4 DEF Smaller
<1>6. MaxProductId - n \in Waited /\ n \in Nat
  BY DEF Below
<1>7. \A q \in Waited : q <= MaxProductId - n
  BY <1>1, <1>5, <1>6, ProductsAssumption
<1> QED
  BY <1>6, <1>7

(* The greatest row that anybody waits for has a holder who waits for      *)
(* none.                                                                   *)
LEMMA LocksAcyclic == IInv => NoWaitCycle
<1> SUFFICES ASSUME IInv, NEW S \in (SUBSET Requests) \ {{}},
                    \A r \in S : \E q \in S : WaitsFor(r, q)
             PROVE  FALSE
  BY DEF NoWaitCycle
<1>1. \A r \in S : pc[r] \in {"lock", "usage", "count"}
  BY DEF WaitsFor
<1>2. \A r \in S : pc[r] # "count"
  BY <1>1 DEF WaitsFor, HoldsCampaign
<1>3. \A r \in S : pc[r] = "lock" /\ \E q \in S, p \in Products :
                                      IsNextRow(r, p) /\ stockLock[p] = q
  BY <1>1, <1>2 DEF WaitsFor, HoldsUsage
<1> DEFINE Waited == {p \in Products : \E r \in S : IsNextRow(r, p)}
<1>4. PICK p \in Waited : \A q \in Waited : q <= p
  <2>1. Waited # {}
    BY <1>3
  <2> QED
    BY <2>1, GreatestRow
<1>5. PICK r \in S : IsNextRow(r, p)
  OBVIOUS
<1>6. PICK q \in S, x \in Products : IsNextRow(r, x) /\ stockLock[x] = q
  BY <1>3
<1>7. x = p
  BY <1>5, <1>6, ProductsAssumption DEF IsNextRow
<1>8. PICK y \in Products : IsNextRow(q, y)
  BY <1>3
<1>9. p < y
  BY <1>3, <1>6, <1>7, <1>8 DEF IInv, LockDiscipline, LocksAscend, IsNextRow
<1>10. y <= p
  BY <1>4, <1>8
<1> QED
  BY <1>9, <1>10, ProductsAssumption

(* README.md:159, for the checkouts among themselves: transactions that    *)
(* lock stock rows in ascending order, then a usage, then a campaign never *)
(* wait for each other in a circle, however many there are.                *)
THEOREM DeadlockFree == Spec => []NoWaitCycle
  BY Invariance, LocksAcyclic, PTL
-----------------------------------------------------------------------------
(* The invariant beside other handlers that write orders, payments and     *)
(* stock: what it says of a checkout without the types of the stock.       *)

(* Who is answered with an order is done.                                  *)
Replied == \A r \in Requests : reply[r] \in Requests => pc[r] = "done"

Core == Typed /\ LockDiscipline /\ UncommittedIsFresh /\ Promotions /\ Replies /\ Replied

(* At the start.                                                           *)
LEMMA InitCore == Init => Core
<1> SUFFICES ASSUME Init PROVE Core
  OBVIOUS
<1>1. Replied
  BY DEF Init, Replied
<1> QED
  BY <1>1, TypeOKSplits, InitTypeOK, InitLockDiscipline, InitFresh, InitPromotions, InitReplies
     DEF Core

(* A handler that is done takes no further step, so its answer stays.      *)
LEMMA HandlerReplies ==
  ASSUME Typed, Replied, NEW r \in Requests, Progress(r) \/ Fault(r) \/ (RollBack(r) /\ pc[r] \in InTx)
  PROVE  /\ Replied'
         /\ \A q \in Requests : reply[q] \in Requests => reply'[q] = reply[q]
<1>1. pc[r] # "done"
  BY DEF Progress, Fault, FindClaimed, Replay, FindFree, Claim, ReadCart, RefuseCart, LockRow,
         Validate, RefuseStock, CheckPromo, RefusePromo, InsertUsage, DuplicateUsage, CountUsage,
         Commit, InsertPayment, Intention, LinkPayment, CacheReply, Release, Abort, PaymentFails,
         GatewayFails, Crash, RedisFails, InTx, Ended
<1>2. \E l : Goto(r, l) /\ (UNCHANGED reply \/ (l = "done" /\ \E a : reply' = [reply EXCEPT ![r] = a]))
  <2>1. ASSUME RollBack(r) \/ Crash(r) \/ Commit(r)
        PROVE  \E l : Goto(r, l) /\ UNCHANGED reply
    BY <2>1 DEF RollBack, Crash, Commit, EndTx
  <2>2. CASE FindClaimed(r) \/ Replay(r) \/ CacheReply(r) \/ Release(r) \/ RedisFails(r)
    BY <2>2 DEF FindClaimed, Replay, CacheReply, Release, RedisFails, Answer
  <2>3. CASE \/ FindFree(r) \/ Claim(r) \/ ReadCart(r) \/ (\E p \in Products : LockRow(r, p))
             \/ Validate(r) \/ CheckPromo(r) \/ InsertUsage(r) \/ UsageCounts(r)
             \/ InsertPayment(r) \/ Intention(r) \/ LinkPayment(r) \/ PaymentFails(r)
             \/ GatewayFails(r)
    BY <2>3 DEF FindFree, Claim, ReadCart, LockRow, Validate, CheckPromo, InsertUsage,
           UsageCounts, InsertPayment, Intention, LinkPayment, PaymentFails, GatewayFails
  <2>4. CASE \/ RefuseCart(r) \/ RefuseStock(r) \/ RefusePromo(r) \/ DuplicateUsage(r)
             \/ LimitReached(r) \/ Abort(r)
    BY <2>1, <2>4 DEF RefuseCart, RefuseStock, RefusePromo, DuplicateUsage, LimitReached, Abort
  <2> QED
    BY <2>1, <2>2, <2>3, <2>4, CountUsageCases DEF Progress, Fault
<1> QED
  BY <1>1, <1>2 DEF Goto, Typed, Replied

(* A rollback from any statement of the transaction keeps it.              *)
LEMMA RollBackCore ==
  ASSUME Core, NEW r \in Requests, RollBack(r), pc[r] \in InTx
  PROVE  Core'
<1>1. EndTx(r, "release") /\ Goto(r, "release")
      /\ UNCHANGED <<placed, orderItems, used, usages, payment, redis, reply>>
  BY DEF RollBack, EndTx, orders
<1>2. Typed' /\ LockDiscipline' /\ UncommittedIsFresh'
  BY <1>1, RollBackType, LockRollBack, FreshEnd DEF Core
<1>3. Promotions'
  BY <1>1, PromotionsFrame DEF Core
<1>4. Replies'
  BY <1>1, RepliesFrame DEF Core, InTx
<1> QED
  BY <1>2, <1>3, <1>4, HandlerReplies DEF Core

(* Every step of Checkout keeps it.                                        *)
LEMMA NextCore == Core /\ [Next]_vars => Core'
<1> SUFFICES ASSUME Core, [Next]_vars PROVE Core'
  OBVIOUS
<1>1. Replied'
  <2>1. CASE Environment \/ UNCHANGED vars
    BY <2>1 DEF Environment, Expire, ChangeCart, SetStock, RemoveProduct, SwitchCampaign, vars,
           Core, Replied
  <2>2. ASSUME NEW r \in Requests, Progress(r) \/ Fault(r) PROVE Replied'
    BY <2>2, HandlerReplies DEF Core
  <2> QED
    BY <2>1, <2>2 DEF Next
<1> QED
  BY <1>1, NextTyped, NextLockDiscipline, NextFresh, NextPromotions, NextReplies DEF Core

(* A step of somebody else that leaves the rows the checkouts have locked  *)
(* alone, and links no payment that a checkout has still to make.          *)
LEMMA ElsewhereCore ==
  ASSUME Core, Typed',
         UNCHANGED <<items, seen, pc, placed, orderItems, used, usages, redis, reply>>,
         \A p \in Products : /\ stockLock[p] \in Requests =>
                                    stock'[p] = stock[p] /\ stockLock'[p] = stockLock[p]
                             /\ stockLock'[p] \in Requests => stockLock'[p] = stockLock[p],
         \A r \in Requests : /\ payment[r] = "linked" => payment'[r] = "linked"
                             /\ pc[r] \in Unpaid => payment'[r] # "linked"
  PROVE  Core'
<1>1. LockDiscipline'
  BY LockElsewhere DEF Core
<1>2. UncommittedIsFresh'
  BY DEF Core, UncommittedIsFresh, Wanted, NoItems
<1>3. Promotions'
  <2>1. \A q \in Requests : /\ WithPromo(q)' = WithPromo(q)
                            /\ UsageInserted(q)' = UsageInserted(q)
                            /\ PromoCounted(q)' = PromoCounted(q)
    BY DEF WithPromo, UsageInserted, PromoCounted
  <2>2. PromotionsHeld'
    BY <2>1 DEF Core, Promotions, PromotionsHeld
  <2>3. CampaignCapped' /\ OneUsePerUser' /\ IsFiniteSet(usages)'
    BY DEF Core, Promotions, CampaignCapped, OneUsePerUser, UsagesOf
  <2> QED
    BY <2>2, <2>3 DEF Promotions
<1>4. Replies'
  <2>1. \A r \in Requests : Settled(r) => Settled(r)'
    BY DEF Settled
  <2>2. AnswerIsOwn'
    <3> SUFFICES ASSUME NEW q \in Requests, reply[q] \in Requests
                 PROVE  /\ UserOf[reply[q]] = UserOf[q] /\ KeyOf[reply[q]] = KeyOf[q]
                        /\ Settled(reply[q])'
      BY DEF AnswerIsOwn, Settled
    <3>1. /\ UserOf[reply[q]] = UserOf[q] /\ KeyOf[reply[q]] = KeyOf[q]
          /\ Settled(reply[q])
      BY DEF Core, Replies, AnswerIsOwn, Settled
    <3> QED
      BY <3>1 DEF Settled
  <2>3. \A k \in Users \X Keys : redis[k] \in Requests =>
          CacheKey(redis[k]) = k /\ Settled(redis[k])'
    <3> SUFFICES ASSUME NEW k \in Users \X Keys, redis[k] \in Requests
                 PROVE  CacheKey(redis[k]) = k /\ Settled(redis[k])'
      OBVIOUS
    <3>1. CacheKey(redis[k]) = k /\ Settled(redis[k])
      BY DEF Core, Replies
    <3> QED
      BY <3>1 DEF Settled
  <2>4. \A r \in Requests :
          /\ pc'[r] \in {"pay", "gateway", "link"} => r \in placed'
          /\ pc'[r] = "cache" => Settled(r)'
          /\ pc'[r] \in Unpaid => payment'[r] # "linked"
    BY <2>1 DEF Core, Replies
  <2> QED
    BY <2>2, <2>3, <2>4 DEF Replies, CacheKey, Settled
<1>5. Replied'
  BY DEF Core, Replied
<1> QED
  BY <1>1, <1>2, <1>3, <1>4, <1>5 DEF Core

(* A handler takes only free rows and gives up only its own.               *)
LEMMA HandlerLocks ==
  ASSUME Typed, NEW r \in Requests, Progress(r) \/ Fault(r) \/ RollBack(r), NEW p \in Products
  PROVE  \/ stockLock'[p] = stockLock[p]
         \/ stockLock[p] = NoTx /\ stockLock'[p] = r
         \/ stockLock[p] = r /\ stockLock'[p] = NoTx
<1>1. ASSUME RollBack(r) \/ Crash(r) \/ Commit(r)
      PROVE  stockLock'[p] = IF stockLock[p] = r THEN NoTx ELSE stockLock[p]
  BY <1>1 DEF RollBack, Crash, Commit, EndTx, Unlocked
<1>2. ASSUME NEW q \in Products, LockRow(r, q)
      PROVE  stockLock'[p] = stockLock[p] \/ (stockLock[p] = NoTx /\ stockLock'[p] = r)
  BY <1>2 DEF LockRow, RowFree, Typed
<1>3. CASE \/ FindClaimed(r) \/ Replay(r) \/ FindFree(r) \/ Claim(r) \/ ReadCart(r)
           \/ Validate(r) \/ CheckPromo(r) \/ InsertUsage(r) \/ UsageCounts(r)
           \/ InsertPayment(r) \/ Intention(r) \/ LinkPayment(r) \/ PaymentFails(r)
           \/ CacheReply(r) \/ Release(r) \/ GatewayFails(r) \/ RedisFails(r)
  BY <1>3 DEF FindClaimed, Replay, FindFree, Claim, ReadCart, Validate, CheckPromo, InsertUsage,
         UsageCounts, InsertPayment, Intention, LinkPayment, PaymentFails, CacheReply, Release,
         GatewayFails, RedisFails, tx
<1>4. CASE \/ RefuseCart(r) \/ RefuseStock(r) \/ RefusePromo(r) \/ DuplicateUsage(r)
           \/ LimitReached(r) \/ Abort(r)
  BY <1>1, <1>4 DEF RefuseCart, RefuseStock, RefusePromo, DuplicateUsage, LimitReached, Abort
<1> QED
  BY <1>1, <1>2, <1>3, <1>4, CountUsageCases DEF Progress, Fault
=============================================================================
