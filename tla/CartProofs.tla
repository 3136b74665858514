----------------------------- MODULE CartProofs -----------------------------
(***************************************************************************)
(* Lemmas about Cart for every set of users, products and requests.        *)
(***************************************************************************)
EXTENDS Cart, SumTheorems

(* What the assumptions say of each request.                               *)
LEMMA CartFacts ==
  ASSUME CartAssumption
  PROVE  /\ \A r \in Requests : CartOf[r] \in Users
         /\ \A r \in Adds : /\ r \in Requests /\ ProductOf[r] \in Products /\ QuantityOf[r] \in Nat
                            /\ r \notin Removes /\ r \notin Updates
                            /\ r \notin Clears /\ r \notin Orderings
         /\ \A r \in Removes : /\ r \in Requests /\ ProductOf[r] \in Products
                               /\ r \notin Adds /\ r \notin Updates
                               /\ r \notin Clears /\ r \notin Orderings
         /\ \A r \in Updates : /\ r \in Requests /\ ProductOf[r] \in Products
                               /\ QuantityOf[r] \in Nat /\ MovesTo[r] \in Products
                               /\ r \notin Adds /\ r \notin Removes
                               /\ r \notin Clears /\ r \notin Orderings
         /\ \A r \in Clears \cup Orderings :
                r \in Requests /\ r \notin Adds /\ r \notin Removes /\ r \notin Updates
         /\ NoRow \notin Rows
  BY DEF CartAssumption, Requests

(* Each kind of request has its own places, and is answered at the last.   *)
Places ==
    /\ \A r \in Adds : at[r] \in {"start", "cart", "find", "insert", "restore", "increment", "done"}
    /\ \A r \in Removes : at[r] \in {"start", "decrement", "done"}
    /\ \A r \in Updates : at[r] \in {"start", "update", "done"}
    /\ \A r \in Clears \cup Orderings : at[r] \in {"start", "done"}
    /\ \A r \in Requests : outcome[r] # "none" => at[r] = "done"

(* Items are in carts, and an addition that has found its cart, or has     *)
(* failed once, has one.                                                   *)
CartFirst ==
    /\ \A u \in Users, p \in Products : item[u][p] # NoRow => u \in carts
    /\ \A r \in Adds : at[r] \in {"find", "insert", "restore", "increment"} \/ tries[r] = 2 =>
           CartOf[r] \in carts

Added(u, p) == {r \in About(Adds, u, p) : outcome[r] = "added"}
Removed(u, p) == {r \in About(Removes, u, p) : outcome[r] = "removed"}
Pieces(row) == IF row = NoRow THEN 0 ELSE row.quantity

(* QuantityAccounts, and of a row that is not there too.                   *)
QuantityRight ==
    \A u \in Users, p \in Products : ~ Overwritten(u) =>
        Pieces(item[u][p]) =
            SumFunctionOnSet(QuantityOf, Added(u, p)) - Cardinality(Removed(u, p))

(* The requests that may overtake an addition.                             *)
Rivals(r) == {s \in Adds \cup Moves : s # r /\ CartOf[s] = CartOf[r]}
Alone(r) == \A s, t \in Rivals(r) : s = t

(* What an addition was not the first to write was written by a rival, who *)
(* is done with it.                                                        *)
Overtaken ==
    \A r \in Adds :
        \/ at[r] = "cart" /\ CartOf[r] \in carts
        \/ at[r] = "insert" /\ Row(r) # NoRow
        \/ tries[r] = 2
        => \E s \in Rivals(r) : at[s] = "done"

(* The second attempt finds the cart; and with one rival only, the row it  *)
(* is about to insert stays free.                                          *)
SecondTry ==
    \A r \in Adds :
        /\ tries[r] = 2 => at[r] # "cart"
        /\ tries[r] = 2 /\ at[r] = "insert" /\ Alone(r) => Row(r) = NoRow
        /\ outcome[r] = "conflict" => ~ Alone(r)

CartInv == TypeOK /\ Places /\ CartFirst /\ QuantityRight /\ Overtaken /\ SecondTry

(* Which requests take which steps.                                        *)
LEMMA StepOf ==
  ASSUME CartAssumption, Places, NEW r \in Requests
  PROVE  /\ FindCart(r) \/ CreateCart(r) \/ FindItem(r) \/ CreateItem(r) \/ AlreadyThere(r)
            \/ NoSuchProduct(r) \/ RestoreItem(r) \/ IncrementItem(r) => r \in Adds
         /\ ReadQuantity(r) \/ Decrement(r) => r \in Removes
         /\ CheckItem(r) \/ UpdateItem(r) => r \in Updates
         /\ NotFound(r) => r \in Adds \cup Removes \cup Updates
         /\ ClearCart(r) => r \in Clears
         /\ NoCart(r) => r \in Clears \cup Orderings
         /\ OrderCart(r) => r \in Orderings
  BY DEF Places, Requests, FindCart, CreateCart, FindItem, CreateItem, AlreadyThere,
     NoSuchProduct, RestoreItem, IncrementItem, ReadQuantity, Decrement, CheckItem, UpdateItem,
     NotFound, ClearCart, NoCart, OrderCart

(* A new row, and one that a request changes, is a row.                    *)
LEMMA RowTypes ==
  ASSUME CartAssumption, TypeOK
  PROVE  /\ \A r \in Adds \cup Removes \cup Updates : Row(r) \in Rows \cup {NoRow}
         /\ \A r \in Adds : NewRow(r) \in Rows
         /\ \A r \in Adds : Row(r) # NoRow => Incremented(r) \in Rows
         /\ \A r \in Removes : Row(r) # NoRow =>
                [quantity |-> Row(r).quantity - 1, isDeleted |-> Row(r).isDeleted \/ LastOne(r)]
                    \in Rows
         /\ \A r \in Updates : Row(r) # NoRow => [Row(r) EXCEPT !.quantity = QuantityOf[r]] \in Rows
         /\ \A u \in Users, p \in Products : Emptied(item[u][p]) \in Rows \cup {NoRow}
<1>1. \A r \in Adds \cup Removes \cup Updates : Row(r) \in Rows \cup {NoRow}
  BY CartFacts DEF Row, TypeOK
<1>2. \A r \in Adds : NewRow(r) \in Rows
  BY CartFacts DEF NewRow, Rows
<1>3. \A r \in Adds : Row(r) # NoRow => Incremented(r) \in Rows
  BY <1>1, CartFacts DEF Incremented, Rows
<1>4. \A r \in Removes : Row(r) # NoRow =>
          [quantity |-> Row(r).quantity - 1, isDeleted |-> Row(r).isDeleted \/ LastOne(r)]
              \in Rows
  <2> SUFFICES ASSUME NEW r \in Removes, Row(r) # NoRow
               PROVE  /\ Row(r).quantity - 1 \in Int
                      /\ (Row(r).isDeleted \/ LastOne(r)) \in BOOLEAN
    BY DEF Rows
  <2>1. Row(r).quantity \in Int /\ Row(r).isDeleted \in BOOLEAN
    BY <1>1 DEF Rows
  <2> QED
    BY <2>1
<1>5. \A r \in Updates : Row(r) # NoRow => [Row(r) EXCEPT !.quantity = QuantityOf[r]] \in Rows
  BY <1>1, CartFacts DEF Rows
<1>6. \A u \in Users, p \in Products : Emptied(item[u][p]) \in Rows \cup {NoRow}
  BY DEF Emptied, Rows
<1> QED
  BY <1>1, <1>2, <1>3, <1>4, <1>5, <1>6

(* A step moves one request, which was not done, within its kind.          *)
LEMMA NextPlaces ==
  ASSUME CartAssumption, TypeOK, Places, NEW r \in Requests, CartProgress(r)
  PROVE  /\ Places' /\ at' \in [Requests -> {"start", "cart", "find", "insert", "restore",
                                           "increment", "decrement", "update", "done"}]
         /\ outcome' \in [Requests -> {"none", "added", "restored", "removed", "updated",
                                        "cleared", "ordered", "conflict", "failed"}]
         /\ at[r] # "done" /\ outcome[r] = "none"
         /\ r \notin Adds => at'[r] # "start"
         /\ \A q \in Requests : q # r => at'[q] = at[q] /\ outcome'[q] = outcome[q]
<1> DEFINE Good == /\ at' = [at EXCEPT ![r] = at'[r]]
                   /\ outcome' = [outcome EXCEPT ![r] = outcome'[r]]
                   /\ at[r] # "done"
                   /\ outcome'[r] # "none" => at'[r] = "done"
                   /\ outcome'[r] \in {"none", "added", "restored", "removed", "updated",
                                       "cleared", "ordered", "conflict", "failed"}
                   /\ r \in Adds => at'[r] \in {"start", "cart", "find", "insert", "restore",
                                               "increment", "done"}
                   /\ r \in Removes => at'[r] \in {"decrement", "done"}
                   /\ r \in Updates => at'[r] \in {"update", "done"}
                   /\ r \in Clears \cup Orderings => at'[r] = "done"
<1>0. outcome[r] # "none" => at[r] = "done"
  BY DEF Places
<1>1. FindCart(r) => Good
  BY <1>0, StepOf, CartFacts DEF FindCart, Go, Done, TypeOK
<1>2. CreateCart(r) => Good
  BY <1>0, StepOf, CartFacts DEF CreateCart, Go, Done, TypeOK
<1>3. FindItem(r) => Good
  <2> SUFFICES ASSUME FindItem(r) PROVE Good
    OBVIOUS
  <2>1. r \in Adds
    BY StepOf
  <2>2. PICK l \in {"insert", "restore", "increment"} : Go(r, l)
    BY DEF FindItem
  <2> QED
    BY <1>0, <2>1, <2>2, CartFacts DEF FindItem, Go, TypeOK
<1>4. CreateItem(r) => Good
  BY <1>0, StepOf, CartFacts DEF CreateItem, Go, Done, TypeOK
<1>5. AlreadyThere(r) => Good
  BY <1>0, StepOf, CartFacts DEF AlreadyThere, Go, Done, Retry, TypeOK
<1>6. NoSuchProduct(r) => Good
  BY <1>0, StepOf, CartFacts DEF NoSuchProduct, Go, Done, TypeOK
<1>7. RestoreItem(r) => Good
  BY <1>0, StepOf, CartFacts DEF RestoreItem, Go, Done, TypeOK
<1>8. IncrementItem(r) => Good
  BY <1>0, StepOf, CartFacts DEF IncrementItem, Go, Done, TypeOK
<1>9. ReadQuantity(r) => Good
  BY <1>0, StepOf, CartFacts DEF ReadQuantity, Go, Done, TypeOK
<1>10. Decrement(r) => Good
  BY <1>0, StepOf, CartFacts DEF Decrement, Go, Done, TypeOK
<1>11. CheckItem(r) => Good
  BY <1>0, StepOf, CartFacts DEF CheckItem, Go, Done, TypeOK
<1>12. UpdateItem(r) => Good
  BY <1>0, StepOf, CartFacts DEF UpdateItem, Go, Done, TypeOK
<1>13. NotFound(r) => Good
  BY <1>0, StepOf, CartFacts DEF NotFound, Go, Done, TypeOK
<1>14. ClearCart(r) => Good
  BY <1>0, StepOf, CartFacts DEF ClearCart, Go, Done, TypeOK
<1>15. NoCart(r) => Good
  BY <1>0, StepOf, CartFacts DEF NoCart, Go, Done, TypeOK
<1>16. OrderCart(r) => Good
  BY <1>0, StepOf, CartFacts DEF OrderCart, Go, Done, TypeOK
<1> HIDE DEF Good
<1>17. Good
  BY <1>1, <1>2, <1>3, <1>4, <1>5, <1>6, <1>7, <1>8, <1>9, <1>10, <1>11, <1>12, <1>13, <1>14, <1>15, <1>16 DEF CartProgress
<1>18. at[r] # "done" /\ outcome[r] = "none"
  BY <1>0, <1>17 DEF Good
<1>19. \A q \in Requests : q # r => at'[q] = at[q] /\ outcome'[q] = outcome[q]
  BY <1>17 DEF Good, TypeOK
<1>20. at' \in [Requests -> {"start", "cart", "find", "insert", "restore",
                            "increment", "decrement", "update", "done"}]
  <2>1. at'[r] \in {"start", "cart", "find", "insert", "restore",
                    "increment", "decrement", "update", "done"}
    BY <1>17 DEF Good, Requests
  <2> QED
    BY <1>17, <2>1 DEF Good, TypeOK
<1>21. outcome' \in [Requests -> {"none", "added", "restored", "removed", "updated",
                                 "cleared", "ordered", "conflict", "failed"}]
  BY <1>17 DEF Good, TypeOK
<1>22. Places'
  BY <1>17, <1>19, CartFacts DEF Good, Places
<1>23. r \notin Adds => at'[r] # "start"
  BY <1>17 DEF Good, Requests
<1> QED
  BY <1>23, <1>18, <1>19, <1>20, <1>21, <1>22

(* Every step keeps the types.                                             *)
LEMMA NextTypes ==
  ASSUME CartAssumption, CartInv, NEW r \in Requests, CartProgress(r)
  PROVE  TypeOK'
<1>1. TypeOK /\ Places
  BY DEF CartInv
<1>2. /\ at' \in [Requests -> {"start", "cart", "find", "insert", "restore", "increment",
                               "decrement", "update", "done"}]
      /\ outcome' \in [Requests -> {"none", "added", "restored", "removed", "updated",
                                    "cleared", "ordered", "conflict", "failed"}]
  BY <1>1, NextPlaces
<1>3. carts' \subseteq Users
  BY <1>1, CartFacts DEF CartProgress, FindCart, CreateCart, FindItem, CreateItem, AlreadyThere,
     NoSuchProduct, RestoreItem, IncrementItem, ReadQuantity, Decrement, CheckItem, UpdateItem,
     NotFound, ClearCart, NoCart, OrderCart, TypeOK
<1>4. tries' \in [Adds -> {1, 2}]
  BY <1>1, CartFacts DEF CartProgress, FindCart, CreateCart, FindItem, CreateItem, AlreadyThere,
     Retry, NoSuchProduct, RestoreItem, IncrementItem, ReadQuantity, Decrement, CheckItem,
     UpdateItem, NotFound, ClearCart, NoCart, OrderCart, TypeOK
<1>5. seen' \in [Removes -> Rows \cup {NoRow}]
  <2>1. CASE ReadQuantity(r)
    BY <1>1, <2>1, RowTypes DEF ReadQuantity, TypeOK
  <2>2. CASE ~ ReadQuantity(r)
    BY <1>1, <2>2 DEF CartProgress, FindCart, CreateCart, FindItem, CreateItem, AlreadyThere,
       NoSuchProduct, RestoreItem, IncrementItem, Decrement, CheckItem,
       UpdateItem, NotFound, ClearCart, NoCart, OrderCart, TypeOK
  <2> QED
    BY <2>1, <2>2
<1>6. item' \in [Users -> [Products -> Rows \cup {NoRow}]]
  <2>1. CASE UNCHANGED item
    BY <1>1, <2>1 DEF TypeOK
  <2>2. ASSUME NEW row \in Rows, r \in Adds \cup Removes, Put(r, row)
        PROVE  item' \in [Users -> [Products -> Rows \cup {NoRow}]]
    BY <1>1, <2>2, CartFacts DEF Put, TypeOK
  <2>3. CreateCart(r) \/ CreateItem(r) \/ RestoreItem(r) =>
            r \in Adds /\ NewRow(r) \in Rows /\ Put(r, NewRow(r))
    BY <1>1, StepOf, RowTypes DEF CreateCart, CreateItem, RestoreItem
  <2>4. IncrementItem(r) => r \in Adds /\ Incremented(r) \in Rows /\ Put(r, Incremented(r))
    BY <1>1, StepOf, RowTypes DEF IncrementItem
  <2>5. Decrement(r) => r \in Removes /\ \E row \in Rows : Put(r, row)
    BY <1>1, StepOf, RowTypes DEF Decrement
  <2>6. ASSUME UpdateItem(r) PROVE item' \in [Users -> [Products -> Rows \cup {NoRow}]]
    <3>1. r \in Updates
      BY <1>1, <2>6, StepOf
    <3>2. Updated(r) \in Rows
      BY <1>1, <2>6, <3>1, RowTypes DEF UpdateItem, Updated, TypeOK, Row
    <3> DEFINE new == [item[CartOf[r]] EXCEPT ![ProductOf[r]] = NoRow,
                                              ![MovesTo[r]] = Updated(r)]
    <3>3. item[CartOf[r]] \in [Products -> Rows \cup {NoRow}]
      BY <1>1, CartFacts DEF TypeOK
    <3>4. new \in [Products -> Rows \cup {NoRow}]
      BY <3>1, <3>2, <3>3, CartFacts
    <3>5. item' = [item EXCEPT ![CartOf[r]] = new]
      BY <2>6 DEF UpdateItem
    <3> HIDE DEF new
    <3> QED
      BY <1>1, <3>4, <3>5 DEF TypeOK
  <2>7. ASSUME ClearCart(r) \/ OrderCart(r)
        PROVE  item' \in [Users -> [Products -> Rows \cup {NoRow}]]
    <3>1. \E new \in [Products -> Rows \cup {NoRow}] : item' = [item EXCEPT ![CartOf[r]] = new]
      <4>1. CASE ClearCart(r)
        <5> DEFINE new == [p \in Products |-> Emptied(item[CartOf[r]][p])]
        <5>1. new \in [Products -> Rows \cup {NoRow}]
          BY <1>1, RowTypes, CartFacts
        <5> QED
          BY <4>1, <5>1 DEF ClearCart
      <4>2. CASE OrderCart(r)
        <5> DEFINE row(p) == item[CartOf[r]][p]
                   new == [p \in Products |-> IF Active(row(p)) THEN Emptied(row(p)) ELSE row(p)]
        <5>1. \A p \in Products : row(p) \in Rows \cup {NoRow}
          BY <1>1, CartFacts DEF TypeOK
        <5>2. new \in [Products -> Rows \cup {NoRow}]
          BY <1>1, <5>1, RowTypes, CartFacts
        <5> QED
          BY <4>2, <5>2 DEF OrderCart
      <4> QED
        BY <2>7, <4>1, <4>2
    <3> QED
      BY <1>1, <3>1 DEF TypeOK
  <2> QED
    BY <2>1, <2>2, <2>3, <2>4, <2>5, <2>6, <2>7
    DEF CartProgress, FindCart, FindItem, AlreadyThere, NoSuchProduct, ReadQuantity, CheckItem,
        NotFound, NoCart
<1> QED
  BY <1>2, <1>3, <1>4, <1>5, <1>6 DEF TypeOK

(* How an addition comes to each place.                                    *)
LEMMA AddStep ==
  ASSUME CartAssumption, CartInv, NEW r \in Requests, CartProgress(r), NEW q \in Adds
  PROVE  /\ tries'[q] = 2 => tries[q] = 2 \/ AlreadyThere(q)
         /\ at'[q] = "cart" => at[q] = "cart" \/ (FindCart(q) /\ CartOf[q] \notin carts)
         /\ at'[q] = "find" => at[q] = "find" \/ (FindCart(q) /\ CartOf[q] \in carts)
         /\ at'[q] \in {"insert", "restore", "increment"} =>
                at'[q] = at[q] \/ (FindItem(q) /\ UNCHANGED item)
         /\ at'[q] = "insert" => at[q] = "insert" \/ (FindItem(q) /\ Row(q) = NoRow)
         /\ outcome'[q] = "conflict" =>
                outcome[q] = "conflict" \/ (AlreadyThere(q) /\ tries[q] = 2)
<1>1. TypeOK /\ Places
  BY DEF CartInv
<1>2. CASE q # r
  <2>1. at'[q] = at[q] /\ outcome'[q] = outcome[q]
    BY <1>1, <1>2, NextPlaces, CartFacts
  <2>2. tries'[q] = tries[q]
    BY <1>1, <1>2 DEF CartProgress, FindCart, CreateCart, FindItem, CreateItem, AlreadyThere,
     Retry, NoSuchProduct, RestoreItem, IncrementItem, ReadQuantity, Decrement, CheckItem,
     UpdateItem, NotFound, ClearCart, NoCart, OrderCart, TypeOK
  <2> QED
    BY <2>1, <2>2
<1>3. CASE q = r
  <2>1. q \notin Removes /\ q \notin Updates /\ q \notin Clears /\ q \notin Orderings
    BY CartFacts
  <2>2. \/ FindCart(q) \/ CreateCart(q) \/ FindItem(q) \/ CreateItem(q)
        \/ AlreadyThere(q) \/ NoSuchProduct(q) \/ RestoreItem(q) \/ IncrementItem(q) \/ NotFound(q)
    BY <1>1, <1>3, <2>1, StepOf DEF CartProgress
  <2>3. FindCart(q) => /\ UNCHANGED <<tries, outcome>>
                       /\ at'[q] = IF CartOf[q] \in carts THEN "find" ELSE "cart"
    BY <1>1, CartFacts DEF FindCart, Go, TypeOK
  <2>4. FindItem(q) => /\ UNCHANGED <<item, tries, outcome>>
                       /\ at'[q] \in {"insert", "restore", "increment"}
                       /\ at'[q] = "insert" => Row(q) = NoRow
    BY <1>1, CartFacts DEF FindItem, Go, TypeOK
  <2>5. AlreadyThere(q) => /\ at'[q] \in {"start", "done"}
                           /\ outcome'[q] = "conflict" => outcome[q] = "conflict" \/ tries[q] # 1
    BY <1>1, CartFacts DEF AlreadyThere, Retry, Go, Done, TypeOK
  <2>6. tries[q] \in {1, 2}
    BY <1>1 DEF TypeOK
  <2>7. CreateCart(q) \/ CreateItem(q) \/ NoSuchProduct(q) \/ RestoreItem(q) \/ IncrementItem(q)
        \/ NotFound(q) =>
            UNCHANGED tries /\ at'[q] = "done" /\ outcome'[q] # "conflict"
    BY <1>1, CartFacts DEF CreateCart, CreateItem, NoSuchProduct, RestoreItem, IncrementItem,
       NotFound, Go, Done, TypeOK
  <2> QED
    BY <2>2, <2>3, <2>4, <2>5, <2>6, <2>7
<1> QED
  BY <1>2, <1>3

(* How a row that is not there comes to be.                                *)
LEMMA NewItem ==
  ASSUME CartAssumption, CartInv, NEW r \in Requests, CartProgress(r),
         NEW u \in Users, NEW p \in Products, item[u][p] = NoRow, item'[u][p] # NoRow
  PROVE  /\ u = CartOf[r]
         /\ \/ CreateCart(r) /\ p = ProductOf[r]
            \/ CreateItem(r) /\ p = ProductOf[r]
            \/ UpdateItem(r) /\ p = MovesTo[r] /\ r \in Moves
<1>1. TypeOK /\ Places
  BY DEF CartInv
<1>2. ASSUME NEW row, r \in Adds \cup Removes, Put(r, row)
      PROVE  u = CartOf[r] /\ p = ProductOf[r]
  BY <1>1, <1>2, CartFacts DEF Put, TypeOK
<1>3. ASSUME RestoreItem(r) \/ IncrementItem(r) \/ Decrement(r) PROVE FALSE
  <2>1. r \in Adds \cup Removes
    BY <1>1, <1>3, StepOf
  <2>2. Row(r) # NoRow /\ \E row : Put(r, row)
    BY <1>3 DEF RestoreItem, IncrementItem, Decrement
  <2> QED
    BY <1>2, <2>1, <2>2 DEF Row
<1>4. CASE CreateCart(r) \/ CreateItem(r)
  <2>1. r \in Adds /\ \E row : Put(r, row)
    BY <1>1, <1>4, StepOf DEF CreateCart, CreateItem
  <2> QED
    BY <1>2, <1>4, <2>1
<1>5. CASE UpdateItem(r)
  <2>1. r \in Updates /\ Row(r) # NoRow
    BY <1>1, <1>5, StepOf DEF UpdateItem
  <2> DEFINE new == [item[CartOf[r]] EXCEPT ![ProductOf[r]] = NoRow,
                                            ![MovesTo[r]] = Updated(r)]
  <2>2. item' = [item EXCEPT ![CartOf[r]] = new]
    BY <1>5 DEF UpdateItem
  <2>3. u = CartOf[r] /\ new[p] # item[u][p]
    BY <1>1, <2>2, CartFacts DEF TypeOK
  <2>4. p \in {ProductOf[r], MovesTo[r]} /\ new[p] # NoRow
    <3>1. item[u] \in [Products -> Rows \cup {NoRow}]
      BY <1>1 DEF TypeOK
    <3> QED
      BY <2>3, <3>1
  <2>5. p = MovesTo[r]
    <3>1. item[u] \in [Products -> Rows \cup {NoRow}]
      BY <1>1 DEF TypeOK
    <3> QED
      BY <2>1, <2>3, <2>4, <3>1, CartFacts
  <2>6. p # ProductOf[r]
    BY <2>1, <2>3 DEF Row
  <2> QED
    BY <1>5, <2>1, <2>3, <2>5, <2>6 DEF Moves
<1>6. ASSUME ClearCart(r) PROVE FALSE
  BY <1>1, <1>6, CartFacts DEF ClearCart, Emptied, TypeOK
<1>7. ASSUME OrderCart(r) PROVE FALSE
  BY <1>1, <1>7, CartFacts DEF OrderCart, Active, TypeOK
<1> QED
  BY <1>3, <1>4, <1>5, <1>6, <1>7
  DEF CartProgress, FindCart, FindItem, AlreadyThere, NoSuchProduct, ReadQuantity, CheckItem,
      NotFound, NoCart

(* Carts are never deleted.                                                *)
LEMMA CartsStay ==
  ASSUME NEW r \in Requests, CartProgress(r)
  PROVE  carts \subseteq carts'
  BY DEF CartProgress, FindCart, CreateCart, FindItem, CreateItem, AlreadyThere,
     NoSuchProduct, RestoreItem, IncrementItem, ReadQuantity, Decrement, CheckItem, UpdateItem,
     NotFound, ClearCart, NoCart, OrderCart

(* An item's cart comes first.                                             *)
LEMMA NextCartFirst ==
  ASSUME CartAssumption, CartInv, NEW r \in Requests, CartProgress(r)
  PROVE  CartFirst'
<1>1. TypeOK /\ Places /\ CartFirst
  BY DEF CartInv
<1>2. ASSUME NEW u \in Users, NEW p \in Products, item'[u][p] # NoRow PROVE u \in carts'
  <2>1. CASE item[u][p] # NoRow
    BY <1>1, <2>1, CartsStay DEF CartFirst
  <2>2. CASE item[u][p] = NoRow
    <3>1. u = CartOf[r] /\ (CreateCart(r) \/ CreateItem(r) \/ UpdateItem(r))
      BY <1>2, <2>2, NewItem
    <3>2. CreateCart(r) => u \in carts'
      BY <3>1 DEF CreateCart
    <3>3. CreateItem(r) => u \in carts
      BY <1>1, <3>1, StepOf DEF CreateItem, CartFirst
    <3>4. UpdateItem(r) => u \in carts
      BY <1>1, <3>1, StepOf, CartFacts DEF UpdateItem, Row, CartFirst
    <3> QED
      BY <3>1, <3>2, <3>3, <3>4, CartsStay
  <2> QED
    BY <2>1, <2>2
<1>3. ASSUME NEW q \in Adds,
             at'[q] \in {"find", "insert", "restore", "increment"} \/ tries'[q] = 2
      PROVE  CartOf[q] \in carts'
  <2>1. \/ at[q] \in {"find", "insert", "restore", "increment"} \/ tries[q] = 2
        \/ CartOf[q] \in carts
        \/ FindItem(q) \/ AlreadyThere(q)
    BY <1>3, AddStep
  <2>2. FindItem(q) => at[q] = "find"
    BY DEF FindItem
  <2>3. AlreadyThere(q) => at[q] = "insert" \/ CartOf[q] \in carts
    BY DEF AlreadyThere
  <2> QED
    BY <1>1, <2>1, <2>2, <2>3, CartsStay DEF CartFirst
<1> QED
  BY <1>2, <1>3 DEF CartFirst

(* Who is overtaken has a rival that is done.                              *)
LEMMA NextOvertaken ==
  ASSUME CartAssumption, CartInv, NEW r \in Requests, CartProgress(r)
  PROVE  Overtaken'
<1>1. TypeOK /\ Places /\ Overtaken
  BY DEF CartInv
<1>2. \A s \in Requests : at[s] = "done" => at'[s] = "done"
  BY <1>1, NextPlaces
<1>3. \A q \in Adds : \A s \in Rivals(q) : s \in Requests
  BY CartFacts DEF Rivals, Moves
<1>4. ASSUME NEW q \in Adds,
             \/ at'[q] = "cart" /\ CartOf[q] \in carts'
             \/ at'[q] = "insert" /\ item'[CartOf[q]][ProductOf[q]] # NoRow
             \/ tries'[q] = 2
      PROVE  \E s \in Rivals(q) : at'[s] = "done"
  <2>1. CASE \/ at[q] = "cart" /\ CartOf[q] \in carts
             \/ at[q] = "insert" /\ Row(q) # NoRow
             \/ tries[q] = 2
    <3>1. PICK s \in Rivals(q) : at[s] = "done"
      BY <1>1, <2>1 DEF Overtaken
    <3> QED
      BY <1>2, <1>3, <3>1
  <2>2. CASE ~ (\/ at[q] = "cart" /\ CartOf[q] \in carts
                \/ at[q] = "insert" /\ Row(q) # NoRow
                \/ tries[q] = 2)
    <3>1. ~ AlreadyThere(q)
      BY <2>2 DEF AlreadyThere
    <3>2. CASE at'[q] = "cart" /\ CartOf[q] \in carts'
      <4>1. CartOf[q] \notin carts
        BY <2>2, <3>2, AddStep
      <4>2. CreateCart(r) /\ CartOf[r] = CartOf[q]
        BY <3>2, <4>1 DEF CartProgress, FindCart, CreateCart, FindItem, CreateItem, AlreadyThere,
           NoSuchProduct, RestoreItem, IncrementItem, ReadQuantity, Decrement, CheckItem,
           UpdateItem, NotFound, ClearCart, NoCart, OrderCart
      <4>3. r \in Adds /\ at'[r] = "done"
        BY <1>1, <4>2, StepOf DEF CreateCart, Done, Go, TypeOK
      <4>4. r \in Rivals(q)
        BY <3>2, <4>2, <4>3 DEF Rivals
      <4> QED
        BY <4>3, <4>4
    <3>3. CASE at'[q] = "insert" /\ item'[CartOf[q]][ProductOf[q]] # NoRow
      <4>1. Row(q) = NoRow
        BY <2>2, <3>3, AddStep
      <4>2. /\ CartOf[q] = CartOf[r]
            /\ CreateCart(r) \/ CreateItem(r) \/ (UpdateItem(r) /\ r \in Moves)
        BY <3>3, <4>1, NewItem, CartFacts DEF Row
      <4>3. at'[r] = "done" /\ r \in Adds \cup Moves
        BY <1>1, <4>2, StepOf DEF CreateCart, CreateItem, UpdateItem, Done, Go, TypeOK
      <4>4. r \in Rivals(q)
        BY <3>3, <4>2, <4>3 DEF Rivals
      <4> QED
        BY <4>3, <4>4
    <3> QED
      BY <1>4, <2>2, <3>1, <3>2, <3>3, AddStep
  <2> QED
    BY <2>1, <2>2
<1> QED
  BY <1>4 DEF Overtaken, Row

(* The second attempt succeeds when the one rival is done.                 *)
LEMMA NextSecondTry ==
  ASSUME CartAssumption, CartInv, NEW r \in Requests, CartProgress(r)
  PROVE  SecondTry'
<1>1. TypeOK /\ Places /\ CartFirst /\ Overtaken /\ SecondTry
  BY DEF CartInv
<1>2. \A q \in Adds : AlreadyThere(q) => at'[q] # "cart" /\ at'[q] # "insert"
  BY <1>1, CartFacts DEF AlreadyThere, Retry, Done, Go, TypeOK
<1>3. ASSUME NEW q \in Adds, tries'[q] = 2 PROVE at'[q] # "cart"
  BY <1>1, <1>2, <1>3, AddStep DEF CartFirst, SecondTry
<1>4. ASSUME NEW q \in Adds, tries'[q] = 2, at'[q] = "insert", Alone(q)
      PROVE  item'[CartOf[q]][ProductOf[q]] = NoRow
  <2>1. tries[q] = 2
    BY <1>2, <1>4, AddStep
  <2>2. \A s \in Rivals(q) : at[s] = "done"
    BY <1>1, <1>4, <2>1 DEF Overtaken, Alone
  <2>3. Row(q) = NoRow
    BY <1>1, <1>4, <2>1, AddStep DEF SecondTry
  <2>4. ASSUME item'[CartOf[q]][ProductOf[q]] # NoRow PROVE FALSE
    <3>1. /\ CartOf[q] = CartOf[r]
          /\ CreateCart(r) \/ CreateItem(r) \/ (UpdateItem(r) /\ r \in Moves)
      BY <2>3, <2>4, NewItem, CartFacts DEF Row
    <3>2. r \in Adds \cup Moves /\ at'[r] = "done" /\ at[r] # "done"
      BY <1>1, <3>1, StepOf DEF CreateCart, CreateItem, UpdateItem, Done, Go, TypeOK
    <3> QED
      BY <1>4, <2>2, <3>1, <3>2 DEF Rivals
  <2> QED
    BY <2>4
<1>5. ASSUME NEW q \in Adds, outcome'[q] = "conflict" PROVE ~ Alone(q)
  <2>1. CASE outcome[q] = "conflict"
    BY <1>1, <2>1 DEF SecondTry
  <2>2. CASE AlreadyThere(q) /\ tries[q] = 2
    BY <1>1, <2>2 DEF AlreadyThere, SecondTry
  <2> QED
    BY <1>5, <2>1, <2>2, AddStep
<1> QED
  BY <1>3, <1>4, <1>5 DEF SecondTry, Row

(* The requests of a kind are finitely many.                               *)
LEMMA FiniteRequests ==
  ASSUME CartAssumption, NEW u, NEW p
  PROVE  IsFiniteSet(Added(u, p)) /\ IsFiniteSet(Removed(u, p))
<1>1. Added(u, p) \subseteq Requests /\ Removed(u, p) \subseteq Requests
  BY DEF Added, Removed, About, Requests
<1> QED
  BY <1>1, FS_Subset DEF CartAssumption

(* A quantity that was overwritten stays so.                               *)
LEMMA OverwrittenStays ==
  ASSUME CartAssumption, CartInv, NEW r \in Requests, CartProgress(r),
         NEW u, Overwritten(u)
  PROVE  Overwritten(u)'
<1>1. TypeOK /\ Places
  BY DEF CartInv
<1>2. PICK q \in Requests \ Removes : CartOf[q] = u /\
          IF q \in Adds THEN outcome[q] = "restored" ELSE at[q] # "start"
  BY DEF Overwritten
<1>3. CASE q \in Adds
  <2>1. outcome'[q] = "restored"
    BY <1>1, <1>2, <1>3, NextPlaces
  <2> QED
    BY <1>2, <1>3, <2>1 DEF Overwritten
<1>4. CASE q \notin Adds
  <2>1. q = r \/ at'[q] # "start"
    BY <1>1, <1>2, <1>4, NextPlaces
  <2>2. at'[q] # "start"
    BY <1>1, <2>1, <1>4, NextPlaces
  <2> QED
    BY <1>2, <1>4, <2>2 DEF Overwritten
<1> QED
  BY <1>3, <1>4

(* What a step does to a quantity that nobody sets.                        *)
LEMMA CellStep ==
  ASSUME CartAssumption, CartInv, NEW r \in Requests, CartProgress(r),
         NEW u \in Users, NEW p \in Products, ~ Overwritten(u)'
  PROVE  \/ /\ r \in About(Adds, u, p) /\ outcome'[r] = "added"
            /\ Pieces(item'[u][p]) = Pieces(item[u][p]) + QuantityOf[r]
         \/ /\ r \in About(Removes, u, p) /\ outcome'[r] = "removed"
            /\ Pieces(item'[u][p]) = Pieces(item[u][p]) - 1
         \/ /\ item'[u][p] = item[u][p]
            /\ r \in About(Adds, u, p) => outcome'[r] # "added"
            /\ r \in About(Removes, u, p) => outcome'[r] # "removed"
<1>1. TypeOK /\ Places /\ CartFirst
  BY DEF CartInv
<1>2. ASSUME NEW row \in Rows, r \in Adds \cup Removes, Put(r, row)
      PROVE  IF r \in About(Adds \cup Removes, u, p) THEN item'[u][p] = row
             ELSE item'[u][p] = item[u][p]
  BY <1>1, <1>2, CartFacts DEF Put, About, TypeOK
<1>3. \A row \in Rows : Pieces(row) = row.quantity /\ row.quantity \in Int
  BY CartFacts DEF Pieces, Rows
<1>4. Pieces(NoRow) = 0
  BY DEF Pieces
<1>5. CASE CreateCart(r) \/ CreateItem(r) \/ IncrementItem(r)
  <2>1. r \in Adds /\ outcome'[r] = "added" /\ r \notin Removes
    BY <1>1, <1>5, StepOf, CartFacts DEF CreateCart, CreateItem, IncrementItem, Done, TypeOK
  <2>2. QuantityOf[r] \in Int
    BY <2>1, CartFacts
  <2>3. PICK row \in Rows : /\ Put(r, row)
                            /\ Pieces(row) = Pieces(Row(r)) + QuantityOf[r]
    <3>1. CASE CreateCart(r) \/ CreateItem(r)
      <4>1. Row(r) = NoRow
        BY <1>1, <2>1, <3>1, CartFacts DEF CreateCart, CreateItem, CartFirst, Row
      <4>2. NewRow(r) \in Rows /\ NewRow(r).quantity = QuantityOf[r]
        BY <1>1, <2>1, RowTypes DEF NewRow
      <4> QED
        BY <1>3, <1>4, <2>2, <3>1, <4>1, <4>2 DEF CreateCart, CreateItem
    <3>2. CASE IncrementItem(r)
      <4>1. Row(r) \in Rows /\ Incremented(r) \in Rows /\ Put(r, Incremented(r))
        BY <1>1, <2>1, <3>2, RowTypes DEF IncrementItem
      <4>2. Incremented(r).quantity = Row(r).quantity + QuantityOf[r]
        BY <4>1 DEF Incremented, Rows
      <4> QED
        BY <1>3, <4>1, <4>2
    <3> QED
      BY <1>5, <3>1, <3>2
  <2>4. CASE r \in About(Adds, u, p)
    <3>1. item'[u][p] = row /\ Row(r) = item[u][p]
      BY <1>2, <2>1, <2>3, <2>4 DEF About, Row
    <3> QED
      BY <2>1, <2>3, <2>4, <3>1
  <2>5. CASE r \notin About(Adds, u, p)
    <3>1. r \notin About(Adds \cup Removes, u, p) /\ r \notin About(Removes, u, p)
      BY <2>1, <2>5 DEF About
    <3> QED
      BY <1>2, <2>1, <2>3, <2>5, <3>1
  <2> QED
    BY <2>4, <2>5
<1>6. CASE RestoreItem(r)
  <2>1. r \in Adds /\ outcome'[r] = "restored" /\ r \notin Removes
    BY <1>1, <1>6, StepOf, CartFacts DEF RestoreItem, Done, TypeOK
  <2>2. CartOf[r] # u
    BY <2>1 DEF Overwritten
  <2>3. NewRow(r) \in Rows /\ Put(r, NewRow(r))
    BY <1>1, <1>6, <2>1, RowTypes DEF RestoreItem
  <2>4. item'[u][p] = item[u][p]
    BY <1>2, <2>1, <2>2, <2>3 DEF About
  <2> QED
    BY <2>1, <2>2, <2>4 DEF About
<1>7. CASE Decrement(r)
  <2>1. r \in Removes /\ outcome'[r] = "removed" /\ r \notin Adds
    BY <1>1, <1>7, StepOf, CartFacts DEF Decrement, Done, TypeOK
  <2> DEFINE row == [quantity |-> Row(r).quantity - 1,
                     isDeleted |-> Row(r).isDeleted \/ LastOne(r)]
  <2>2. Row(r) \in Rows /\ row \in Rows /\ Put(r, row) /\ row.quantity = Row(r).quantity - 1
    BY <1>1, <1>7, <2>1, RowTypes DEF Decrement
  <2> HIDE DEF row
  <2>3. CASE r \in About(Removes, u, p)
    <3>1. item'[u][p] = row /\ Row(r) = item[u][p]
      BY <1>2, <2>1, <2>2, <2>3 DEF About, Row
    <3> QED
      BY <1>3, <2>1, <2>2, <2>3, <3>1
  <2>4. CASE r \notin About(Removes, u, p)
    <3>1. r \notin About(Adds \cup Removes, u, p) /\ r \notin About(Adds, u, p)
      BY <2>1, <2>4 DEF About
    <3> QED
      BY <1>2, <2>1, <2>2, <2>4, <3>1
  <2> QED
    BY <2>3, <2>4
<1>8. CASE UpdateItem(r) \/ ClearCart(r) \/ OrderCart(r)
  <2>1. r \notin Adds /\ r \notin Removes
    BY <1>1, <1>8, StepOf, CartFacts
  <2>2. at'[r] # "start"
    BY <1>1, <2>1, NextPlaces
  <2>3. CartOf[r] # u
    BY <2>1, <2>2 DEF Overwritten
  <2>4. item'[u][p] = item[u][p]
    BY <1>1, <1>8, <2>3 DEF UpdateItem, ClearCart, OrderCart, TypeOK
  <2> QED
    BY <2>1, <2>4 DEF About
<1>9. CASE \/ FindCart(r) \/ FindItem(r) \/ AlreadyThere(r) \/ NoSuchProduct(r)
           \/ ReadQuantity(r) \/ CheckItem(r) \/ NotFound(r) \/ NoCart(r)
  <2>1. UNCHANGED item
    BY <1>9 DEF FindCart, FindItem, AlreadyThere, NoSuchProduct, ReadQuantity, CheckItem,
       NotFound, NoCart
  <2>2. outcome'[r] \notin {"added", "removed"}
    BY <1>1, <1>9, NextPlaces DEF FindCart, FindItem, AlreadyThere, Retry, NoSuchProduct,
       ReadQuantity, CheckItem, NotFound, NoCart, Done, TypeOK
  <2> QED
    BY <2>1, <2>2
<1> QED
  BY <1>5, <1>6, <1>7, <1>8, <1>9 DEF CartProgress

(* A step that puts a piece into the cart, or takes one, is counted.       *)
LEMMA NextQuantity ==
  ASSUME CartAssumption, CartInv, NEW r \in Requests, CartProgress(r)
  PROVE  QuantityRight'
<1>1. TypeOK /\ Places /\ QuantityRight
  BY DEF CartInv
<1> SUFFICES ASSUME NEW u \in Users, NEW p \in Products, ~ Overwritten(u)'
             PROVE  Pieces(item'[u][p]) = SumFunctionOnSet(QuantityOf, Added(u, p)')
                                          - Cardinality(Removed(u, p)')
  BY DEF QuantityRight, Pieces
<1> DEFINE A == Added(u, p)
           R == Removed(u, p)
<1>2. Pieces(item[u][p]) = SumFunctionOnSet(QuantityOf, A) - Cardinality(R)
  BY <1>1, OverwrittenStays DEF QuantityRight
<1>3. IsFiniteSet(A) /\ IsFiniteSet(R) /\ Cardinality(R) \in Int
  BY FiniteRequests, FS_CardinalityType
<1>4. \A q \in Adds : QuantityOf[q] \in Int
  BY CartFacts
<1>5. SumFunctionOnSet(QuantityOf, A) \in Int
  BY <1>3, <1>4, SumInt DEF Added, About
<1>6. outcome[r] = "none" /\ \A q \in Requests : q # r => outcome'[q] = outcome[q]
  BY <1>1, NextPlaces
<1>7. CASE /\ r \in About(Adds, u, p) /\ outcome'[r] = "added"
           /\ Pieces(item'[u][p]) = Pieces(item[u][p]) + QuantityOf[r]
  <2>1. r \notin A /\ QuantityOf[r] \in Int /\ r \notin Removes
    BY <1>4, <1>6, <1>7, CartFacts DEF Added, About
  <2>2. A' = A \cup {r}
    BY <1>6, <1>7, CartFacts DEF Added, About
  <2>3. R' = R
    BY <1>6, <2>1, CartFacts DEF Removed, About
  <2>4. \A q \in A : QuantityOf[q] \in Int
    BY <1>4 DEF Added, About
  <2>5. SumFunctionOnSet(QuantityOf, A') = QuantityOf[r] + SumFunctionOnSet(QuantityOf, A)
    BY <1>3, <2>1, <2>2, <2>4, SumAdd
  <2> QED
    BY <1>2, <1>3, <1>5, <1>7, <2>1, <2>3, <2>5
<1>8. CASE /\ r \in About(Removes, u, p) /\ outcome'[r] = "removed"
           /\ Pieces(item'[u][p]) = Pieces(item[u][p]) - 1
  <2>1. r \notin R /\ r \notin Adds
    BY <1>6, <1>8, CartFacts DEF Removed, About
  <2>2. R' = R \cup {r}
    BY <1>6, <1>8, CartFacts DEF Removed, About
  <2>3. A' = A
    BY <1>6, <2>1, CartFacts DEF Added, About
  <2>4. Cardinality(R') = Cardinality(R) + 1
    BY <1>3, <2>1, <2>2, FS_AddElement
  <2> QED
    BY <1>2, <1>3, <1>5, <1>8, <2>3, <2>4
<1>9. CASE /\ item'[u][p] = item[u][p]
           /\ r \in About(Adds, u, p) => outcome'[r] # "added"
           /\ r \in About(Removes, u, p) => outcome'[r] # "removed"
  <2>1. A' = A
    BY <1>6, <1>9, CartFacts DEF Added, About
  <2>2. R' = R
    BY <1>6, <1>9, CartFacts DEF Removed, About
  <2> QED
    BY <1>2, <1>9, <2>1, <2>2
<1> QED
  BY <1>7, <1>8, <1>9, CellStep

(* The invariant holds at the start.                                       *)
LEMMA CartInit == CartAssumption /\ Init => CartInv
<1> SUFFICES ASSUME CartAssumption, Init PROVE CartInv
  OBVIOUS
<1>1. TypeOK /\ Places /\ CartFirst
  BY DEF Init, TypeOK, Places, CartFirst, Requests
<1>2. Overtaken /\ SecondTry
  BY DEF Init, Overtaken, SecondTry, Requests
<1>3. QuantityRight
  <2> SUFFICES ASSUME NEW u \in Users, NEW p \in Products
               PROVE  Pieces(item[u][p]) =
                        SumFunctionOnSet(QuantityOf, Added(u, p)) - Cardinality(Removed(u, p))
    BY DEF QuantityRight
  <2>1. Added(u, p) = {} /\ Removed(u, p) = {}
    BY DEF Init, Added, Removed, About, Requests
  <2>2. Pieces(item[u][p]) = 0
    BY DEF Init, Pieces
  <2> QED
    BY <2>1, <2>2, SumEmpty, FS_EmptySet
<1> QED
  BY <1>1, <1>2, <1>3 DEF CartInv

(* Every step of a request keeps it.                                       *)
LEMMA CartKept ==
  ASSUME CartAssumption, CartInv, NEW r \in Requests, CartProgress(r)
  PROVE  CartInv'
  BY NextTypes, NextPlaces, NextCartFirst, NextQuantity, NextOvertaken, NextSecondTry DEF CartInv

(* QuantityAccounts is the invariant, of the rows that are there.          *)
LEMMA CartQuantities == CartInv => QuantityAccounts
  BY DEF CartInv, QuantityRight, QuantityAccounts, Pieces, Added, Removed

(* With two rivals, the additions of a cart are three.                     *)
LEMMA ThreeAdds ==
  ASSUME CartAssumption, NEW r \in Adds, ~ Alone(r)
  PROVE  ~ Cardinality({s \in Adds \cup Moves : CartOf[s] = CartOf[r]}) <= 2
<1> DEFINE S == {s \in Adds \cup Moves : CartOf[s] = CartOf[r]}
<1>1. PICK s \in Rivals(r), t \in Rivals(r) : s # t
  BY DEF Alone
<1>2. r \in S /\ s \in S /\ t \in S /\ r # s /\ r # t
  BY DEF Rivals
<1>3. IsFiniteSet(S)
  <2>1. S \subseteq Requests
    BY DEF Moves, Requests
  <2> QED
    BY <2>1, FS_Subset DEF CartAssumption
<1> DEFINE S1 == S \ {r}
           S2 == S1 \ {s}
           S3 == S2 \ {t}
<1> HIDE DEF S
<1>4. IsFiniteSet(S1) /\ Cardinality(S1) = Cardinality(S) - 1
  BY <1>2, <1>3, FS_RemoveElement
<1>5. s \in S1 /\ t \in S1
  BY <1>2
<1>6. IsFiniteSet(S2) /\ Cardinality(S2) = Cardinality(S1) - 1 /\ t \in S2
  <2> HIDE DEF S1
  <2> QED
    BY <1>1, <1>4, <1>5, FS_RemoveElement
<1>7. IsFiniteSet(S3) /\ Cardinality(S3) = Cardinality(S2) - 1
  <2> HIDE DEF S2
  <2> QED
    BY <1>6, FS_RemoveElement
<1>8. Cardinality(S) \in Nat /\ Cardinality(S1) \in Nat /\ Cardinality(S2) \in Nat
      /\ Cardinality(S3) \in Nat
  BY <1>3, <1>4, <1>6, <1>7, FS_CardinalityType
<1> HIDE DEF S1, S2, S3
<1>9. ~ Cardinality(S) <= 2
  BY <1>4, <1>6, <1>7, <1>8
<1> QED
  BY <1>9 DEF S

(* PairsOfAddsSucceed follows: two attempts fail only before two rivals.   *)
LEMMA CartPairs == CartAssumption /\ CartInv => PairsOfAddsSucceed
  BY ThreeAdds DEF CartInv, SecondTry, PairsOfAddsSucceed

(* So does a step of anybody else.                                         *)
LEMMA CartStutter == CartInv /\ UNCHANGED cartVars => CartInv'
<1> SUFFICES ASSUME CartInv, UNCHANGED cartVars PROVE CartInv'
  OBVIOUS
<1>1. TypeOK' /\ Places' /\ CartFirst'
  BY DEF CartInv, cartVars, TypeOK, Places, CartFirst
<1>2. \A u, p : Added(u, p)' = Added(u, p) /\ Removed(u, p)' = Removed(u, p)
  BY DEF cartVars, Added, Removed, About
<1>3. \A u : Overwritten(u)' <=> Overwritten(u)
  BY DEF cartVars, Overwritten
<1>4. QuantityRight'
  BY <1>2, <1>3 DEF CartInv, cartVars, QuantityRight, Pieces
<1>5. Overtaken' /\ SecondTry'
  BY DEF CartInv, cartVars, Overtaken, SecondTry, Row
<1> QED
  BY <1>1, <1>4, <1>5 DEF CartInv
=============================================================================
