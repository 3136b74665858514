-------------------------------- MODULE Cart --------------------------------
(***************************************************************************)
(* cart.service.ts and cart-item.service.ts: the items of the users' carts *)
(* and the requests that change them.  A request reads the row of its item *)
(* without a lock and decides by what it read how to write it; the write   *)
(* itself is one statement on the row as it is then.  The rows of removed  *)
(* items stay, marked as deleted.                                          *)
(***************************************************************************)
EXTENDS Integers, FiniteSets, Functions

CONSTANTS
    Users, Products,
    Adds, Removes, Updates, Clears,   \* requests
    Orderings,         \* checkouts that reach clearCart
    CartOf,            \* whose cart each request changes
    ProductOf,         \* the product of each request but Clears, Orderings
    QuantityOf,        \* the quantity that Adds and Updates carry
    Partial,           \* the Updates that carry no quantity
    MovesTo,           \* the productId that Updates carry, or else their own
    NoRow              \* no CartItem row, or none read

Requests == Adds \cup Removes \cup Updates \cup Clears \cup Orderings

Rows == [quantity : Int, isDeleted : BOOLEAN]

(* The types of the constants; a request is of one kind.                   *)
CartAssumption ==
    /\ IsFiniteSet(Requests) /\ NoRow \notin Rows
    /\ Adds \cap (Removes \cup Updates \cup Clears \cup Orderings) = {}
    /\ Removes \cap (Updates \cup Clears \cup Orderings) = {}
    /\ Updates \cap (Clears \cup Orderings) = {} /\ Clears \cap Orderings = {}
    /\ CartOf \in [Requests -> Users]
    /\ ProductOf \in [Adds \cup Removes \cup Updates -> Products]
    /\ QuantityOf \in [Adds \cup Updates -> Nat \ {0}]
    /\ MovesTo \in [Updates -> Products] /\ Partial \subseteq Updates

VARIABLES
    products,   \* the products whose row exists
    carts,      \* the users whose Cart row exists
    item,       \* the CartItem row of each user and product
    at,         \* where each request is
    tries,      \* how often an Add has run its transaction
    seen,       \* the row that a Remove has read
    outcome     \* what each request was answered

cartVars == <<carts, item, at, tries, seen, outcome>>
vars == <<products, cartVars>>

Row(r) == item[CartOf[r]][ProductOf[r]]
Active(row) == row # NoRow /\ ~ row.isDeleted

Init ==
    /\ carts = {}
    /\ item = [u \in Users |-> [p \in Products |-> NoRow]]
    /\ at = [r \in Requests |-> "start"]
    /\ tries = [r \in Adds |-> 1]
    /\ seen = [r \in Removes |-> NoRow]
    /\ outcome = [r \in Requests |-> "none"]
-----------------------------------------------------------------------------
Go(r, l) == at' = [at EXCEPT ![r] = l]
Done(r, what) == Go(r, "done") /\ outcome' = [outcome EXCEPT ![r] = what]

Put(r, row) == item' = [item EXCEPT ![CartOf[r]][ProductOf[r]] = row]
MutantNewRow(r) == [quantity |-> QuantityOf[r]]
NewRow(r) == [quantity |-> QuantityOf[r], isDeleted |-> FALSE]

(* POST /cart-item: createCartItemTransaction, once more after a unique    *)
(* violation.                                                              *)

FindCart(r) ==
    /\ r \in Adds /\ at[r] = "start"
    /\ Go(r, IF CartOf[r] \in carts THEN "find" ELSE "cart")
    /\ UNCHANGED <<products, carts, item, tries, seen, outcome>>

(* A new cart is seen by nobody before the commit, and has no items.       *)
CreateCart(r) ==
    /\ at[r] = "cart"
    /\ CartOf[r] \notin carts /\ ProductOf[r] \in products
    /\ carts' = carts \cup {CartOf[r]}
    /\ Put(r, NewRow(r))
    /\ Done(r, "added")
    /\ UNCHANGED <<products, tries, seen>>

FindItem(r) ==
    /\ at[r] = "find"
    /\ Go(r, IF Row(r) = NoRow THEN "insert"
             ELSE IF Row(r).isDeleted THEN "restore" ELSE "increment")
    /\ UNCHANGED <<products, carts, item, tries, seen, outcome>>

CreateItem(r) ==
    /\ at[r] = "insert"
    /\ Row(r) = NoRow /\ ProductOf[r] \in products
    /\ Put(r, NewRow(r))
    /\ Done(r, "added")
    /\ UNCHANGED <<products, carts, tries, seen>>

MutantRetry(r) == Done(r, "conflict") /\ UNCHANGED tries
(* P2002.                                                                  *)
Retry(r) ==
    IF tries[r] = 1
    THEN /\ Go(r, "start")
         /\ tries' = [tries EXCEPT ![r] = 2]
         /\ UNCHANGED outcome
    ELSE Done(r, "conflict") /\ UNCHANGED tries

AlreadyThere(r) ==
    /\ \/ at[r] = "cart" /\ CartOf[r] \in carts
       \/ at[r] = "insert" /\ Row(r) # NoRow
    /\ Retry(r)
    /\ UNCHANGED <<products, carts, item, seen>>

(* P2003: the product of a new item does not exist.                        *)
NoSuchProduct(r) ==
    /\ at[r] = "insert" \/ (at[r] = "cart" /\ CartOf[r] \notin carts)
    /\ ProductOf[r] \notin products
    /\ Done(r, "failed")
    /\ UNCHANGED <<products, carts, item, tries, seen>>

RestoreItem(r) ==
    /\ at[r] = "restore"
    /\ Row(r) # NoRow
    /\ Put(r, NewRow(r))
    /\ Done(r, "restored")
    /\ UNCHANGED <<products, carts, tries, seen>>

MutantIncremented(r) == [Row(r) EXCEPT !.quantity = QuantityOf[r]]
Incremented(r) == [Row(r) EXCEPT !.quantity = @ + QuantityOf[r]]

IncrementItem(r) ==
    /\ at[r] = "increment"
    /\ Row(r) # NoRow
    /\ Put(r, Incremented(r))
    /\ Done(r, "added")
    /\ UNCHANGED <<products, carts, tries, seen>>
-----------------------------------------------------------------------------
(* DELETE /cart-item takes one piece; the last one marks the row.          *)

ReadQuantity(r) ==
    /\ r \in Removes /\ at[r] = "start"
    /\ seen' = [seen EXCEPT ![r] = IF Active(Row(r)) THEN Row(r) ELSE NoRow]
    /\ Go(r, "decrement")
    /\ UNCHANGED <<products, carts, item, tries, outcome>>

LastOne(r) == seen[r] # NoRow /\ seen[r].quantity = 1

Decrement(r) ==
    /\ at[r] = "decrement" /\ Row(r) # NoRow
    /\ Put(r, [quantity |-> Row(r).quantity - 1, isDeleted |-> Row(r).isDeleted \/ LastOne(r)])
    /\ Done(r, "removed")
    /\ UNCHANGED <<products, carts, tries, seen>>

(* PUT /cart-item sets the quantity, names another product, or both.       *)

CheckItem(r) ==
    /\ r \in Updates /\ at[r] = "start"
    /\ Active(Row(r))
    /\ Go(r, "update")
    /\ UNCHANGED <<products, carts, item, tries, seen, outcome>>

MayMove(r) ==
    \/ MovesTo[r] = ProductOf[r]
    \/ item[CartOf[r]][MovesTo[r]] = NoRow /\ MovesTo[r] \in products

Updated(r) ==
    IF r \in Partial THEN Row(r) ELSE [Row(r) EXCEPT !.quantity = QuantityOf[r]]

UpdateItem(r) ==
    /\ at[r] = "update" /\ Row(r) # NoRow
    /\ MayMove(r)
    /\ item' = [item EXCEPT ![CartOf[r]] =
           [@ EXCEPT ![ProductOf[r]] = NoRow, ![MovesTo[r]] = Updated(r)]]
    /\ Done(r, "updated")
    /\ UNCHANGED <<products, carts, tries, seen>>

(* P2025 or a 404: no row to change; P2002 or P2003: none to move it to.   *)
NotFound(r) ==
    /\ \/ at[r] \in {"restore", "increment", "decrement", "update"} /\ Row(r) = NoRow
       \/ at[r] = "update" /\ ~ MayMove(r)
       \/ r \in Updates /\ at[r] = "start" /\ ~ Active(Row(r))
    /\ Done(r, "failed")
    /\ UNCHANGED <<products, carts, item, tries, seen>>
-----------------------------------------------------------------------------
(* DELETE /cart, and the clearCart of a checkout.                          *)

Emptied(row) ==
    IF row = NoRow THEN NoRow ELSE [quantity |-> 0, isDeleted |-> TRUE]

ClearCart(r) ==
    /\ r \in Clears /\ at[r] = "start"
    /\ CartOf[r] \in carts
    /\ item' = [item EXCEPT ![CartOf[r]] = [p \in Products |-> Emptied(@[p])]]
    /\ Done(r, "cleared")
    /\ UNCHANGED <<products, carts, tries, seen>>

NoCart(r) ==
    /\ r \in Clears \cup Orderings /\ at[r] = "start"
    /\ CartOf[r] \notin carts
    /\ Done(r, "failed")
    /\ UNCHANGED <<products, carts, item, tries, seen>>

(* Only where an item is active: deleted rows keep their quantity.         *)
OrderCart(r) ==
    /\ r \in Orderings /\ at[r] = "start"
    /\ CartOf[r] \in carts
    /\ item' = [item EXCEPT ![CartOf[r]] =
           [p \in Products |-> IF Active(@[p]) THEN Emptied(@[p]) ELSE @[p]]]
    /\ Done(r, "ordered")
    /\ UNCHANGED <<products, carts, tries, seen>>

CartProgress(r) ==
    \/ FindCart(r) \/ CreateCart(r) \/ FindItem(r) \/ CreateItem(r)
    \/ AlreadyThere(r) \/ NoSuchProduct(r) \/ RestoreItem(r) \/ IncrementItem(r)
    \/ ReadQuantity(r) \/ Decrement(r)
    \/ CheckItem(r) \/ UpdateItem(r) \/ NotFound(r)
    \/ ClearCart(r) \/ NoCart(r) \/ OrderCart(r)

Next == \E r \in Requests : CartProgress(r)
-----------------------------------------------------------------------------
(* Each variable ranges over the values the code gives it.                 *)
TypeOK ==
    /\ carts \subseteq Users
    /\ item \in [Users -> [Products -> Rows \cup {NoRow}]]
    /\ at \in [Requests -> {"start", "cart", "find", "insert", "restore", "increment",
                            "decrement", "update", "done"}]
    /\ tries \in [Adds -> {1, 2}]
    /\ seen \in [Removes -> Rows \cup {NoRow}]
    /\ outcome \in [Requests -> {"none", "added", "restored", "removed", "updated",
                                 "cleared", "ordered", "conflict", "failed"}]

(* The requests of this kind about product p of user u.                    *)
About(kind, u, p) == {r \in kind : CartOf[r] = u /\ ProductOf[r] = p}

(* A request that sets a quantity of u's items has begun.                  *)
Overwritten(u) ==
    \E r \in Requests \ Removes : CartOf[r] = u /\
        IF r \in Adds THEN outcome[r] = "restored" ELSE at[r] # "start"

(* cart-item.service.ts:106 and 192: as long as nobody sets the quantity,  *)
(* it is the sum of what was added less the pieces removed, whatever the   *)
(* order in which the requests read and write the row.                     *)
QuantityAccounts ==
    \A u \in Users, p \in Products : item[u][p] # NoRow /\ ~ Overwritten(u) =>
        item[u][p].quantity =
            SumFunctionOnSet(QuantityOf, {r \in About(Adds, u, p) : outcome[r] = "added"})
            - Cardinality({r \in About(Removes, u, p) : outcome[r] = "removed"})

(* The updates that make a row of another product.                         *)
Moves == {r \in Updates : MovesTo[r] # ProductOf[r]}

(* cart-item.service.ts:21: an addition that one other request has         *)
(* overtaken does not fail for that: the second attempt finds the row.     *)
PairsOfAddsSucceed ==
    \A r \in Adds :
        Cardinality({s \in Adds \cup Moves : CartOf[s] = CartOf[r]}) <= 2
            => outcome[r] # "conflict"
=============================================================================
