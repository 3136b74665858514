------------------------------- MODULE Pricing -------------------------------
(***************************************************************************)
(* What an order costs: from the prices its transaction reads, through the *)
(* subtotal, the discount and the rounding of the stored total, to the     *)
(* integer amount of the payment intention, while an administrator changes *)
(* prices.  The stock, the locks and the other requests are in Checkout.   *)
(*                                                                         *)
(* Money in the database is in cents (Decimal(10,2)).  A total is exact    *)
(* until it is stored: Parts of a cent make four more decimal places, what *)
(* a percentage of two decimals of an amount of two decimals needs.        *)
(***************************************************************************)
EXTENDS Integers, FiniteSets, Functions

CONSTANTS
    Products,
    Prices,       \* bound: the prices an administrator sets, in cents
    Quantities,   \* bound: the quantities of the lines of a cart
    Promos,       \* promo codes: [type |-> .., value |-> ..]
    NoPromo,      \* the request carries no code
    MaxAmount     \* the largest Decimal(10,2), in cents

Parts == 10000

(* Prices and promo values are validated as positive, and may round to 0   *)
(* when they are stored.  Concurrent removals can leave a row of the cart  *)
(* with a quantity below one, so a quantity is any integer.                *)
ASSUME PricingAssumption ==
    /\ IsFiniteSet(Products)
    /\ Prices \subseteq Nat
    /\ Quantities \subseteq Int
    /\ Promos \subseteq [type : {"PERCENTAGE", "FIXED_AMOUNT"}, value : Nat]
    /\ NoPromo \notin Promos
    /\ MaxAmount \in Nat

VARIABLES
    price,       \* Product.price
    pc,          \* where the request is
    lines,       \* the lines read from the cart: quantity and price
    rest,        \* the lines that the sum has yet to reach
    subtotal,    \* the sum so far, in cents
    promo,       \* the code the order redeemed
    total,       \* Order.totalAmount
    orderItems,  \* the OrderItem rows
    amount,      \* the amount of the payment request, and of its Payment row
    intention    \* what Paymob is asked for: an amount and items

vars == <<price, pc, lines, rest, subtotal, promo, total, orderItems, amount,
          intention>>

Line == [quantity : Quantities, price : Prices]
NoLines == [p \in {} |-> 0]
NoIntention == [amount |-> 0, items |-> NoLines]

-----------------------------------------------------------------------------
(* The arithmetic.                                                         *)

LeastOf(x, y) == IF x > y THEN y ELSE x

(* calculateDiscount, in parts.                                            *)
Nominal(code, sum) ==
    IF code.type = "PERCENTAGE" THEN sum * code.value ELSE code.value * Parts

MutantCapped(discount, sum) == discount
Capped(discount, sum) == LeastOf(discount, sum * Parts)

Discount(code, sum) ==
    IF code = NoPromo THEN 0 ELSE Capped(Nominal(code, sum), sum)

(* PostgreSQL rounds to the places of the column, half away from zero.     *)
Stored(parts) ==
    IF parts >= 0 THEN (parts + Parts \div 2) \div Parts
                  ELSE -((Parts \div 2 - parts) \div Parts)

(* Number(decimal) * 100 is a floating-point product: an amount of cents,  *)
(* or a hair above or below it, here by a hundredth.                       *)
TimesHundred(cents) == {100 * cents - 1, 100 * cents, 100 * cents + 1}

MutantMathRound(hundredths) == hundredths \div 100

(* Math.round, of hundredths.                                              *)
MathRound(hundredths) == (hundredths + 50) \div 100

InCents(cents) == {MathRound(x) : x \in TimesHundred(cents)}

-----------------------------------------------------------------------------
Init ==
    /\ price \in [Products -> Prices]
    /\ pc = "start"
    /\ lines = NoLines /\ rest = {} /\ subtotal = 0
    /\ promo = NoPromo /\ total = 0 /\ orderItems = NoLines
    /\ amount = 0 /\ intention = NoIntention

(* PATCH /products/:id, at any time.                                       *)
SetPrice(p, v) ==
    /\ price' = [price EXCEPT ![p] = v]
    /\ UNCHANGED <<pc, lines, rest, subtotal, promo, total, orderItems,
                   amount, intention>>

(* getUserCart: a cart that is not empty, with the prices of this moment.  *)
ReadCart ==
    /\ pc = "start"
    /\ \E S \in SUBSET Products \ {{}} : \E q \in [S -> Quantities] :
           lines' = [p \in S |-> [quantity |-> q[p], price |-> price[p]]]
    /\ rest' = DOMAIN lines'
    /\ pc' = "adding"
    /\ UNCHANGED <<price, subtotal, promo, total, orderItems, amount, intention>>

(* getTotalAmount, one line.                                               *)
AddLine(p) ==
    /\ pc = "adding" /\ p \in rest
    /\ rest' = rest \ {p}
    /\ subtotal' = subtotal + lines[p].price * lines[p].quantity
    /\ UNCHANGED <<price, pc, lines, promo, total, orderItems, amount, intention>>

Payable(code) == subtotal * Parts - Discount(code, subtotal)

(* createOrder: the insert fails, and the transaction with it, when the    *)
(* rounded total has too many digits.                                      *)
MutantFits(cents) == TRUE
Fits(cents) == cents \in -MaxAmount..MaxAmount

CreateOrder(code) ==
    /\ pc = "adding" /\ rest = {}
    /\ Fits(Stored(Payable(code)))
    /\ promo' = code
    /\ total' = Stored(Payable(code))
    /\ pc' = "created"
    /\ UNCHANGED <<price, lines, rest, subtotal, orderItems, amount, intention>>

Overflow(code) ==
    /\ pc = "adding" /\ rest = {}
    /\ ~Fits(Stored(Payable(code)))
    /\ pc' = "failed"
    /\ UNCHANGED <<price, lines, rest, subtotal, promo, total, orderItems,
                   amount, intention>>

(* createOrderItems, and the commit: the prices are those that were read.  *)
MutantItemRow(p) == [quantity |-> lines[p].quantity, price |-> price[p]]
ItemRow(p) == [quantity |-> lines[p].quantity, price |-> lines[p].price]

CreateOrderItems ==
    /\ pc = "created"
    /\ orderItems' = [p \in DOMAIN lines |-> ItemRow(p)]
    /\ pc' = "placed"
    /\ UNCHANGED <<price, lines, rest, subtotal, promo, total, amount, intention>>

(* The Payment row of a card order: the total the insert returned.         *)
CreatePayment ==
    /\ pc = "placed"
    /\ amount' = total
    /\ pc' = "paying"
    /\ UNCHANGED <<price, lines, rest, subtotal, promo, total, orderItems,
                   intention>>

(* PaymobGateway.createPayment: the amount and each item in whole cents.   *)
CreateIntention ==
    /\ pc = "paying"
    /\ \E a \in InCents(amount) :
         \E i \in [DOMAIN lines -> UNION {InCents(lines[p].price) : p \in DOMAIN lines}] :
             /\ \A p \in DOMAIN lines : i[p] \in InCents(lines[p].price)
             /\ intention' = [amount |-> a,
                              items |-> [p \in DOMAIN lines |->
                                  [quantity |-> lines[p].quantity, price |-> i[p]]]]
    /\ pc' = "intended"
    /\ UNCHANGED <<price, lines, rest, subtotal, promo, total, orderItems, amount>>

Next ==
    \/ \E p \in Products : AddLine(p) \/ \E v \in Prices : SetPrice(p, v)
    \/ \E code \in Promos \cup {NoPromo} : CreateOrder(code) \/ Overflow(code)
    \/ ReadCart \/ CreateOrderItems \/ CreatePayment \/ CreateIntention

Spec == Init /\ [][Next]_vars

-----------------------------------------------------------------------------
(* Every state is well typed, and a stored total has the digits of its     *)
(* column.                                                                 *)
TypeOK ==
    /\ price \in [Products -> Prices]
    /\ pc \in {"start", "adding", "failed", "created", "placed", "paying", "intended"}
    /\ DOMAIN lines \subseteq Products
    /\ \A p \in DOMAIN lines : lines[p] \in Line
    /\ rest \subseteq DOMAIN lines
    /\ subtotal \in Int
    /\ promo \in Promos \cup {NoPromo}
    /\ total \in -MaxAmount..MaxAmount
    /\ amount \in -MaxAmount..MaxAmount

(* The customer is charged the stored total to the cent: neither the       *)
(* float the total passes through nor the Payment row changes it.          *)
ChargedExactly == pc = "intended" => intention.amount = total /\ amount = total

(* An order of positive quantities costs no less than nothing and no more  *)
(* than its lines, whatever code it redeems: the discount is capped, and   *)
(* the rounding of the total does not undo that.                           *)
Positive == \A p \in DOMAIN lines : lines[p].quantity > 0

TotalInBounds ==
    pc \in {"created", "placed", "paying", "intended"} /\ Positive =>
        total \in 0..subtotal

(* The order can be checked from its own rows for ever after: its items at *)
(* their recorded prices, less the discount of its code, make its total,   *)
(* and Paymob is sent those items, though prices change meanwhile.         *)
Costs(rows) == [p \in DOMAIN rows |-> rows[p].price * rows[p].quantity]
Sum(rows) == SumFunctionOnSet(Costs(rows), DOMAIN rows)

ReceiptAddsUp ==
    /\ pc \in {"placed", "paying", "intended"} =>
           total = Stored(Sum(orderItems) * Parts - Discount(promo, Sum(orderItems)))
    /\ pc = "intended" => intention.items = orderItems

=============================================================================
