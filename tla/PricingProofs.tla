---------------------------- MODULE PricingProofs ----------------------------
(***************************************************************************)
(* Theorems about Pricing for all prices, carts and promo codes.           *)
(***************************************************************************)
EXTENDS Pricing, SumTheorems

USE PricingAssumption

(* What a product of naturals is.                                          *)
LEMMA TimesNat == \A x, y \in Nat : x * y \in Nat
  OBVIOUS

(* So it is of integers.                                                   *)
LEMMA TimesInt == \A x, y \in Int : x * y \in Int
  OBVIOUS

(* A discount of a sum that is not negative is between nothing and all of  *)
(* the sum.                                                                *)
LEMMA DiscountBounds ==
  ASSUME NEW code \in Promos \cup {NoPromo}, NEW sum \in Nat
  PROVE  Discount(code, sum) \in 0..(sum * Parts)
<1>1. CASE code = NoPromo
  BY <1>1 DEF Discount, Parts
<1>2. CASE code # NoPromo
  <2>1. code.value \in Nat
    BY <1>2
  <2>2. Nominal(code, sum) \in Nat
    BY <2>1, TimesNat DEF Nominal, Parts
  <2>3. LeastOf(Nominal(code, sum), sum * Parts) \in 0..(sum * Parts)
    BY <2>2 DEF LeastOf, Parts
  <2> QED
    BY <1>2, <2>3 DEF Discount, Capped
<1> QED
  BY <1>1, <1>2

(* A discount of any sum is an integer.                                    *)
LEMMA DiscountInt ==
  ASSUME NEW code \in Promos \cup {NoPromo}, NEW sum \in Int
  PROVE  Discount(code, sum) \in Int
<1>1. CASE code = NoPromo
  BY <1>1 DEF Discount
<1>2. CASE code # NoPromo
  <2>1. Nominal(code, sum) \in Int
    BY <1>2, TimesInt DEF Nominal, Parts
  <2> QED
    BY <1>2, <2>1 DEF Discount, Capped, LeastOf, Parts
<1> QED
  BY <1>1, <1>2

(* Rounding to cents stays within bounds of whole cents.                   *)
LEMMA StoredBounds ==
  ASSUME NEW cents \in Nat, NEW parts \in 0..(cents * Parts)
  PROVE  Stored(parts) \in 0..cents
  BY DEF Stored, Parts

(* So is what is stored of any amount.                                     *)
LEMMA StoredInt ==
  ASSUME NEW parts \in Int
  PROVE  Stored(parts) \in Int
  BY DEF Stored, Parts

(* Math.round undoes the error of the floating-point product.              *)
LEMMA InCentsExact ==
  ASSUME NEW cents \in Int
  PROVE  InCents(cents) = {cents}
<1>1. \A x \in TimesHundred(cents) : MathRound(x) = cents
  BY DEF TimesHundred, MathRound
<1>2. 100 * cents \in TimesHundred(cents)
  BY DEF TimesHundred
<1> QED
  BY <1>1, <1>2 DEF InCents

-----------------------------------------------------------------------------
(* The sum starts at nothing, and of positive lines it is never less.      *)
SumInBounds ==
    /\ pc = "start" => subtotal = 0
    /\ Positive => subtotal >= 0

(* A payment asks for the total of its order.                              *)
PaymentOfTotal == pc \in {"paying", "intended"} => amount = total

PInv == TypeOK /\ SumInBounds /\ PaymentOfTotal /\ ChargedExactly /\ TotalInBounds

(* The invariant holds at the start;                                       *)
LEMMA InitPInv == Init => PInv
  BY DEF Init, PInv, TypeOK, SumInBounds, PaymentOfTotal, ChargedExactly,
         TotalInBounds, NoLines, NoIntention

(* a change of a price touches no order;                                   *)
LEMMA SetPricePInv ==
  ASSUME PInv, NEW p \in Products, NEW v \in Prices, SetPrice(p, v)
  PROVE  PInv'
  BY DEF PInv, TypeOK, SumInBounds, PaymentOfTotal, ChargedExactly,
         TotalInBounds, Positive, SetPrice

(* the lines read from the cart are lines;                                 *)
LEMMA ReadCartPInv ==
  ASSUME PInv, ReadCart
  PROVE  PInv'
<1>1. PICK S \in SUBSET Products \ {{}} : \E q \in [S -> Quantities] :
        lines' = [p \in S |-> [quantity |-> q[p], price |-> price[p]]]
  BY DEF ReadCart
<1>2. PICK q \in [S -> Quantities] :
        lines' = [p \in S |-> [quantity |-> q[p], price |-> price[p]]]
  BY <1>1
<1>3. DOMAIN lines' = S /\ \A p \in S : lines'[p] \in Line
  BY <1>2 DEF PInv, TypeOK, Line
<1>4. subtotal' = 0 /\ pc' = "adding" /\ rest' = S
  BY <1>3 DEF PInv, SumInBounds, ReadCart
<1>5. UNCHANGED <<price, promo, total, amount, intention>>
  BY DEF ReadCart
<1> QED
  BY <1>3, <1>4, <1>5 DEF PInv, TypeOK, SumInBounds, PaymentOfTotal,
       ChargedExactly, TotalInBounds

(* a positive line makes the sum no smaller;                               *)
LEMMA AddLinePInv ==
  ASSUME PInv, NEW p \in Products, AddLine(p)
  PROVE  PInv'
<1>1. p \in DOMAIN lines /\ lines[p] \in Line
  BY DEF PInv, TypeOK, AddLine
<1>2. lines[p].price \in Nat /\ lines[p].quantity \in Int
  BY <1>1 DEF Line
<1>3. lines[p].price * lines[p].quantity \in Int
  BY <1>2, TimesInt
<1>4. Positive => lines[p].price * lines[p].quantity \in Nat
  BY <1>1, <1>2, TimesNat DEF Positive
<1>5. subtotal' = subtotal + lines[p].price * lines[p].quantity
  BY DEF AddLine
<1>6. subtotal' \in Int /\ (Positive => subtotal' >= 0)
  BY <1>3, <1>4, <1>5 DEF PInv, TypeOK, SumInBounds
<1>7. /\ pc = "adding" /\ rest' \subseteq rest
      /\ UNCHANGED <<price, pc, lines, promo, total, amount, intention>>
  BY DEF AddLine
<1> QED
  BY <1>6, <1>7 DEF PInv, TypeOK, SumInBounds, PaymentOfTotal, ChargedExactly,
       TotalInBounds, Positive

(* the total lies between nothing and the sum;                             *)
LEMMA CreateOrderPInv ==
  ASSUME PInv, NEW code \in Promos \cup {NoPromo}, CreateOrder(code)
  PROVE  PInv'
<1>1. Positive => total' \in 0..subtotal
  <2> SUFFICES ASSUME Positive
               PROVE  total' \in 0..subtotal
    OBVIOUS
  <2>1. subtotal \in Nat
    BY DEF PInv, TypeOK, SumInBounds
  <2>2. Discount(code, subtotal) \in 0..(subtotal * Parts)
    BY <2>1, DiscountBounds
  <2>3. Payable(code) \in 0..(subtotal * Parts)
    BY <2>1, <2>2 DEF Payable, Parts
  <2>4. Stored(Payable(code)) \in 0..subtotal
    BY <2>1, <2>3, StoredBounds
  <2> QED
    BY <2>4 DEF CreateOrder
<1>2. total' \in -MaxAmount..MaxAmount
  BY DEF CreateOrder, Fits
<1>3. /\ promo' = code /\ pc' = "created"
      /\ UNCHANGED <<price, lines, rest, subtotal, amount, intention>>
  BY DEF CreateOrder
<1> QED
  BY <1>1, <1>2, <1>3 DEF PInv, TypeOK, SumInBounds, PaymentOfTotal,
       ChargedExactly, TotalInBounds, Positive

(* an order that does not fit is not made;                                 *)
LEMMA OverflowPInv ==
  ASSUME PInv, NEW code \in Promos \cup {NoPromo}, Overflow(code)
  PROVE  PInv'
  BY DEF PInv, TypeOK, SumInBounds, PaymentOfTotal, ChargedExactly,
         TotalInBounds, Positive, Overflow

(* the items do not change the total,                                      *)
LEMMA CreateOrderItemsPInv ==
  ASSUME PInv, CreateOrderItems
  PROVE  PInv'
  BY DEF PInv, TypeOK, SumInBounds, PaymentOfTotal, ChargedExactly,
         TotalInBounds, Positive, CreateOrderItems

(* the payment repeats it,                                                 *)
LEMMA CreatePaymentPInv ==
  ASSUME PInv, CreatePayment
  PROVE  PInv'
  BY DEF PInv, TypeOK, SumInBounds, PaymentOfTotal, ChargedExactly,
         TotalInBounds, Positive, CreatePayment

(* and the float it passes through is rounded back to it.                  *)
LEMMA CreateIntentionPInv ==
  ASSUME PInv, CreateIntention
  PROVE  PInv'
<1>1. amount \in Int /\ amount = total
  BY DEF PInv, TypeOK, PaymentOfTotal, CreateIntention
<1>2. InCents(amount) = {amount}
  BY <1>1, InCentsExact
<1>3. intention'.amount = total
  BY <1>1, <1>2 DEF CreateIntention
<1>4. /\ pc = "paying" /\ pc' = "intended"
      /\ UNCHANGED <<price, lines, rest, subtotal, promo, total, amount>>
  BY DEF CreateIntention
<1> QED
  BY <1>1, <1>3, <1>4 DEF PInv, TypeOK, SumInBounds, PaymentOfTotal,
       ChargedExactly, TotalInBounds, Positive

(* Nothing changes when nothing moves.                                     *)
LEMMA StutterPInv ==
  ASSUME PInv, UNCHANGED vars
  PROVE  PInv'
  BY DEF PInv, TypeOK, SumInBounds, PaymentOfTotal, ChargedExactly,
         TotalInBounds, Positive, vars

(* Every step keeps the invariant.                                         *)
LEMMA NextPInv == PInv /\ [Next]_vars => PInv'
  BY SetPricePInv, ReadCartPInv, AddLinePInv, CreateOrderPInv, OverflowPInv,
     CreateOrderItemsPInv, CreatePaymentPInv, CreateIntentionPInv, StutterPInv
     DEF Next

(* The invariant holds of every checkout, whatever prices and codes it     *)
(* meets.                                                                  *)
THEOREM PricingInvariant == Spec => []PInv
<1> QED
  BY InitPInv, NextPInv, PTL DEF Spec

(* Whatever the prices and the codes, the state of a checkout is well      *)
(* typed.                                                                  *)
THEOREM PricingTypeCorrect == Spec => []TypeOK
<1>1. PInv => TypeOK
  BY DEF PInv
<1> QED
  BY <1>1, PricingInvariant, PTL

(* A card order is charged the stored total to the cent, for any total and *)
(* any error of the floating-point product within a hundredth.             *)
THEOREM OrdersChargedExactly == Spec => []ChargedExactly
<1>1. PInv => ChargedExactly
  BY DEF PInv
<1> QED
  BY <1>1, PricingInvariant, PTL

(* No code makes an order of positive quantities cost less than nothing or *)
(* more than its lines.                                                    *)
THEOREM TotalsInBounds == Spec => []TotalInBounds
<1>1. PInv => TotalInBounds
  BY DEF PInv
<1> QED
  BY <1>1, PricingInvariant, PTL

-----------------------------------------------------------------------------
(* The sum so far and the lines that are left make the sum of the lines,   *)
(* whatever order the lines are added in; and what the order keeps are the *)
(* lines it was read from, at the prices of then.                          *)
SumSoFar ==
    /\ pc = "adding" => subtotal + SumFunctionOnSet(Costs(lines), rest) = Sum(lines)
    /\ pc \in {"created", "placed", "paying", "intended"} =>
           subtotal = Sum(lines) /\ total = Stored(Payable(promo))

ItemsKept ==
    /\ pc \in {"placed", "paying", "intended"} =>
           orderItems = [p \in DOMAIN lines |-> ItemRow(p)]
    /\ pc = "intended" => intention.items = orderItems

Receipt == SumSoFar /\ ItemsKept

(* A line costs an integer.                                                *)
LEMMA LineCost == \A x \in Line : x.price * x.quantity \in Int
<1>1. \A v \in Prices, q \in Quantities : v * q \in Int
  BY TimesInt
<1>2. \A x \in Line : x.price \in Prices /\ x.quantity \in Quantities
  BY DEF Line
<1> HIDE PricingAssumption
<1> QED
  BY <1>1, <1>2

(* The lines are finitely many, and each costs an integer.                 *)
LEMMA CostFacts ==
  ASSUME PInv
  PROVE  /\ IsFiniteSet(DOMAIN lines) /\ IsFiniteSet(rest)
         /\ \A p \in DOMAIN lines : Costs(lines)[p] = lines[p].price * lines[p].quantity
         /\ \A p \in DOMAIN lines : Costs(lines)[p] \in Int
<1>1. DOMAIN lines \subseteq Products /\ rest \subseteq DOMAIN lines
  BY DEF PInv, TypeOK
<1>2. \A p \in DOMAIN lines : Costs(lines)[p] = lines[p].price * lines[p].quantity
  BY DEF Costs
<1>3. \A p \in DOMAIN lines : lines[p] \in Line
  BY DEF PInv, TypeOK
<1>4. \A p \in DOMAIN lines : Costs(lines)[p] \in Int
  BY <1>2, <1>3, LineCost
<1> QED
  BY <1>1, <1>2, <1>4, FS_Subset

(* Reading the cart leaves every line to be added.                         *)
LEMMA ReadCartReceipt ==
  ASSUME PInv, ReadCart, PInv'
  PROVE  Receipt'
<1>1. pc' = "adding" /\ subtotal' = 0 /\ rest' = DOMAIN lines'
  BY DEF ReadCart, PInv, SumInBounds
<1>2. /\ IsFiniteSet(DOMAIN lines')
      /\ \A p \in DOMAIN lines' : Costs(lines')[p] \in Int
  <2>1. DOMAIN lines' \subseteq Products /\ \A p \in DOMAIN lines' : lines'[p] \in Line
    BY DEF PInv, TypeOK
  <2>2. \A p \in DOMAIN lines' : Costs(lines')[p] = lines'[p].price * lines'[p].quantity
    BY DEF Costs
  <2>3. \A p \in DOMAIN lines' : Costs(lines')[p] \in Int
    BY <2>1, <2>2, LineCost
  <2> QED
    BY <2>1, <2>3, FS_Subset
<1>3. SumFunctionOnSet(Costs(lines'), DOMAIN lines') \in Int
  BY <1>2, SumInt
<1>4. subtotal' + SumFunctionOnSet(Costs(lines'), rest') = Sum(lines')
  BY <1>1, <1>3 DEF Sum
<1> QED
  BY <1>1, <1>4 DEF Receipt, SumSoFar, ItemsKept, Sum, Costs

(* Adding a line moves its cost from what is left into the sum.            *)
LEMMA AddLineReceipt ==
  ASSUME PInv, Receipt, NEW p \in Products, AddLine(p)
  PROVE  Receipt'
<1>1. /\ pc = "adding" /\ p \in rest /\ rest' = rest \ {p}
      /\ subtotal' = subtotal + lines[p].price * lines[p].quantity
      /\ UNCHANGED <<pc, lines, total, promo, orderItems, intention>>
  BY DEF AddLine
<1>2. /\ IsFiniteSet(rest) /\ rest \subseteq DOMAIN lines /\ subtotal \in Int
      /\ Costs(lines)[p] = lines[p].price * lines[p].quantity
      /\ \A q \in rest : Costs(lines)[q] \in Int
  BY <1>1, CostFacts DEF PInv, TypeOK
<1>3. SumFunctionOnSet(Costs(lines), rest)
        = Costs(lines)[p] + SumFunctionOnSet(Costs(lines), rest \ {p})
  BY <1>1, <1>2, SumRemove
<1>4. SumFunctionOnSet(Costs(lines), rest \ {p}) \in Int
  BY <1>2, SumInt, FS_Subset
<1>5. subtotal' + SumFunctionOnSet(Costs(lines), rest') = Sum(lines)
  BY <1>1, <1>2, <1>3, <1>4 DEF Receipt, SumSoFar
<1> QED
  BY <1>1, <1>5 DEF Receipt, SumSoFar, ItemsKept, Sum, Costs

(* The total is made of the sum when no line is left.                      *)
LEMMA CreateOrderReceipt ==
  ASSUME PInv, Receipt, NEW code \in Promos \cup {NoPromo}, CreateOrder(code)
  PROVE  Receipt'
<1>1. /\ pc = "adding" /\ rest = {} /\ pc' = "created"
      /\ promo' = code /\ total' = Stored(Payable(code))
      /\ UNCHANGED <<lines, subtotal>>
  BY DEF CreateOrder
<1>2. subtotal = Sum(lines)
  <2>1. SumFunctionOnSet(Costs(lines), rest) = 0
    BY <1>1, SumEmpty
  <2> QED
    BY <1>1, <2>1 DEF Receipt, SumSoFar, PInv, TypeOK
<1>3. Payable(promo)' = Payable(code)
  BY <1>1 DEF Payable
<1> QED
  BY <1>1, <1>2, <1>3 DEF Receipt, SumSoFar, ItemsKept, Sum, Costs, Payable

(* The items are the lines.                                                *)
LEMMA CreateOrderItemsReceipt ==
  ASSUME PInv, Receipt, CreateOrderItems
  PROVE  Receipt'
  BY DEF CreateOrderItems, Receipt, SumSoFar, ItemsKept, Sum, Costs, Payable, ItemRow

(* Paymob is asked for the items of the order.                             *)
LEMMA CreateIntentionReceipt ==
  ASSUME PInv, Receipt, CreateIntention
  PROVE  Receipt'
<1>1. PICK i \in [DOMAIN lines -> UNION {InCents(lines[p].price) : p \in DOMAIN lines}] :
        /\ \A p \in DOMAIN lines : i[p] \in InCents(lines[p].price)
        /\ intention'.items = [p \in DOMAIN lines |->
                                 [quantity |-> lines[p].quantity, price |-> i[p]]]
  BY DEF CreateIntention
<1>2. \A p \in DOMAIN lines : i[p] = lines[p].price
  BY <1>1, InCentsExact DEF PInv, TypeOK, Line
<1>3. intention'.items = [p \in DOMAIN lines |-> ItemRow(p)]
  BY <1>1, <1>2 DEF ItemRow
<1>4. /\ pc = "paying" /\ pc' = "intended"
      /\ UNCHANGED <<lines, rest, subtotal, promo, total, orderItems>>
  BY DEF CreateIntention
<1> QED
  BY <1>3, <1>4 DEF Receipt, SumSoFar, ItemsKept, Sum, Costs, Payable, ItemRow

(* Every step keeps the receipt.                                           *)
LEMMA NextReceipt == PInv /\ Receipt /\ [Next]_vars => Receipt'
<1> SUFFICES ASSUME PInv, Receipt, [Next]_vars PROVE Receipt'
  OBVIOUS
<1>1. ASSUME UNCHANGED <<pc, lines, rest, subtotal, promo, total, orderItems, intention>>
      PROVE  Receipt'
  BY <1>1 DEF Receipt, SumSoFar, ItemsKept, Sum, Costs, Payable, ItemRow
<1>2. CASE CreatePayment
  BY <1>2 DEF CreatePayment, Receipt, SumSoFar, ItemsKept, Sum, Costs, Payable, ItemRow
<1>3. ASSUME NEW code \in Promos \cup {NoPromo}, Overflow(code) PROVE Receipt'
  BY <1>3 DEF Overflow, Receipt, SumSoFar, ItemsKept
<1>4. CASE ReadCart
  BY <1>4, NextPInv, ReadCartReceipt
<1> QED
  BY <1>1, <1>2, <1>3, <1>4, AddLineReceipt, CreateOrderReceipt, CreateOrderItemsReceipt,
     CreateIntentionReceipt
  DEF Next, vars, SetPrice

(* ReceiptAddsUp: the rows of an order make its total for ever after, and  *)
(* Paymob is sent those items, though prices change meanwhile.             *)
THEOREM ReceiptsAddUp == Spec => []ReceiptAddsUp
<1>1. Init => Receipt
  BY DEF Init, Receipt, SumSoFar, ItemsKept
<1>2. PInv /\ Receipt => ReceiptAddsUp
  <2> SUFFICES ASSUME PInv, Receipt, pc \in {"placed", "paying", "intended"}
               PROVE  total = Stored(Sum(orderItems) * Parts - Discount(promo, Sum(orderItems)))
    BY DEF ReceiptAddsUp, Receipt, ItemsKept
  <2>1. Costs(orderItems) = Costs(lines) /\ DOMAIN orderItems = DOMAIN lines
    BY DEF Receipt, ItemsKept, ItemRow, Costs
  <2>2. Sum(orderItems) = subtotal
    BY <2>1 DEF Receipt, SumSoFar, Sum
  <2> QED
    BY <2>2 DEF Receipt, SumSoFar, Payable
<1> QED
  BY <1>1, <1>2, PricingInvariant, NextPInv, NextReceipt, PTL DEF Spec
=============================================================================
