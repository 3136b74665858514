---------------------------- MODULE MCStorefront ----------------------------
(* Values for the constants of Storefront: a product with two images, and  *)
(* a customer whose requests all reach one cart and this product.          *)
EXTENDS Storefront

CONSTANTS c1, f1, f2, u1, a1, a2, m1, x1, x2, e1, o1, sku

OneSku == [c \in Creations |-> sku]
AllFiles == [c \in Creations |-> Files]

OneCart == [r \in Adds \cup Removes \cup Updates \cup Clears \cup Orderings |-> u1]
OneProduct == [r \in Adds \cup Removes \cup Updates |-> c1]
SameProduct == [r \in Updates |-> c1]
Quantities == [r \in Adds \cup Updates |-> IF r = a1 THEN 1 ELSE 2]
=============================================================================
