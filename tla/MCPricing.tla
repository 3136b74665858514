------------------------------ MODULE MCPricing ------------------------------
(* Values for the constants of Pricing: prices that do and do not divide   *)
(* by the percentages, a free product, codes beyond the subtotal, and a    *)
(* column that the largest cart overflows.                                 *)
EXTENDS Pricing

CONSTANTS p1, p2

SomePrices == {0, 5, 999}
SomeQuantities == {-1, 1, 3}
SomePromos == [type : {"PERCENTAGE"}, value : {1050, 3333, 12000}]
              \cup [type : {"FIXED_AMOUNT"}, value : {4, 1000}]
=============================================================================
