SPECIFICATION Spec
CONSTANTS
    p1 = p1
    p2 = p2
    Products = {p1, p2}
    Prices <- SomePrices
    Quantities <- SomeQuantities
    Promos <- SomePromos
    NoPromo = NoPromo
    MaxAmount = 5000
INVARIANTS TypeOK ChargedExactly TotalInBounds ReceiptAddsUp
