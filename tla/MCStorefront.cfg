SPECIFICATION FairSpec
CONSTANTS
    c1 = c1
    f1 = f1  f2 = f2
    u1 = u1
    a1 = a1  a2 = a2
    m1 = m1  x1 = x1  x2 = x2  e1 = e1  o1 = o1
    sku = sku
    Creations = {c1}
    SkuOf <- OneSku
    Files = {f1, f2}
    FilesOf <- AllFiles
    CreationFaults = {"upload", "delete", "insert", "acknowledgement", "crash"}
    Users = {u1}
    Adds = {a1, a2}
    Removes = {m1}
    Updates = {x1}
    Partial = {}
    Clears = {e1}
    Orderings = {o1}
    CartOf <- OneCart
    ProductOf <- OneProduct
    QuantityOf <- Quantities
    MovesTo <- SameProduct
    NoRow = NoRow
INVARIANTS TypeOK CompensationComplete CreatedIsComplete QuantityAccounts PairsOfAddsSucceed
PROPERTIES CreationsAnswered
CHECK_DEADLOCK FALSE
