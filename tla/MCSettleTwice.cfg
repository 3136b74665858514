SPECIFICATION Spec
CONSTANTS
    o1 = o1
    p1 = p1
    d1 = d1  d2 = d2
    t1 = t1  t2 = t2
    c1 = c1
    Orders = {o1}
    Products = {p1}
    Items <- TwoOfEach
    InitialStock <- EmptyShelves
    MethodOf <- AllCard
    Cancels = {}
    CancelOf <- CancelFirst
    Transactions = {t1, t2}
    OrderOf <- PayFirst
    Echoes = {{t1, t2}}
    Restocked = {}
    NoRow = NoRow
    Deliveries = {d1, d2}
    TxnOf <- EachItsOwn
    Crons = {}
    AdminStatuses = {}
    ExpiringKeys = {}
    Ageing = {o1}
    Failing = {}
    NoTx = NoTx
    NoOrder = NoOrder
    NoRef = NoRef
    IntentionId = IntentionId
INVARIANTS StockConserved
CHECK_DEADLOCK FALSE
