SPECIFICATION Spec
CONSTANTS
    o1 = o1
    p1 = p1
    d1 = d1  d2 = d2
    t1 = t1  t2 = t2
    c1 = c1
    Orders = {o1}
    Products = {p1}
    Items <- TwoOfEach
    InitialStock <- EmptyShelves
    MethodOf <- AllCard
    Cancels = {}
    CancelOf <- CancelFirst
    Transactions = {t1}
    OrderOf <- PayFirst
    Echoes = {{t1}}
    Restocked = {}
    NoRow = NoRow
    Deliveries = {d1}
    TxnOf <- OneTransaction
    Crons = {c1}
    AdminStatuses = {}
    ExpiringKeys = {}
    Ageing = {o1}
    Failing = {}
    NoTx = NoTx
    NoOrder = NoOrder
    NoRef = NoRef
    IntentionId = IntentionId
PROPERTIES CleanupCancelsPending
CHECK_DEADLOCK FALSE
