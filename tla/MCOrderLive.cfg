SPECIFICATION FairSystem
CONSTANTS
    u1 = u1  u2 = u2
    k1 = k1
    r1 = r1  r2 = r2
    a1 = a1
    d1 = d1  d2 = d2
    t1 = t1
    c1 = c1
    p1 = p1
    Orders = {r1, r2}
    Products = {1, 2}
    Items <- NothingPlaced
    InitialStock <- OneOfEach
    InitialCarts <- OneRacedCart
    MethodOf <- FirstByCard
    Users = {u1, u2}
    UserOf <- EachTheirOwn
    Keys = {k1}
    KeyOf <- OneKey
    Campaigns = {}
    PromoOf <- NoRequestsPromo
    UsageLimit <- NoLimits
    Cancels = {a1}
    CancelOf <- CancelFirst
    Transactions = {t1}
    OrderOf <- PayFirst
    Echoes = {{}}
    Restocked = {2}
    Deliveries = {d1}
    TxnOf <- OneTransaction
    Crons = {c1}
    AdminStatuses = {}
    ExpiringKeys = {}
    Ageing = {r1}
    Failing = {}
    Faults = {"crash", "gateway"}
    Expiring = {}
    Removable = {}
    MaxProductId = 2
    CartQuantities <- OneOrRaced
    MaxStock = 1
    NoPromo = NoPromo
    NoTx = NoTx
    NoOrder = NoOrder
    NoRef = NoRef
    IntentionId = IntentionId
    Absent = Absent
    Processing = Processing
    NoReply = NoReply
    Conflict = Conflict
    Rejected = Rejected
    RedisError = RedisError
    NoRow = NoRow
INVARIANTS CheckoutUndisturbed
PROPERTIES LifeImplemented ExpiredReclaimed ActorsEnd
CHECK_DEADLOCK FALSE
