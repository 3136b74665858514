SPECIFICATION Spec
CONSTANTS
    u1 = u1
    k1 = k1
    r1 = r1  r2 = r2
    c1 = c1
    Users = {u1}
    Products = {1}
    Keys = {k1}
    Requests = {r1, r2}
    Campaigns = {}
    UserOf <- OneUser
    KeyOf <- OneKey
    MethodOf <- AllCash
    PromoOf <- NoRequestsPromo
    UsageLimit <- NoLimits
    NoPromo = NoPromo
    NoTx = NoTx
    Absent = Absent
    Processing = Processing
    NoReply = NoReply
    Conflict = Conflict
    Rejected = Rejected
    RedisError = RedisError
    NoRow = NoRow
    Expiring = {}
    Removable = {}
    Faults = {}
    CartQuantities <- OnePiece
    MaxStock = 2
    MaxProductId = 2
INVARIANTS OneOrderPerKey
