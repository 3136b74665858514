SPECIFICATION FairSpec
CONSTANTS
    u1 = u1
    k1 = k1
    r1 = r1  r2 = r2
    c1 = c1
    Users = {u1}
    Products = {1, 2}
    Keys = {k1}
    Requests = {r1, r2}
    Campaigns = {c1}
    UserOf <- OneUser
    KeyOf <- OneKey
    MethodOf <- FirstByCard
    PromoOf <- AllUsePromo
    UsageLimit <- LimitTwo
    NoPromo = NoPromo
    NoTx = NoTx
    Absent = Absent
    Processing = Processing
    NoReply = NoReply
    Conflict = Conflict
    Rejected = Rejected
    RedisError = RedisError
    NoRow = NoRow
    Expiring = {k1}
    Removable = {1}
    Faults = {"abort", "crash", "redis", "gateway"}
    CartQuantities <- OneRaced
    MaxStock = 1
    MaxProductId = 2
INVARIANTS TypeOK NeverOversold LockDiscipline NoWaitCycle CampaignCapped OneUsePerUser
    PromotionsHeld AnswerIsOwn ClaimsAreOwned
PROPERTIES LedgerImplemented RequestsAnswered
