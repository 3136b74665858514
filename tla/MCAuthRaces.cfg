SPECIFICATION Spec
CONSTANTS
    e1 = e1
    n1 = n1  n2 = n2
    v1 = v1  v2 = v2
    s1 = s1  w1 = w1  w2 = w2
    r1 = r1  r2 = r2  r3 = r3
    l1 = l1
    Emails = {e1}
    SignUps = {n1, n2}
    AddressOf <- OneAddress
    Verifies = {v1, v2}
    LinkOf <- OneLink
    Sessions = {s1}
    ClaimOf <- FirstClaim
    Changes = {w1, w2}
    OldOf <- FirstOld
    Refreshes = {r1, r2, r3}
    SessionOf <- FirstSession
    LogOuts = {l1}
    EndsOf <- EndsFirst
    Damaged = Damaged
    None = None
SYMMETRY Interchangeable
INVARIANTS TypeOK ChangedPasswordEnds
PROPERTIES SpentStaysSpent ClosedStaysClosed
CHECK_DEADLOCK FALSE
