\* Two transactions; two tenants that share a lock by hash collision, one apart.
SPECIFICATION Spec
CONSTANTS
    t1 = t1
    t2 = t2
    t3 = t3
    Tenants = {t1, t2, t3}
    Conns = {c1, c2}
    Payloads = {p1, p2}
    Keys = {1, 2}
    HashText <- OneCollision
    Free = Free
    NoTenant = NoTenant
    MaxSerial = 3
INVARIANTS
    ChainVerifies
    HeadIsFresh
    HoldersRunOn
PROPERTIES
    ImplementsLog
