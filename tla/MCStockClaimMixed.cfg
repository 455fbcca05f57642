SPECIFICATION Spec
CONSTANTS
    u1 = u1  u2 = u2  u3 = u3  u4 = u4
    phone = phone  ghost = ghost
    j1 = j1  j2 = j2  j3 = j3  j4 = j4
    r1 = r1  r2 = r2  r3 = r3
    User = {u1, u2, u3, u4}
    Product = {phone, ghost}
    Catalog = {phone}
    Job = {j1, j2, j3, j4}
    Run = {r1, r2, r3}
    NoOrder = NoOrder  NullJob = NullJob  Free = Free
    MaxAttempts = 2
    Claim <- MCClaim
    Legacy <- MCLegacy
    TotalStock <- MCTotalStock
    Deployment <- MixedDeployment
SYMMETRY Symmetric
INVARIANTS
    TypeOK
    StockConserved
    NoOversell
    RowLockDiscipline
    VerdictsHold
    SoldOnce
    RetriesPaidBySales
    IInv
PROPERTY SaleSpec
