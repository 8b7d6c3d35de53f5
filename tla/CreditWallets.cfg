SPECIFICATION FairSpec
CONSTANTS
    t1 = t1  t2 = t2  t3 = t3
    w1 = w1  w2 = w2  r1 = r1  p1 = p1  p2 = p2
    NoTxn = NoTxn
    NoRef = NoRef
    Ref = {r1}
    Product = {p1, p2}
    ProductOf <- OneProduct
    Txn = {t1, t2, t3}
    Wallet = {w1, w2}
    Requests <- TwoWallets
INVARIANTS
    TypeOK
    NeverOverdrawn
    JournalSafe
    DriftOnlyFromOverlap
PROPERTIES
    EveryRequestEnds
    ImplementsAccount
CHECK_DEADLOCK FALSE
