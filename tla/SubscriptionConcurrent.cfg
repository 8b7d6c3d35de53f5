SPECIFICATION Spec
CONSTANTS
    s1 = s1  s2 = s2
    gold = gold  silver = silver  free = free
    sub1 = sub1  sub2 = sub2  in1 = in1  in2 = in2  k1 = k1
    NoKey = NoKey  None = None
    Plan = {gold, silver, free}
    FreePlans = {free}
    PSub = {sub1, sub2}
    Key = {k1}
    Invoice = {in1}
    InvoiceOf <- Bills
    ProviderDedupes = TRUE
    GraceDays = 1
    MaxAttempts = 3
    Session = {s1, s2}
    MaxOpen = 2
    Requests <- Overlapping
SYMMETRY Symmetry
INVARIANTS
    PurchasesAddUp
PROPERTIES
    AccessLostOnlyBySweepOrCancel
    GraceAfterThirdFailure
    SuspensionHolds
CHECK_DEADLOCK FALSE
