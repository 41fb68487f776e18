SPECIFICATION MCSpec
CONSTANTS
    r1 = r1  r2 = r2  i1 = i1  i2 = i2  t1 = t1  c1 = c1
    Receipts = {r1, r2}
    Invoices = {i1, i2}
    Returns = {t1}
    LandedCosts = {c1}
    LineType <- MCLineType
    UnitCost <- MCUnitCost
    Policy = "WARN"
    OrderInputs <- MCOrderInputs
    Deliveries <- MCDeliveries
    Bills <- MCBills
    Charges = {4}
    MaxIssued <- MCMaxIssued
SYMMETRY Symmetric
INVARIANTS GoodsAreCountedOnce OffersCanBeTaken
CHECK_DEADLOCK FALSE
