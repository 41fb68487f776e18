SPECIFICATION MCSpec
CONSTANTS
    w1 = w1  w2 = w2
    Transfers = {"out", "back"}
    Lines = {"l1", "l2", "l3"}
    Products = {"p"}
    Warehouses = {"A", "B"}
    Transit = "T"
    TransferOf <- MCTransferOf
    ProductOf <- MCProductOf
    FromPlace <- MCFromPlace
    ToPlace <- MCToPlace
    Opening <- MCOpening
    MaxQuantity <- MCMaxQuantity
    MaxOutside = 1
    EqualEntries = FALSE
    Barriers <- MCBarriers
    MaxBars = 1
    Items = {"plain", "lot", "unit", "serial"}
    Variant <- MCVariant
    Tracking <- MCTracking
    Commands <- MCCommands
    Source <- MCSource
    Workers = {w1, w2}
    MaxClock = 4
    MaxMoves = 4
    Barcodes <- MCBarcodes
    Plain <- MCPlain
    Scopes <- MCScopes
    Found = {2}
    MaxEvents = 2
    MaxPasses = 2
CONSTRAINT Small
SYMMETRY Symmetric
INVARIANTS TransfersAreExplained OpenCanBeCancelled LedgerIsExact
PROPERTIES CountSettles
CHECK_DEADLOCK FALSE
