CONSTANTS
    Months = 3
    DaysPerMonth = 1
    Wages <- MCWages
    EntryDates = {1, 3}
    Kinds <- MCKinds
    MaxEmployments = 2
    MaxTerms = 2
    MaxPacks = 2
    MaxVersion = 4
    MaxAdvances = 2
    MaxAmount = 2
    MaxRows = 3
    Runs = {r1, r2}
    MaxManual = 1
    MaxGens = 2
    Staff = {e1, e2}
    Addresses = {a1}
    Batches = {b1, b2}
    Printers = {g1, g2}
    Grosses <- MCGrosses
    DayCounts = {15, 29}
    Extras <- MCExtras
    MaxMonth = 3
    Legislation <- MCLegislation
    RateScale = 100
    DivScale = 1000
    Targets <- MCTargets
    Things = {"t"}
    Holders = {"h1", "h2"}
    Editors = {"u1", "u2"}
    AssetClasses = {"k"}
    MaxCustody = 2
    MaxEdits = 5
SPECIFICATION MCSpec
INVARIANTS
    MoneyIsExplained
    CustodyIsOne
    MailedOnce
    YearAddsUp
PROPERTIES
    HistoryIsKept
    VerifiedIsFrozen
CHECK_DEADLOCK FALSE
