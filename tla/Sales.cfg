CONSTANTS
    d1 = d1  d2 = d2  i1 = i1  i2 = i2  r1 = r1
    Lines = {"a", "b"}
    Ordered <- MCOrdered
    Opening <- MCOpening
    Quantities <- MCQuantities
    Dispatches = {d1, d2}
    Invoices = {i1, i2}
    Returns = {r1}
    Quotes = {"k"}
    Orders = {"o1", "o2"}
    LineKind <- MCLineKind
    OrderSize = {2}
    Limits = {0, 2}
    MaxOwed = 3
    Hundred <- MCHundred
    Prices <- MCPrices
    LineQuantities <- MCLineQuantities
    Chains <- MCChains
    Profiles <- MCProfiles
    Withholdings = {0, 9}
    Tolerance = 2
    Callers = {"c1", "c2"}
    Foreign = {"USD"}
    RateDays = {1, 2}
    Intervals = {2}
    MaxMinute = 3
SYMMETRY MCSymmetry
SPECIFICATION MCSpec
INVARIANTS OrderIsExplained AmountsAddUp DebtIsAllowed OutageIsSeen
CHECK_DEADLOCK FALSE
