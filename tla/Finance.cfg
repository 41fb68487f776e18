CONSTANTS
    Parties = {"q", "o"}
    Accounts = {"bank", "till"}
    Docs = {"s1", "s2", "r", "c"}
    Kind <- MCKind
    Owner <- MCOwner
    Amount <- MCAmount
    Due <- MCDue
    Rank <- MCRank
    Taken <- MCTaken
    Of <- MCOf
    Payments <- MCPayments
    Entries <- MCEntries
    PartyTransfers <- MCTransfers
    Plans = {"plan"}
    InstallmentDue <- MCInstallmentDue
    Closable = {"till"}
    MaxRows = 2
    MaxInput = 2
SPECIFICATION MCSpec
INVARIANTS BalanceIsExplained DuesAreExact
CHECK_DEADLOCK FALSE
