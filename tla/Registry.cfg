CONSTANTS
    Partners = {"p1", "p2"}
    Clerks = {"u1", "u2"}
    Details = {"d1"}
    TaxNumbers = {"t"}
    NoNumber = "no"
    Groups = {"g"}
    Fields = {"f"}
    TaxPolicy = "BLOCK"
    MaxCode = 2
    MaxChanges = 4
    Ids = {1, 2, 3}
    Days = {1, 2}
    Stamps = {1, 2}
    Amounts = {3}
    Rate <- MCRate
    PageSize = 1
    Users = {"own", "demo"}
    DemoUser = "demo"
    Companies = {1, 2, 3}
    DemoCompany = 3
    Seats = {"s1", "s2"}
    Tokens = {"k"}
    Permissions = {"manage"}
    Attempts = {"a1", "a2"}
    MaxFailures = 2
    MaxStep = 2
    MaxVersion = 2
    MaxSecrets = 2
    Leads = {"a", "b"}
    Lists = {"x", "y"}
    Reps = {"r1", "r2"}
    Chief = "r1"
    Phone <- MCPhone
    MaxAttempts <- MCMaxAttempts
    MaxCalls = 1
    MaxMoves = 4
    Opps = {"k"}
    Stages = {"o", "p", "w", "x"}
    StageKind <- MCStageKind
    Articles = {"p", "q"}
    Skus = {"v", "w"}
    Traits = {"d"}
    TraitOptions <- MCTraitOptions
    Barcodes = {"b", "c"}
    Shelves = {"s"}
    MaxCombinations = 2
    MaxNumber = 2
    Tariffs = {"l"}
    Entries = {"e", "f"}
    Currencies = {"TRY", "USD"}
    RateRows = {1, 2, 3}
    RateValues = {10, 20}
    Horizon = 3
    Jobs = {"j1", "j2"}
    Requests = {"r1", "r2"}
    Actor <- MCActor
    RowCodes = {"p", "q"}
    MainHouse = "p"
    Marks = {"b"}
    NoMark = "no"
    ImportFiles <- MCImportFiles
    Columns = {"one", "two"}
    OpeningColumn <- MCOpeningColumn
    Pictures = {"i1", "i2"}
    Attachments = {"a"}
    MaxPictureVersion = 3
SPECIFICATION MCSpec
INVARIANTS
    PagesAreWhole
    AccessIsSound
    SellersAgree
    CatalogueIsCoherent
    AppliedOnce
    RowsHaveFiles
PROPERTIES
    NothingOverwritten
CHECK_DEADLOCK FALSE
