SPECIFICATION VatSpec
CONSTANTS
    LastMonth = 2
    YearOf <- MCOneYear
    InitialYears = {1}
    MonthAt <- MCMonthAtOnce
    MaxClock = 1
    Day = 0
    UtcOffset = 0
    Amounts = {1}
    a1 = a1
    Attachments = {}
    NoAttachment = NoAttachment
    MaxId = 3
    MaxGaps = 1000
    InitialIds = {1}
    LastInitialId = 1
    r1 = r1
    r2 = r2
    Requests = {r1, r2}
INVARIANTS
    VatTypeOK
    ChainVerifies
    TransferredOnce
PROPERTIES
    ClosedMonthNotExtended
    ImplementsWormLog
SYMMETRY VatSymmetry
CHECK_DEADLOCK FALSE
