SPECIFICATION VatFairSpec
CONSTANTS
    LastMonth = 2
    YearOf <- MCOneYear
    InitialYears = {1}
    MonthAt <- MCMonthAtOnce
    MaxClock = 3
    Day = 1
    UtcOffset = 1
    Amounts = {1}
    a1 = a1
    Attachments = {}
    NoAttachment = NoAttachment
    MaxId = 2
    MaxGaps = 1000
    InitialIds = {1}
    LastInitialId = 1
    r1 = r1
    r2 = r2
    Requests = {r1, r2}
INVARIANTS
    DraftsOnlyDuringTransfer
PROPERTIES
    LockedDraftsGetSealed
    AutoSealCatchesUp
CHECK_DEADLOCK FALSE
