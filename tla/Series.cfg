SPECIFICATION Spec
CONSTANTS
    LastMonth = 3
    YearOf <- MCYearOf
    InitialYears = {1, 2}
    MonthAt <- MCMonthAt
    MaxClock = 1
    Day = 0
    UtcOffset = 0
    Amounts = {1}
    a1 = a1
    Attachments = {a1}
    NoAttachment = NoAttachment
    MaxId = 4
    MaxGaps = 1000
    InitialIds = {2}
    LastInitialId = 2
INVARIANTS
    TypeOK
    StornoCancels
    SealedIsPrefix
    ClosedIsSealed
PROPERTIES
    ClosedMonthFrozen
    YoungDraftsKept
CHECK_DEADLOCK FALSE
