SPECIFICATION PageSpec
CONSTANTS
    MaxYears = 2
    MaxWrites = 2
    MaxRush = 1
    MaxLosses = 1
    ReportYears = 2
    MaxImpatience = 1
    MaxErrors = 1
    f1 = f1
    f2 = f2
    SieFiles = {f1, f2}
    NoFile = NoFile
    SieYears = 2
    ValidSie <- PageValidSie
    MaxSieRush = 1
    MaxSieErrors = 1
    l1 = l1
    l2 = l2
    Logos = {l1, l2}
    NoLogo = NoLogo
    MaxEdits = 2
    MaxSettingsRush = 1
    MaxSettingsErrors = 1
    b1 = b1
    b2 = b2
    BackupFiles = {b1, b2}
    EncryptedFiles = {b1}
    NoBackup = NoBackup
    MaxRestoreRush = 2
    MaxRestoreErrors = 1
    a1 = a1
    a2 = a2
    n1 = n1
    n2 = n2
    MaxToasts = 3
    Askers = {a1, a2}
    NoAsker = NoAsker
    Buttons = {n1, n2}
    NoButton = NoButton
    Cooldown = 2
    Disarm = 4
    MaxTicks = 7
    MaxPrints = 3
    w1 = w1
    w2 = w2
    Workspaces = {w1, w2}
    MaxLoads = 2
    Queries <- PageQueries
    LastMonthStart = 49
    MonthStart <- MCMonthStart
    Summers <- MCSummers
    FiscalStarts = {0, 12, 18, 37}
    InvoiceDates = {0, 59, 60, 89, 90, 91, 180, 299, 300, 301, 330}
    PaymentTerms = {0, 1, 10, 30, 60, 120}
    Precision = 13
    MaxAmount = 30
    MaxRows = 3
    MaxTyped = 2
    TypedAmounts = {1, 30}
    TypedAccounts = {1510, 5410, 8310}
    InvoiceItems <- MCInvoiceItems
    MaxItems = 2
INVARIANTS
    PageTypeOK
    ActiveYearShown
    
    
    SettingsKept
    RestoreAsShown
    WidgetsInOrder
    ShellInOrder
    PaletteInOrder
    DatesNear
    FiguresAgree
CHECK_DEADLOCK FALSE
