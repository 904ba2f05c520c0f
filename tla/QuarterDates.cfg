SPECIFICATION PeriodsSpec
CONSTANTS
    LastMonthStart = 49
    MonthStart <- MCMonthStart
    Summers <- MCSummers
    FiscalStarts = {0, 12, 18, 37}
    InvoiceDates = {0, 59, 60, 89, 90, 91, 180, 299, 300, 301, 330}
    PaymentTerms = {0, 1, 10, 30, 60, 120}
INVARIANTS
    QuartersAsNamed
CHECK_DEADLOCK FALSE
