SPECIFICATION AmountsSpec
CONSTANTS
    Precision = 13
    MaxAmount = 50
    MaxRows = 3
    MaxTyped = 2
    TypedAmounts = {1, 30}
    TypedAccounts = {1510, 3010, 5410, 8310}
    InvoiceItems <- MCInvoiceItems
    MaxItems = 2
INVARIANTS
    BalancedCanBePosted
CHECK_DEADLOCK FALSE
