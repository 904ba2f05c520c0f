SPECIFICATION Spec
CONSTANTS
    c1 = c1
    c2 = c2
    Calls = {c1}
    Null = Null
    MaxInvoice = 1
    MaxBody = 1
    MaxHaste = 0
    MaxFailures = 0
INVARIANT EraseIsFinal
CHECK_DEADLOCK FALSE
