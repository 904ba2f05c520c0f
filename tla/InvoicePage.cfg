SPECIFICATION Spec
CONSTANTS
    c1 = c1
    c2 = c2
    Calls = {c1, c2}
    Null = Null
    MaxInvoice = 2
    MaxBody = 2
    MaxHaste = 1
    MaxFailures = 1
INVARIANTS
    TypeOK
    LastClickWins
    ConfirmedIsDone
    PageIsServer
    NoTwins
    CustomersKnown
SYMMETRY CallSymmetry
CHECK_DEADLOCK FALSE
