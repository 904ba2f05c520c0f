SPECIFICATION Spec
CONSTANTS
    Totals = {1, 2}
    StartNumber = 1000
    MaxInvoice = 3
    p1 = p1
    p2 = p2
    Posts = {p1, p2}
INVARIANTS
    TypeOK
    PostedIsBooked
    UncreditedClears
    NumbersUnbroken
PROPERTIES
    PostedFrozen
SYMMETRY PostSymmetry
CHECK_DEADLOCK FALSE
