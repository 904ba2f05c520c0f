SPECIFICATION Spec
CONSTANTS
    i1 = i1
    i2 = i2
    f1 = f1
    s1 = s1
    s2 = s2
    Items = {i1}
    Files = {f1}
    Accepted = {f1}
    Submits = {s1, s2}
    Nothing = Nothing
    Own = Own
    MaxContent = 2
    MaxCopies = 2
    MaxHaste = 1
CHECK_DEADLOCK FALSE
INVARIANT DeletedWasBooked
