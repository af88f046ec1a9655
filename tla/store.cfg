SPECIFICATION Spec
CONSTANTS
    Sessions = {s1, s2}
    Orders = {o1, o2}
    Expected = {2}
    Updates = {"Delivered", "Completed"}
    Discipline = {"settle"}
    MaxLines = 2
    MaxReturns = 2
SYMMETRY SomeSession
INVARIANTS
    DeliveredWhenSettled
    ReturnOfLine
    NoReturnLost
    ShelfBacked
CHECK_DEADLOCK FALSE
