SPECIFICATION Spec
CONSTANTS
    Vendors = {v1, v2}
    Sessions = {s1, s2}
    NoVendor = NoVendor
    Crashes = TRUE
    Discipline = {"answer"}
    MaxRfqs = 1
    MaxQuotations = 3
    MaxOrders = 2
SYMMETRY Alike
INVARIANTS
    ReadyWhenAnswered
    ApprovedIsOrdered
PROPERTIES
    ImplementsTender
CHECK_DEADLOCK FALSE
