SPECIFICATION Spec
CONSTANTS
    Discipline <- Disciplines
    Opening = 3
    Quantities = {2}
    MaxCount = 2
    Shipments = {1, 2}
    Adjustments = {}
    Statuses = {"Delivered", "Completed"}
    MaxAdjustments = 0
    MaxRequests = 2
    MaxReturns = 1
    MaxRfqs = 2
    MaxOrders = 2
    MaxTransfers = 3
    MaxItems = 1
    PageSize = 1
INVARIANTS
    NumbersAgree
    EachShownOnce
    ServedOnce
    StockConserved
PROPERTIES
    StatusAdvances
CHECK_DEADLOCK FALSE
