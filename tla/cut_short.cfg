SPECIFICATION TxSpec
CONSTANTS
    Sessions = {s1}
    Crashes = TRUE
    Alone = TRUE
    Discipline = {"count"}
    Opening = 2
    Quantities = {1, 2}
    MaxCount = 2
    Shipments = {2}
    Adjustments <- SomeAdjustments
    Statuses = {"Pending"}
    MaxAdjustments = 1
    MaxRequests = 1
    MaxReturns = 1
    MaxRfqs = 2
    MaxOrders = 1
    MaxTransfers = 2
    MaxItems = 1
    PageSize = 1
PROPERTIES
    ImplementsFulfilment
CHECK_DEADLOCK FALSE
