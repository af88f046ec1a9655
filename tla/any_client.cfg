SPECIFICATION Spec
CONSTANTS
    Discipline = {}
    Opening = 2
    Quantities = {1, 2}
    MaxCount = 2
    Shipments = {2}
    Adjustments <- SomeAdjustments
    Statuses = {"Pending", "Completed"}
    MaxAdjustments = 1
    MaxRequests = 1
    MaxReturns = 1
    MaxRfqs = 2
    MaxOrders = 1
    MaxTransfers = 2
    MaxItems = 1
    PageSize = 1
INVARIANTS
    OnHandLedger
    DeliveryReleasesStock
    PortalsAgree
CHECK_DEADLOCK FALSE
