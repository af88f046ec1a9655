SPECIFICATION FairTxSpec
CONSTANTS
    Sessions = {s1, s2}
    Crashes = FALSE
    Alone = FALSE
    Discipline = {"fulfil"}
    Opening = 2
    Quantities = {1, 2}
    MaxCount = 2
    Shipments = {2}
    Adjustments = {}
    Statuses = {"Pending"}
    MaxAdjustments = 0
    MaxRequests = 1
    MaxReturns = 0
    MaxRfqs = 2
    MaxOrders = 1
    MaxTransfers = 1
    MaxItems = 1
    PageSize = 1
INVARIANTS
    AvailableNonNegative
    ReservationSound
    ReleaseOwed
PROPERTIES
    InspectedOnce
    RecordedAtLast
CHECK_DEADLOCK FALSE
