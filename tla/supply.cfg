SPECIFICATION SupplySpec
CONSTANTS
    Quantity = 2
    Owner = "request"
    Shipped = {1, 2}
    Inspected = {0, 1, 2}
    Numbers = {n1, n2}
    NoNumber = NoNumber
    Progress = {"In Transit", "Delivered"}
    SupplyDiscipline = {"one form", "whole", "count"}
    MaxReceived = 2
    MaxShipments = 2
    MaxInvoices = 2
    MaxReturns = 1
SYMMETRY NumberSymmetry
INVARIANTS
    PaidOnce
    FiledOnce
    RejectionReturned
    ShortOrderOpen
PROPERTIES
    SettledForGood
    DeliveredByReceipt
