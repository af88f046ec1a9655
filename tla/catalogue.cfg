SPECIFICATION Spec
CONSTANTS
    Vendors = {v1, v2}
    Products = {p1, p2}
    Locations = {l1, l2}
    Word = word
    Codes <- SomeCodes
    Sessions = {s1, s2}
    Discipline = {"codes", "edit", "open"}
    MaxSubmissions = 3
SYMMETRY Alike
INVARIANTS
    OneSkuPerProduct
    AssignedMatches
PROPERTIES
    ShownEverywhere
CHECK_DEADLOCK FALSE
