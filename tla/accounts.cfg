SPECIFICATION Spec
CONSTANTS
    Entities = {store, vendor}
    AdminsCreatable = {store}
    Sessions = {s1, s2}
    MaxUsers = 2
    MaxResets = 1
SYMMETRY SomeSession
INVARIANTS
    NobodyBeforeApproval
PROPERTIES
    
    
    ResetOnce
CHECK_DEADLOCK FALSE
