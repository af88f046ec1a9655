SPECIFICATION MigrationsSpec
CONSTANTS
    MaxRows = 3
    MaxNumber = 2
INVARIANTS
    AsRevised
    RefusedForRowsOnly
