SPECIFICATION FairSpec
CONSTANTS
    Handlers = {h1, h2}
    Agents = {a1}
    Nobody = Nobody
    Hours <- Pressing
    Window = 1
    MaxTickets = 1
    MaxCrashes = 1
    Horizon = 2
    LastTick = 4
PROPERTIES
    WindowKept
    ResolutionStands
    ClosedAtLast
    BreachTold
