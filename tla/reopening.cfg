SPECIFICATION Spec
CONSTANTS
    Handlers = {h1}
    Agents = {a1}
    Nobody = Nobody
    Hours <- Pressing
    Window = 1
    MaxTickets = 1
    MaxCrashes = 0
    Horizon = 1
    LastTick = 2
INVARIANT ReopenedWithinWindow
