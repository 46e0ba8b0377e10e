CONSTANTS
    None = None
    Handlers = {h1}
    Roles = {"sweep_get", "sweep_stop"}
    Backends = {"stub"}
    Points = 2
    Captures = 1
    MaxHeld = 1
SPECIFICATION ViewersSpec
INVARIANT SweepHasSource
CHECK_DEADLOCK FALSE
