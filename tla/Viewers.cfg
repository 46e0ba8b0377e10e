CONSTANTS
    None = None
    Handlers = {h1, h2}
    Roles = {"ws", "sweep_ws", "sweep_get", "probe", "stop", "sweep_stop"}
    Backends = {"plain", "stub"}
    Points = 2
    Captures = 2
    MaxHeld = 1
SPECIFICATION FairViewersSpec
INVARIANTS ViewersSafe NotLeftRunning LabelRight
PROPERTY HandlersEnd
CHECK_DEADLOCK FALSE
