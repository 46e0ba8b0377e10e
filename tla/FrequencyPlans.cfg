CONSTANTS
    Unset = Unset
    Starts <- MCStarts
    Stops <- MCStops
    Rates = {0, 2, 3, 5, 9, 14}
    BinWidths = {1, 2, 3, 7}
SPECIFICATION FairPlanSpec
INVARIANT PlanSafe
PROPERTY PlanEnds
CHECK_DEADLOCK FALSE
